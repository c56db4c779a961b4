----------------------------- MODULE MemProofs ------------------------------
(***************************************************************************)
(* Machine-checked proofs about the kernel heap (kernel/kmalloc.c) under   *)
(* all that allocates from it, for any sizes of the heap and of what is    *)
(* allocated, and any number of processes and windows.                     *)
(***************************************************************************)
EXTENDS Mem, FiniteSetTheorems, WellFoundedInduction, TLAPS

-----------------------------------------------------------------------------
(* Recursion over the naturals, for the loops of the kernel                *)

\* A set of naturals has a least element.
LEMMA LeastExists ==
    ASSUME NEW S \in SUBSET Nat, S # {}
    PROVE  \E x \in S : \A y \in S : x <= y
<1> DEFINE R == OpToRel(<, Nat)
<1>1. IsWellFoundedOn(R, Nat)
  BY NatLessThanWellFounded
<1>2. \A x, y \in Nat : x < y => <<x, y>> \in R
  BY DEF OpToRel
<1> HIDE DEF R
<1>3. PICK x \in S : \A y \in S : ~(<<y, x>> \in R)
  BY <1>1, WFMin
<1>4. \A y \in S : ~(y < x)
  BY <1>2, <1>3
<1> QED
  BY <1>4

\* g is what a loop computes in its turns up to n: F maps the state before a turn
\* to the state after it, and the first turn is number lo.
Computes(S, a, F, lo, n, g) ==
    /\ g \in [Nat -> S]
    /\ \A i \in Nat : i <= n => g[i] = IF i <= lo THEN a ELSE F[<<g[i - 1], i - 1>>]

LEMMA ComputesExists ==
    ASSUME NEW S, NEW a \in S, NEW F \in [S \X Nat -> S], NEW lo \in Nat, NEW n \in Nat
    PROVE  \E g : Computes(S, a, F, lo, n, g)
<1> SUFFICES ASSUME \A g : ~Computes(S, a, F, lo, n, g)
             PROVE  FALSE
  OBVIOUS
<1> DEFINE Bad == {m \in Nat : \A g : ~Computes(S, a, F, lo, m, g)}
<1>1. PICK m \in Bad : \A k \in Bad : m <= k
  <2>1. Bad \in SUBSET Nat /\ Bad # {}
    OBVIOUS
  <2> QED
    BY <2>1, LeastExists
<1>2. m # 0
  <2>1. Computes(S, a, F, lo, 0, [i \in Nat |-> a])
    BY DEF Computes
  <2> QED
    BY <2>1
<1>3. m - 1 \in Nat /\ m \in Nat /\ m - 1 \notin Bad
  BY <1>1, <1>2
<1>4. PICK g : Computes(S, a, F, lo, m - 1, g)
  BY <1>3
<1> DEFINE v == IF m <= lo THEN a ELSE F[<<g[m - 1], m - 1>>]
           e == [g EXCEPT ![m] = v]
<1>5. g \in [Nat -> S]
  BY <1>4 DEF Computes
<1>6. v \in S
  BY <1>3, <1>5
<1> HIDE DEF v
<1>7. e \in [Nat -> S] /\ e[m] = v /\ \A i \in Nat : i # m => e[i] = g[i]
  BY <1>3, <1>5, <1>6
<1> HIDE DEF e
<1>8. ASSUME NEW i \in Nat, i <= m
      PROVE  e[i] = IF i <= lo THEN a ELSE F[<<e[i - 1], i - 1>>]
  <2>1. CASE i = m
    BY <2>1, <1>2, <1>3, <1>7 DEF v
  <2>2. CASE i < m
    <3>1. i <= m - 1
      BY <2>2, <1>3
    <3>2. g[i] = IF i <= lo THEN a ELSE F[<<g[i - 1], i - 1>>]
      BY <3>1, <1>4 DEF Computes
    <3> QED
      BY <3>2, <2>2, <1>3, <1>7
  <2> QED
    BY <2>1, <2>2, <1>3, <1>8
<1>9. Computes(S, a, F, lo, m, e)
  BY <1>7, <1>8 DEF Computes
<1> QED
  BY <1>1, <1>9

LEMMA ComputesUnique ==
    ASSUME NEW S, NEW a \in S, NEW F \in [S \X Nat -> S], NEW lo \in Nat,
           NEW n \in Nat, NEW m \in Nat, NEW g, NEW h,
           Computes(S, a, F, lo, n, g), Computes(S, a, F, lo, m, h),
           NEW i \in Nat, i <= n, i <= m
    PROVE  g[i] = h[i]
<1> SUFFICES ASSUME g[i] # h[i]
             PROVE  FALSE
  OBVIOUS
<1> DEFINE Bad == {k \in Nat : k <= i /\ g[k] # h[k]}
<1>1. PICK k \in Bad : \A l \in Bad : k <= l
  <2>1. Bad \in SUBSET Nat /\ Bad # {}
    OBVIOUS
  <2> QED
    BY <2>1, LeastExists
<1>2. /\ g[k] = IF k <= lo THEN a ELSE F[<<g[k - 1], k - 1>>]
      /\ h[k] = IF k <= lo THEN a ELSE F[<<h[k - 1], k - 1>>]
  BY <1>1 DEF Computes
<1>3. k > lo
  BY <1>1, <1>2
<1>4. k - 1 \in Nat /\ k - 1 <= i /\ k - 1 \notin Bad
  BY <1>1, <1>3
<1>5. g[k - 1] = h[k - 1]
  BY <1>4
<1> QED
  BY <1>1, <1>2, <1>3, <1>5

\* A recursive definition has a solution.
Solves(S, a, F, lo, f) ==
    /\ f \in [Nat -> S]
    /\ \A i \in Nat : f[i] = IF i <= lo THEN a ELSE F[<<f[i - 1], i - 1>>]

LEMMA Recursion ==
    ASSUME NEW S, NEW a \in S, NEW F \in [S \X Nat -> S], NEW lo \in Nat
    PROVE  \E f : Solves(S, a, F, lo, f)
<1> DEFINE G(n) == CHOOSE g : Computes(S, a, F, lo, n, g)
           f == [i \in Nat |-> G(i)[i]]
<1>1. ASSUME NEW n \in Nat PROVE Computes(S, a, F, lo, n, G(n))
  BY ComputesExists
<1> HIDE DEF G
<1>2. ASSUME NEW n \in Nat, NEW i \in Nat, i <= n PROVE G(n)[i] = f[i]
  <2>1. Computes(S, a, F, lo, n, G(n)) /\ Computes(S, a, F, lo, i, G(i)) /\ i <= i
    BY <1>1
  <2>2. G(n)[i] = G(i)[i]
    BY <2>1, <1>2, ComputesUnique
  <2> QED
    BY <2>2
<1>3. ASSUME NEW i \in Nat PROVE f[i] \in S
  BY <1>1 DEF Computes
<1>4. f \in [Nat -> S]
  BY <1>3
<1>5. ASSUME NEW i \in Nat
      PROVE  f[i] = IF i <= lo THEN a ELSE F[<<f[i - 1], i - 1>>]
  <2>1. G(i)[i] = IF i <= lo THEN a ELSE F[<<G(i)[i - 1], i - 1>>]
    BY <1>1 DEF Computes
  <2>2. CASE i <= lo
    BY <2>1, <2>2
  <2>3. CASE ~(i <= lo)
    <3>1. i - 1 \in Nat /\ i - 1 <= i
      BY <2>3
    <3>2. G(i)[i - 1] = f[i - 1]
      BY <3>1, <1>2
    <3> QED
      BY <2>1, <2>3, <3>2
  <2> QED
    BY <2>2, <2>3
<1> HIDE DEF f
<1> QED
  BY <1>4, <1>5 DEF Solves

-----------------------------------------------------------------------------
(* The walk along the heap                                                 *)

Header == [size : Nat, free : BOOLEAN, prev : Addrs \cup {NULL}, next : Addrs \cup {NULL}]

LEMMA Walk ==
    ASSUME NEW h \in [Addrs -> Header]
    PROVE  \E f \in [Nat -> Addrs \cup {NULL}] :
              /\ f[0] = 0 /\ \A i \in Nat : f[i + 1] = After(h, f[i])
              /\ Blocks(h) = {f[i] : i \in 0 .. HeapUnits} \ {NULL}
<1> DEFINE S == Addrs \cup {NULL}
           F == [x \in S \X Nat |-> After(h, x[1])]
           Is(f) == f = [i \in Nat |-> IF i = 0 THEN 0 ELSE After(h, f[i - 1])]
           at == CHOOSE f : Is(f)
<1>1. 0 \in S
  BY HeapAssumption DEF Addrs
<1>2. F \in [S \X Nat -> S]
  <2>1. \A b \in Addrs : h[b].next \in S
    BY DEF Header
  <2> QED
    BY <2>1 DEF After
<1>3. PICK f : Solves(S, 0, F, 0, f)
  <2> HIDE DEF F, S
  <2> QED
    BY <1>1, <1>2, Recursion
<1>4. f \in [Nat -> S] /\ f[0] = 0
  <2> HIDE DEF F, S
  <2>1. f \in [Nat -> S]
    BY <1>3 DEF Solves
  <2>2. \A i \in Nat : i <= 0 => f[i] = 0
    BY <1>3 DEF Solves
  <2> QED
    BY <2>1, <2>2
<1>5. ASSUME NEW i \in Nat, i # 0 PROVE f[i] = After(h, f[i - 1])
  <2>1. f[i] = F[<<f[i - 1], i - 1>>]
    <3> HIDE DEF F, S
    <3>1. ~(i <= 0)
      BY <1>5
    <3> QED
      BY <1>3, <3>1 DEF Solves
  <2>2. <<f[i - 1], i - 1>> \in S \X Nat
    BY <1>4, <1>5
  <2> QED
    BY <2>1, <2>2
<1>6. Is(at)
  <2>1. Is(f)
    BY <1>4, <1>5
  <2> HIDE DEF Is
  <2> QED
    BY <2>1
<1>7. Blocks(h) = {at[i] : i \in 0 .. HeapUnits} \ {NULL}
  BY DEF Blocks
<1> HIDE DEF at
<1>8. ASSUME NEW i \in Nat PROVE at[i] = IF i = 0 THEN 0 ELSE After(h, at[i - 1])
  BY <1>6
<1>9. at[0] = 0
  BY <1>8
<1>10. ASSUME NEW i \in Nat PROVE at[i + 1] = After(h, at[i])
  <2>1. i + 1 \in Nat /\ i + 1 # 0 /\ (i + 1) - 1 = i
    OBVIOUS
  <2> QED
    BY <2>1, <1>8
<1>11. at \in [Nat -> S]
  <2>1. ASSUME NEW i \in Nat PROVE at[i] \in S
    <3>1. \A b : After(h, b) \in S
      BY DEF After, Header
    <3> QED
      BY <3>1, <1>1, <1>8
  <2>2. at = [i \in Nat |-> at[i]]
    BY <1>6
  <2> QED
    BY <2>1, <2>2
<1> QED
  BY <1>7, <1>9, <1>10, <1>11

-----------------------------------------------------------------------------
(* The kernel heap                                                         *)

\* Where a header stands, and where the block of b ends.
Marked(h) == {a \in Addrs : h[a].size >= 1}
End(h, b) == b + 1 + h[b].size
Busy(h) == {b \in Marked(h) : ~h[b].free}

\* The headers tile the heap and each names both its neighbours.
Linked(h, b) ==
    /\ End(h, b) <= HeapUnits
    /\ h[b].next = IF End(h, b) = HeapUnits THEN NULL ELSE End(h, b)
    /\ End(h, b) < HeapUnits => End(h, b) \in Marked(h) /\ h[End(h, b)].prev = b
    /\ b = 0 => h[b].prev = NULL
    /\ b # 0 => h[b].prev \in Marked(h) /\ End(h, h[b].prev) = b

Chain(h) ==
    /\ h \in [Addrs -> Header] /\ 0 \in Marked(h)
    /\ \A b \in Marked(h) : Linked(h, b)
    /\ \A b, c \in Marked(h) : b < c => End(h, b) <= c

\* No block outside X is free beside a free one.
Apart(h, X) ==
    \A b \in Marked(h) \ X : End(h, b) < HeapUnits => ~(h[b].free /\ h[End(h, b)].free)

Flag(h, b, v) == [h EXCEPT ![b].free = v]

LEMMA MarkedTypes ==
    ASSUME NEW h \in [Addrs -> Header], NEW b \in Addrs
    PROVE  /\ h[b].size \in Nat /\ h[b].free \in BOOLEAN /\ b \in Nat /\ HeapUnits \in Nat
           /\ h[b].prev \in Addrs \cup {NULL} /\ h[b].next \in Addrs \cup {NULL}
           /\ NULL \notin Addrs /\ b < HeapUnits /\ End(h, b) \in Nat /\ End(h, b) > b
<1>1. h[b] \in Header /\ b \in Nat /\ HeapUnits \in Nat /\ b < HeapUnits
  BY HeapAssumption DEF Addrs
<1>2. h[b].size \in Nat /\ h[b].free \in BOOLEAN
      /\ h[b].prev \in Addrs \cup {NULL} /\ h[b].next \in Addrs \cup {NULL}
  BY <1>1 DEF Header
<1>3. NULL \notin Addrs
  BY HeapAssumption DEF NULL, Addrs
<1> QED
  BY <1>1, <1>2, <1>3 DEF End

LEMMA FlagFields ==
    ASSUME NEW h \in [Addrs -> Header], NEW b \in Addrs, NEW v \in BOOLEAN
    PROVE  /\ Flag(h, b, v) \in [Addrs -> Header] /\ Flag(h, b, v)[b].free = v
           /\ \A x \in Addrs : /\ Flag(h, b, v)[x].size = h[x].size
                               /\ Flag(h, b, v)[x].prev = h[x].prev
                               /\ Flag(h, b, v)[x].next = h[x].next
                               /\ x # b => Flag(h, b, v)[x].free = h[x].free
<1> DEFINE r == [h[b] EXCEPT !.free = v]
<1>1. /\ r \in Header /\ r.free = v /\ r.size = h[b].size /\ r.prev = h[b].prev
      /\ r.next = h[b].next
  BY DEF Header
<1>2. Flag(h, b, v) = [h EXCEPT ![b] = r]
  BY DEF Flag
<1> HIDE DEF r
<1> QED
  BY <1>1, <1>2

\* The flag is no part of the chain: g is h but for the flag of b.
FlagOK(h, b, v, g) ==
    /\ Chain(g) /\ Marked(g) = Marked(h) /\ g[b].free = v
    /\ \A x \in Marked(h) : /\ End(g, x) = End(h, x) /\ g[x].size = h[x].size
                            /\ g[x].prev = h[x].prev /\ g[x].next = h[x].next
                            /\ x # b => g[x].free = h[x].free

LEMMA FlagChain ==
    ASSUME NEW h, Chain(h), NEW b \in Marked(h), NEW v \in BOOLEAN
    PROVE  FlagOK(h, b, v, Flag(h, b, v))
<1> DEFINE g == Flag(h, b, v)
<1>1. h \in [Addrs -> Header] /\ b \in Addrs
  BY DEF Chain, Marked
<1>2. /\ g \in [Addrs -> Header] /\ g[b].free = v
      /\ \A x \in Addrs : /\ g[x].size = h[x].size /\ g[x].prev = h[x].prev
                          /\ g[x].next = h[x].next
                          /\ x # b => g[x].free = h[x].free
  BY <1>1, FlagFields
<1> HIDE DEF g
<1>3. Marked(g) = Marked(h)
  BY <1>2 DEF Marked
<1>4. \A x \in Addrs : End(g, x) = End(h, x)
  BY <1>2 DEF End
<1>5. Marked(h) \subseteq Addrs
  BY DEF Marked
<1>6. Chain(g)
  <2>1. ASSUME NEW x \in Marked(h) PROVE Linked(g, x)
    <3>1. Linked(h, x) /\ x \in Addrs
      BY <1>5 DEF Chain
    <3> QED
      BY <3>1, <1>2, <1>3, <1>4, <1>5 DEF Linked
  <2> QED
    BY <2>1, <1>2, <1>3, <1>4, <1>5 DEF Chain
<1> QED
  BY <1>2, <1>3, <1>4, <1>5, <1>6 DEF FlagOK, g

LEMMA SplitFields ==
    ASSUME NEW h \in [Addrs -> Header], NEW b \in Addrs, NEW want \in Nat \ {0},
           h[b].size - want >= 2, End(h, b) <= HeapUnits, h[b].next # b, h[b].next # b + 1 + want
    PROVE  /\ Split(h, b, want) \in [Addrs -> Header] /\ b + 1 + want \in Addrs
           /\ Split(h, b, want)[b + 1 + want] =
                 [size |-> h[b].size - want - 1, free |-> TRUE, prev |-> b, next |-> h[b].next]
           /\ Split(h, b, want)[b].size = want /\ Split(h, b, want)[b].free = h[b].free
           /\ Split(h, b, want)[b].prev = h[b].prev
           /\ Split(h, b, want)[b].next = b + 1 + want
           /\ \A x \in Addrs \ {b, b + 1 + want} :
                 /\ Split(h, b, want)[x].size = h[x].size
                 /\ Split(h, b, want)[x].free = h[x].free
                 /\ Split(h, b, want)[x].next = h[x].next
                 /\ Split(h, b, want)[x].prev = IF x = h[b].next THEN b + 1 + want ELSE h[x].prev
<1> DEFINE n == b + 1 + want
           new == [size |-> h[b].size - want - 1, free |-> TRUE, prev |-> b, next |-> h[b].next]
           old == [h[b] EXCEPT !.next = n, !.size = want]
           k == SetPrev(h, h[b].next, n)
           g == Split(h, b, want)
<1>1. /\ h[b].size \in Nat /\ h[b].free \in BOOLEAN /\ b \in Nat /\ HeapUnits \in Nat
      /\ h[b].prev \in Addrs \cup {NULL} /\ h[b].next \in Addrs \cup {NULL} /\ h[b] \in Header
  BY MarkedTypes
<1>2. n \in Addrs /\ n # b
  BY <1>1 DEF End, Addrs
<1>3. /\ new \in Header /\ old \in Header /\ old.size = want /\ old.free = h[b].free
      /\ old.prev = h[b].prev /\ old.next = n
  <2>1. h[b].size - want - 1 \in Nat
    BY <1>1
  <2>2. new \in Header
    BY <1>1, <2>1 DEF Header
  <2> HIDE DEF n, new
  <2>3. /\ old \in Header /\ old.size = want /\ old.free = h[b].free
        /\ old.prev = h[b].prev /\ old.next = n
    BY <1>1, <1>2 DEF Header
  <2> QED
    BY <2>2, <2>3
<1>4. /\ k \in [Addrs -> Header] /\ k[b] = h[b]
      /\ \A x \in Addrs : /\ k[x].size = h[x].size /\ k[x].free = h[x].free
                          /\ k[x].next = h[x].next
                          /\ k[x].prev = IF x = h[b].next THEN n ELSE h[x].prev
  <2>1. CASE h[b].next = NULL
    <3>1. k = h
      BY <2>1 DEF SetPrev
    <3>2. h[b].next \notin Addrs
      BY <2>1, MarkedTypes
    <3> HIDE DEF k
    <3> QED
      BY <3>1, <3>2
  <2>2. CASE h[b].next \in Addrs
    <3> DEFINE e == h[b].next
               r == [h[e] EXCEPT !.prev = n]
    <3>1. k = [h EXCEPT ![e] = r]
      BY <2>2, MarkedTypes DEF SetPrev
    <3>2. h[e] \in Header
      BY <2>2
    <3>3. r \in Header /\ r.size = h[e].size /\ r.free = h[e].free /\ r.next = h[e].next
          /\ r.prev = n
      BY <3>2, <1>2 DEF Header
    <3>4. e # b /\ e \in Addrs
      BY <2>2
    <3> HIDE DEF k, r, e, n
    <3>5. k \in [Addrs -> Header] /\ k[e] = r /\ \A x \in Addrs : x # e => k[x] = h[x]
      BY <3>1, <3>3, <3>4
    <3>6. ASSUME NEW x \in Addrs
          PROVE  /\ k[x].size = h[x].size /\ k[x].free = h[x].free /\ k[x].next = h[x].next
                 /\ k[x].prev = IF x = e THEN n ELSE h[x].prev
      BY <3>3, <3>5
    <3> QED
      BY <3>4, <3>5, <3>6 DEF e
  <2> QED
    BY <2>1, <2>2, <1>1
<1>5. g = [k EXCEPT ![n] = new, ![b] = old]
  <2>1. g = [k EXCEPT ![n] = new, ![b].next = n, ![b].size = want]
    BY DEF Split
  <2>2. [k[b] EXCEPT !.next = n, !.size = want] = old
    BY <1>4
  <2> HIDE DEF k, n, new, old, g
  <2> QED
    BY <2>1, <2>2, <1>2, <1>4
<1> HIDE DEF k, new, old, g, n
<1>6. g \in [Addrs -> Header] /\ g[n] = new /\ g[b] = old
      /\ \A x \in Addrs \ {b, n} : g[x] = k[x]
  BY <1>2, <1>3, <1>4, <1>5
<1> QED
  BY <1>2, <1>3, <1>4, <1>6 DEF g, n, new

\* What SplitChain says of the heap k, with the new block n.
SplitOK(h, b, want, k, n) ==
    /\ Chain(k) /\ n \notin Marked(h) /\ Marked(k) = Marked(h) \cup {n}
    /\ k[b].size = want /\ k[n].free = TRUE /\ End(k, b) = n /\ End(k, n) = End(h, b)
    /\ \A x \in Marked(h) : /\ k[x].free = h[x].free
                            /\ x # b => k[x].size = h[x].size
                            /\ x # b => End(k, x) = End(h, x)

LEMMA SplitChain ==
    ASSUME NEW h, Chain(h), NEW b \in Marked(h), NEW want \in Nat \ {0}, h[b].size - want >= 2
    PROVE  SplitOK(h, b, want, Split(h, b, want), b + 1 + want)
<1> DEFINE n == b + 1 + want
           e == End(h, b)
           g == Split(h, b, want)
<1>1. h \in [Addrs -> Header] /\ b \in Addrs /\ Marked(h) \subseteq Addrs /\ 0 \in Marked(h)
  BY DEF Chain, Marked
<1>2. /\ h[b].size \in Nat /\ b \in Nat /\ HeapUnits \in Nat /\ NULL \notin Addrs
      /\ e = b + 1 + h[b].size /\ e \in Nat
  BY <1>1, MarkedTypes DEF End
<1>3. \A x \in Marked(h) : Linked(h, x) /\ x \in Nat /\ x < HeapUnits
                           /\ End(h, x) \in Nat /\ End(h, x) > x
  BY <1>1, MarkedTypes DEF Chain
<1>4. \A x, y \in Marked(h) : x < y => End(h, x) <= y
  BY DEF Chain
<1>5. e <= HeapUnits /\ h[b].next = IF e = HeapUnits THEN NULL ELSE e
  BY <1>3 DEF Linked
<1>6. b < n /\ n + 1 < e /\ n \in Nat
  BY <1>2
<1>7. n \notin Marked(h)
  BY <1>4, <1>6, <1>2
<1>8. h[b].next # b /\ h[b].next # n
  <2>1. NULL # b /\ NULL # n
    BY <1>2, <1>6 DEF NULL
  <2> QED
    BY <2>1, <1>5, <1>6, <1>2
<1>9. /\ g \in [Addrs -> Header] /\ n \in Addrs
      /\ g[n] = [size |-> h[b].size - want - 1, free |-> TRUE, prev |-> b, next |-> h[b].next]
      /\ g[b].size = want /\ g[b].free = h[b].free /\ g[b].prev = h[b].prev /\ g[b].next = n
      /\ \A x \in Addrs \ {b, n} :
            /\ g[x].size = h[x].size /\ g[x].free = h[x].free /\ g[x].next = h[x].next
            /\ g[x].prev = IF x = h[b].next THEN n ELSE h[x].prev
  BY <1>1, <1>5, <1>8, SplitFields
<1>10. /\ g[n].size = h[b].size - want - 1 /\ g[n].free = TRUE /\ g[n].prev = b
       /\ g[n].next = h[b].next
  BY <1>9
<1> HIDE DEF g, n, e
<1>11. End(g, b) = n /\ End(g, n) = e /\ \A x \in Addrs \ {b, n} : End(g, x) = End(h, x)
  BY <1>2, <1>9, <1>10 DEF End, n
<1>12. Marked(g) = Marked(h) \cup {n}
  <2>1. g[n].size >= 1 /\ g[b].size >= 1
    BY <1>2, <1>9, <1>10
  <2>2. \A x \in Addrs : g[x].size >= 1 <=> x = n \/ h[x].size >= 1
    <3>1. h[b].size >= 1
      BY <1>2
    <3> QED
      BY <2>1, <3>1, <1>9
  <2> QED
    BY <2>2, <1>9 DEF Marked
<1>13. Linked(h, b) /\ End(h, b) = e
  BY <1>3 DEF e
<1>14. Linked(g, b)
  <2>1. b # 0 => h[b].prev \in Marked(h) /\ End(g, h[b].prev) = b
    <3> SUFFICES ASSUME b # 0 PROVE h[b].prev \in Marked(h) /\ End(g, h[b].prev) = b
      OBVIOUS
    <3>1. h[b].prev \in Marked(h) /\ End(h, h[b].prev) = b
      BY <1>13 DEF Linked
    <3>2. h[b].prev # b
      BY <3>1, <1>3, <1>2
    <3> QED
      BY <3>1, <3>2, <1>1, <1>7, <1>11
  <2>2. n < HeapUnits
    BY <1>6, <1>5, <1>2
  <2>3. b = 0 => g[b].prev = NULL
    BY <1>9, <1>13 DEF Linked
  <2>4. End(g, b) <= HeapUnits /\ End(g, b) # HeapUnits /\ g[b].next = End(g, b)
        /\ End(g, b) \in Marked(g) /\ g[End(g, b)].prev = b
    BY <2>2, <1>2, <1>6, <1>9, <1>10, <1>11, <1>12
  <2>5. b # 0 => g[b].prev \in Marked(g) /\ End(g, g[b].prev) = b
    BY <2>1, <1>9, <1>12
  <2> QED
    BY <2>3, <2>4, <2>5 DEF Linked
<1>15. Linked(g, n)
  <2>1. ASSUME e < HeapUnits PROVE e \in Marked(g) /\ g[e].prev = n
    <3>1. e \in Marked(h) /\ h[b].next = e
      BY <2>1, <1>5, <1>13, <1>2 DEF Linked
    <3>2. e # b /\ e # n
      BY <1>6, <1>2
    <3> QED
      BY <3>1, <3>2, <1>1, <1>9, <1>12
  <2>2. n # 0
    BY <1>6, <1>2
  <2> QED
    BY <2>1, <2>2, <1>5, <1>10, <1>11, <1>12 DEF Linked
<1>16. ASSUME NEW x \in Marked(h), x # b PROVE Linked(g, x)
  <2>1. x \in Addrs \ {b, n} /\ Linked(h, x)
    BY <1>1, <1>3, <1>7, <1>16
  <2>2. End(g, x) = End(h, x) /\ g[x].next = h[x].next
    BY <2>1, <1>9, <1>11
  <2>3. ASSUME End(h, x) < HeapUnits PROVE End(h, x) \in Marked(h) /\ g[End(h, x)].prev = x
    <3> DEFINE y == End(h, x)
    <3>1. y \in Marked(h) /\ h[y].prev = x
      BY <2>1, <2>3 DEF Linked
    <3>2. y # e
      <4>1. e < HeapUnits => h[e].prev = b
        BY <1>13 DEF Linked
      <4> QED
        BY <4>1, <3>1, <2>3, <1>16
    <3>3. y # n /\ y \in Addrs /\ y # NULL
      BY <3>1, <1>1, <1>2, <1>7
    <3> HIDE DEF y
    <3>4. y # h[b].next
      BY <3>2, <3>3, <1>5
    <3>5. g[y].prev = h[y].prev
      BY <3>3, <3>4, <1>9
    <3> QED
      BY <3>1, <3>5 DEF y
  <2>4. x = 0 => g[x].prev = NULL
    <3> SUFFICES ASSUME x = 0 PROVE g[x].prev = NULL
      OBVIOUS
    <3>1. h[x].prev = NULL
      BY <2>1 DEF Linked
    <3>2. x # e /\ x # NULL
      BY <1>6, <1>2 DEF NULL
    <3> QED
      BY <3>1, <3>2, <2>1, <1>5, <1>9
  <2>5. ASSUME x # 0 PROVE g[x].prev \in Marked(g) /\ End(g, g[x].prev) = x
    <3>1. CASE x = h[b].next
      <4>1. g[x].prev = n
        BY <3>1, <2>1, <1>9
      <4>2. x = e
        BY <3>1, <2>1, <1>5, <1>2
      <4> QED
        BY <4>1, <4>2, <1>11, <1>12
    <3>2. CASE x # h[b].next
      <4>1. g[x].prev = h[x].prev
        BY <3>2, <2>1, <1>9
      <4>2. h[x].prev \in Marked(h) /\ End(h, h[x].prev) = x
        BY <2>1, <2>5 DEF Linked
      <4>3. x # e
        <5>1. x < HeapUnits
          BY <1>3
        <5> QED
          BY <5>1, <3>2, <1>5, <1>2
      <4>4. h[x].prev \in Addrs \ {b, n}
        BY <4>2, <4>3, <1>1, <1>7, <1>13
      <4> QED
        BY <4>1, <4>2, <4>4, <1>11, <1>12
    <3> QED
      BY <3>1, <3>2
  <2>6. Marked(h) \subseteq Marked(g)
    BY <1>12
  <2> QED
    BY <2>1, <2>2, <2>3, <2>4, <2>5, <2>6 DEF Linked
<1>17. ASSUME NEW x \in Marked(g), NEW y \in Marked(g), x < y PROVE End(g, x) <= y
  <2>1. x \in Marked(h) \cup {n} /\ y \in Marked(h) \cup {n} /\ b \in Marked(h) /\ b # n
    BY <1>12, <1>6, <1>2
  <2>2. CASE x = n
    <3>1. y \in Marked(h) /\ b < y
      BY <2>1, <2>2, <1>17, <1>6, <1>2, <1>3
    <3> QED
      BY <3>1, <2>2, <1>4, <1>11, <1>13
  <2>3. CASE x = b
    <3>1. CASE y = n
      BY <2>3, <3>1, <1>11, <1>6
    <3>2. CASE y \in Marked(h)
      <4>1. e <= y /\ y \in Nat
        BY <2>3, <3>2, <1>17, <1>3, <1>4, <1>13
      <4> QED
        BY <4>1, <2>3, <1>11, <1>6, <1>2
    <3> QED
      BY <3>1, <3>2, <2>1
  <2>4. CASE x # n /\ x # b
    <3>1. x \in Marked(h) /\ x \in Addrs \ {b, n} /\ End(g, x) = End(h, x)
      BY <2>1, <2>4, <1>1, <1>11
    <3>2. CASE y \in Marked(h)
      BY <3>1, <3>2, <1>17, <1>4
    <3>3. CASE y = n
      <4>1. x < b
        <5> SUFFICES ASSUME b < x PROVE FALSE
          BY <3>1, <1>3, <2>4, <1>2
        <5>1. e <= x
          BY <3>1, <1>4, <1>13
        <5> QED
          BY <5>1, <3>1, <3>3, <1>17, <1>6, <1>2, <1>3
      <4>2. End(h, x) <= b
        BY <4>1, <3>1, <1>4
      <4> QED
        BY <4>2, <3>1, <3>3, <1>6, <1>2, <1>3
    <3> QED
      BY <3>2, <3>3, <2>1
  <2> QED
    BY <2>2, <2>3, <2>4
<1>18. Chain(g)
  <2>1. ASSUME NEW x \in Marked(g) PROVE Linked(g, x)
    BY <1>12, <1>14, <1>15, <1>16
  <2> QED
    BY <2>1, <1>1, <1>9, <1>12, <1>17 DEF Chain
<1>19. ASSUME NEW x \in Marked(h)
       PROVE  /\ x # b => g[x].size = h[x].size
              /\ x # b => End(g, x) = End(h, x)
  BY <1>1, <1>7, <1>9, <1>11
<1>20. ASSUME NEW x \in Marked(h) PROVE g[x].free = h[x].free
  BY <1>1, <1>7, <1>9
<1> QED
  BY <1>7, <1>9, <1>10, <1>11, <1>12, <1>18, <1>19, <1>20 DEF SplitOK, g, n, e

\* What kmalloc does to the heap: the block it found is taken, the others stay.
LEMMA TakenSound ==
    ASSUME NEW h, Chain(h), Apart(h, {}), NEW b \in Marked(h), h[b].free = TRUE,
           NEW want \in Nat \ {0}, h[b].size >= want
    PROVE  /\ Chain(Taken(h, b, want)) /\ Apart(Taken(h, b, want), {})
           /\ Busy(Taken(h, b, want)) = Busy(h) \cup {b}
           /\ Taken(h, b, want)[b].size >= want
           /\ \A x \in Busy(h) : Taken(h, b, want)[x].size = h[x].size
<1> DEFINE k == IF h[b].size - want >= 2 THEN Split(h, b, want) ELSE h
           g == Flag(k, b, FALSE)
           n == b + 1 + want
<1>1. Taken(h, b, want) = g
  BY DEF Taken, Flag
<1>2. h \in [Addrs -> Header] /\ Marked(h) \subseteq Addrs /\ b \in Addrs
  BY DEF Chain, Marked
<1>3. h[b].size \in Nat /\ b \in Nat
  BY <1>2, MarkedTypes
<1>4. \A x \in Marked(h) : h[x].free \in BOOLEAN
  BY <1>2, MarkedTypes
<1>5. CASE h[b].size - want >= 2
  <2>1. k = Split(h, b, want)
    BY <1>5
  <2>2. /\ Chain(k) /\ n \notin Marked(h) /\ Marked(k) = Marked(h) \cup {n}
        /\ k[b].size = want /\ k[n].free = TRUE /\ End(k, b) = n /\ End(k, n) = End(h, b)
        /\ \A x \in Marked(h) : /\ k[x].free = h[x].free
                                /\ x # b => k[x].size = h[x].size
                                /\ x # b => End(k, x) = End(h, x)
    <3> HIDE DEF k
    <3>1. SplitOK(h, b, want, Split(h, b, want), n)
      BY <1>5, SplitChain
    <3> QED
      BY <3>1, <2>1 DEF SplitOK
  <2> HIDE DEF k, n
  <2>3. /\ Chain(g) /\ Marked(g) = Marked(k) /\ g[b].free = FALSE
        /\ \A x \in Marked(k) : /\ End(g, x) = End(k, x) /\ g[x].size = k[x].size
                                /\ x # b => g[x].free = k[x].free
    <3>1. b \in Marked(k) /\ FALSE \in BOOLEAN
      BY <2>2
    <3>2. FlagOK(k, b, FALSE, g)
      BY <3>1, <2>2, FlagChain
    <3> HIDE DEF g
    <3> QED
      BY <3>2 DEF FlagOK
  <2> HIDE DEF g
  <2>4. Apart(g, {})
    <3> SUFFICES ASSUME NEW x \in Marked(g), End(g, x) < HeapUnits, g[x].free, g[End(g, x)].free
                 PROVE  FALSE
      BY DEF Apart
    <3>1. x # b
      BY <2>3
    <3>2. CASE x = n
      <4>1. End(g, x) = End(h, b)
        BY <3>2, <2>2, <2>3
      <4>2. End(h, b) \in Marked(h)
        BY <4>1 DEF Chain, Linked
      <4>3. ~h[End(h, b)].free
        BY <4>1 DEF Apart
      <4>4. End(h, b) # b
        BY <4>3
      <4> QED
        BY <4>1, <4>2, <4>3, <4>4, <2>2, <2>3
    <3>3. CASE x # n
      <4>1. x \in Marked(h) /\ End(g, x) = End(h, x) /\ h[x].free
        BY <3>1, <3>3, <2>2, <2>3
      <4>2. End(h, x) \in Marked(h)
        BY <4>1 DEF Chain, Linked
      <4>3. ~h[End(h, x)].free
        BY <4>1 DEF Apart
      <4>4. End(h, x) # b
        BY <4>3
      <4> QED
        BY <4>1, <4>2, <4>3, <4>4, <2>2, <2>3
    <3> QED
      BY <3>2, <3>3
  <2>5. Busy(g) = Busy(h) \cup {b}
    <3>1. n # b /\ g[n].free = TRUE
      BY <2>2, <2>3
    <3>2. \A x \in Marked(h) : x # b => g[x].free = h[x].free
      BY <2>2, <2>3
    <3>3. Marked(g) = Marked(h) \cup {n}
      BY <2>2, <2>3
    <3> QED
      BY <3>1, <3>2, <3>3, <2>3 DEF Busy
  <2>6. g[b].size >= want
    BY <2>2, <2>3
  <2>7. \A x \in Busy(h) : g[x].size = h[x].size
    BY <2>2, <2>3 DEF Busy
  <2> QED
    BY <2>3, <2>4, <2>5, <2>6, <2>7, <1>1
<1>6. CASE ~(h[b].size - want >= 2)
  <2>1. k = h
    BY <1>6
  <2> HIDE DEF k
  <2>2. /\ Chain(g) /\ Marked(g) = Marked(h) /\ g[b].free = FALSE
        /\ \A x \in Marked(h) : /\ End(g, x) = End(h, x) /\ g[x].size = h[x].size
                                /\ x # b => g[x].free = h[x].free
    <3>1. b \in Marked(k) /\ FALSE \in BOOLEAN /\ Chain(k)
      BY <2>1
    <3>2. FlagOK(k, b, FALSE, g)
      BY <3>1, FlagChain
    <3> HIDE DEF g
    <3> QED
      BY <3>2, <2>1 DEF FlagOK
  <2> HIDE DEF g
  <2>3. Apart(g, {})
    <3> SUFFICES ASSUME NEW x \in Marked(g), End(g, x) < HeapUnits, g[x].free, g[End(g, x)].free
                 PROVE  FALSE
      BY DEF Apart
    <3>1. x \in Marked(h) /\ x # b /\ End(g, x) = End(h, x) /\ h[x].free
      BY <2>2
    <3>2. End(h, x) \in Marked(h) /\ ~h[End(h, x)].free
      BY <3>1 DEF Chain, Linked, Apart
    <3> QED
      BY <3>1, <3>2, <2>2
  <2>4. Busy(g) = Busy(h) \cup {b}
    BY <2>2 DEF Busy
  <2>5. \A x \in Busy(h) : g[x].size = h[x].size
    BY <2>2 DEF Busy
  <2> QED
    BY <2>2, <2>3, <2>4, <2>5, <1>1
<1> QED
  BY <1>5, <1>6

LEMMA MergedFields ==
    ASSUME NEW h \in [Addrs -> Header], NEW b \in Addrs, NEW n \in Addrs, n = h[b].next, n # b,
           h[n].next # b, h[n].next # n
    PROVE  /\ Merged(h, b) \in [Addrs -> Header]
           /\ Merged(h, b)[n].size = 0
           /\ Merged(h, b)[b].size = h[b].size + 1 + h[n].size
           /\ Merged(h, b)[b].next = h[n].next
           /\ Merged(h, b)[b].free = h[b].free /\ Merged(h, b)[b].prev = h[b].prev
           /\ \A x \in Addrs \ {b, n} :
                 /\ Merged(h, b)[x].size = h[x].size
                 /\ Merged(h, b)[x].free = h[x].free
                 /\ Merged(h, b)[x].next = h[x].next
                 /\ Merged(h, b)[x].prev = IF x = h[n].next THEN b ELSE h[x].prev
<1> DEFINE w == h[n].next
           k == SetPrev(h, w, b)
           old == [h[b] EXCEPT !.size = h[b].size + 1 + h[n].size, !.next = w]
           g == Merged(h, b)
<1>1. /\ h[b].size \in Nat /\ h[n].size \in Nat /\ h[b] \in Header /\ w \in Addrs \cup {NULL}
      /\ NULL \notin Addrs
  BY MarkedTypes
<1>2. NoHdr \in Header /\ NoHdr.size = 0
  BY DEF NoHdr, Header
<1> HIDE DEF w
<1>3. h[b].size + 1 + h[n].size \in Nat
  BY <1>1
<1>4. /\ old \in Header /\ old.size = h[b].size + 1 + h[n].size /\ old.next = w
      /\ old.free = h[b].free /\ old.prev = h[b].prev
  <2> DEFINE z == h[b].size + 1 + h[n].size
  <2>1. z \in Nat
    BY <1>3
  <2> HIDE DEF z
  <2>2. old = [h[b] EXCEPT !.size = z, !.next = w]
    BY DEF z
  <2>3. /\ [h[b] EXCEPT !.size = z, !.next = w] \in Header
        /\ [h[b] EXCEPT !.size = z, !.next = w].size = z
        /\ [h[b] EXCEPT !.size = z, !.next = w].next = w
        /\ [h[b] EXCEPT !.size = z, !.next = w].free = h[b].free
        /\ [h[b] EXCEPT !.size = z, !.next = w].prev = h[b].prev
    BY <2>1, <1>1 DEF Header
  <2> HIDE DEF old
  <2> QED
    BY <2>2, <2>3 DEF z
<1>5. /\ k \in [Addrs -> Header] /\ k[b] = h[b]
      /\ \A x \in Addrs : /\ k[x].size = h[x].size /\ k[x].free = h[x].free
                          /\ k[x].next = h[x].next
                          /\ k[x].prev = IF x = w THEN b ELSE h[x].prev
  <2>1. CASE w = NULL
    <3>1. k = h
      BY <2>1 DEF SetPrev
    <3> HIDE DEF k
    <3> QED
      BY <2>1, <3>1, <1>1
  <2>2. CASE w \in Addrs
    <3> DEFINE r == [h[w] EXCEPT !.prev = b]
    <3>1. k = [h EXCEPT ![w] = r]
      BY <2>2, <1>1 DEF SetPrev
    <3>2. h[w] \in Header
      BY <2>2
    <3>3. r \in Header /\ r.size = h[w].size /\ r.free = h[w].free /\ r.next = h[w].next
          /\ r.prev = b
      BY <3>2 DEF Header
    <3>4. w # b
      BY DEF w
    <3> HIDE DEF k, r
    <3>5. k \in [Addrs -> Header] /\ k[w] = r /\ \A x \in Addrs : x # w => k[x] = h[x]
      BY <2>2, <3>1, <3>3
    <3>6. ASSUME NEW x \in Addrs
          PROVE  /\ k[x].size = h[x].size /\ k[x].free = h[x].free /\ k[x].next = h[x].next
                 /\ k[x].prev = IF x = w THEN b ELSE h[x].prev
      BY <3>3, <3>5
    <3> QED
      BY <3>4, <3>5, <3>6
  <2> QED
    BY <2>1, <2>2, <1>1
<1>6. g = [k EXCEPT ![b] = old, ![n] = NoHdr]
  <2>1. g = [k EXCEPT ![b].size = @ + 1 + h[n].size, ![b].next = w, ![n] = NoHdr]
    BY DEF Merged, w
  <2>2. [k[b] EXCEPT !.size = @ + 1 + h[n].size, !.next = w] = old
    BY <1>5
  <2> HIDE DEF k, old, g
  <2> QED
    BY <2>1, <2>2, <1>5
<1> HIDE DEF k, old, g
<1>7. g \in [Addrs -> Header] /\ g[b] = old /\ g[n] = NoHdr
      /\ \A x \in Addrs \ {b, n} : g[x] = k[x]
  BY <1>2, <1>4, <1>5, <1>6
<1> QED
  BY <1>2, <1>4, <1>5, <1>7 DEF g, w

\* In g the block b has swallowed n.
MergeOK(h, b, n, g) ==
    /\ Chain(g) /\ Marked(g) = Marked(h) \ {n}
    /\ End(g, b) = End(h, n) /\ g[b].free = h[b].free /\ g[b].prev = h[b].prev
    /\ \A x \in Marked(h) \ {b, n} :
          g[x].size = h[x].size /\ g[x].free = h[x].free /\ End(g, x) = End(h, x)

LEMMA MergedChain ==
    ASSUME NEW h, Chain(h), NEW b \in Marked(h), NEW n \in Marked(h), n = h[b].next
    PROVE  MergeOK(h, b, n, Merged(h, b))
<1> DEFINE w == h[n].next
           e == End(h, n)
           g == Merged(h, b)
<1>1. h \in [Addrs -> Header] /\ b \in Addrs /\ n \in Addrs /\ Marked(h) \subseteq Addrs
      /\ 0 \in Marked(h)
  BY DEF Chain, Marked
<1>2. /\ h[b].size \in Nat /\ h[n].size \in Nat /\ b \in Nat /\ n \in Nat /\ HeapUnits \in Nat
      /\ NULL \notin Addrs /\ e \in Nat /\ e = n + 1 + h[n].size
  BY <1>1, MarkedTypes DEF End
<1>3. \A x \in Marked(h) : Linked(h, x) /\ x \in Nat /\ x < HeapUnits
                           /\ End(h, x) \in Nat /\ End(h, x) > x
  BY <1>1, MarkedTypes DEF Chain
<1>4. \A x, y \in Marked(h) : x < y => End(h, x) <= y
  BY DEF Chain
<1>5. Linked(h, b) /\ Linked(h, n)
  BY <1>3
<1>6. n = End(h, b) /\ h[n].prev = b /\ b < n /\ n < e
  <2>1. n # NULL
    BY <1>1, <1>2
  <2>2. n = End(h, b) /\ n < HeapUnits
    BY <2>1, <1>3, <1>5 DEF Linked
  <2> QED
    BY <2>2, <1>3, <1>5 DEF Linked
<1>7. e <= HeapUnits /\ w = IF e = HeapUnits THEN NULL ELSE e
  BY <1>5 DEF Linked
<1>8. w # b /\ w # n /\ n # b
  <2>1. NULL # b /\ NULL # n
    BY <1>1, <1>2
  <2> QED
    BY <2>1, <1>2, <1>6, <1>7
<1>9. /\ g \in [Addrs -> Header] /\ g[n].size = 0
      /\ g[b].size = h[b].size + 1 + h[n].size /\ g[b].next = w
      /\ g[b].free = h[b].free /\ g[b].prev = h[b].prev
      /\ \A x \in Addrs \ {b, n} :
            /\ g[x].size = h[x].size /\ g[x].free = h[x].free /\ g[x].next = h[x].next
            /\ g[x].prev = IF x = w THEN b ELSE h[x].prev
  BY <1>1, <1>8, MergedFields
<1> HIDE DEF g, w, e
<1>10. End(g, b) = e /\ \A x \in Addrs \ {b, n} : End(g, x) = End(h, x)
  BY <1>2, <1>6, <1>9 DEF End
<1>11. Marked(g) = Marked(h) \ {n}
  <2>1. \A x \in Addrs : g[x].size >= 1 <=> x # n /\ h[x].size >= 1
    <3>1. h[b].size >= 1 /\ g[b].size >= 1 /\ ~(g[n].size >= 1)
      BY <1>2, <1>9 DEF Marked
    <3> QED
      BY <3>1, <1>8, <1>9
  <2> QED
    BY <2>1 DEF Marked
<1>12. Linked(g, b)
  <2>1. ASSUME e < HeapUnits PROVE e \in Marked(g) /\ g[e].prev = b
    <3>1. e \in Marked(h) /\ w = e
      BY <2>1, <1>5, <1>7, <1>2 DEF Linked, e
    <3>2. e # b /\ e # n
      BY <1>6, <1>2
    <3> QED
      BY <3>1, <3>2, <1>1, <1>9, <1>11
  <2>2. ASSUME b # 0 PROVE g[b].prev \in Marked(g) /\ End(g, g[b].prev) = b
    <3>1. h[b].prev \in Marked(h) /\ End(h, h[b].prev) = b
      BY <2>2, <1>5 DEF Linked
    <3>2. h[b].prev # b /\ h[b].prev # n
      BY <3>1, <1>2, <1>3, <1>6
    <3> QED
      BY <3>1, <3>2, <1>1, <1>9, <1>10, <1>11
  <2>3. b = 0 => g[b].prev = NULL
    BY <1>5, <1>9 DEF Linked
  <2> QED
    BY <2>1, <2>2, <2>3, <1>7, <1>9, <1>10 DEF Linked
<1>13. ASSUME NEW x \in Marked(h), x # b, x # n PROVE Linked(g, x)
  <2>1. x \in Addrs \ {b, n} /\ Linked(h, x) /\ x \in Nat /\ x < HeapUnits
    BY <1>1, <1>3, <1>13
  <2>2. End(g, x) = End(h, x) /\ g[x].next = h[x].next
    BY <2>1, <1>9, <1>10
  <2>3. ASSUME End(h, x) < HeapUnits PROVE End(h, x) \in Marked(g) /\ g[End(h, x)].prev = x
    <3> DEFINE y == End(h, x)
    <3>1. y \in Marked(h) /\ h[y].prev = x /\ y \in Addrs
      BY <2>1, <2>3, <1>1 DEF Linked
    <3>2. y # n
      BY <3>1, <1>6, <1>13
    <3>3. y # w
      <4> SUFFICES ASSUME y = w PROVE FALSE
        OBVIOUS
      <4>1. w = e /\ e < HeapUnits
        BY <3>1, <1>2, <1>7
      <4>2. h[e].prev = n
        BY <4>1, <1>5 DEF Linked, e
      <4> QED
        BY <4>1, <4>2, <3>1, <1>13
    <3> HIDE DEF y
    <3>4. g[y].prev = h[y].prev
      BY <3>1, <3>2, <3>3, <1>9
    <3> QED
      BY <3>1, <3>2, <3>4, <1>11 DEF y
  <2>4. x = 0 => g[x].prev = NULL
    <3> SUFFICES ASSUME x = 0 PROVE g[x].prev = NULL
      OBVIOUS
    <3>1. h[x].prev = NULL
      BY <2>1 DEF Linked
    <3>2. x # w
      <4>1. NULL # 0 /\ e # 0
        BY <1>2, <1>6 DEF NULL
      <4> QED
        BY <4>1, <1>7
    <3> QED
      BY <3>1, <3>2, <2>1, <1>9
  <2>5. ASSUME x # 0 PROVE g[x].prev \in Marked(g) /\ End(g, g[x].prev) = x
    <3>1. CASE x = w
      <4>1. x = e
        BY <3>1, <2>1, <1>2, <1>7
      <4> QED
        BY <3>1, <4>1, <2>1, <1>8, <1>9, <1>10, <1>11
    <3>2. CASE x # w
      <4>1. g[x].prev = h[x].prev
        BY <3>2, <2>1, <1>9
      <4>2. h[x].prev \in Marked(h) /\ End(h, h[x].prev) = x
        BY <2>1, <2>5 DEF Linked
      <4>3. x # e
        BY <3>2, <2>1, <1>2, <1>7
      <4>4. h[x].prev # n
        BY <4>2, <4>3 DEF e
      <4>5. h[x].prev # b
        BY <4>2, <1>6, <1>13
      <4> QED
        BY <4>1, <4>2, <4>4, <4>5, <1>1, <1>10, <1>11
    <3> QED
      BY <3>1, <3>2
  <2> QED
    BY <2>1, <2>2, <2>3, <2>4, <2>5 DEF Linked
<1>14. ASSUME NEW x \in Marked(g), NEW y \in Marked(g), x < y PROVE End(g, x) <= y
  <2>1. x \in Marked(h) /\ y \in Marked(h) /\ x # n /\ y # n
    BY <1>11
  <2>2. CASE x = b
    <3>1. n < y
      BY <2>1, <2>2, <1>14, <1>4, <1>6, <1>3, <1>2
    <3> QED
      BY <3>1, <2>1, <2>2, <1>4, <1>10 DEF e
  <2>3. CASE x # b
    BY <2>1, <2>3, <1>1, <1>4, <1>10, <1>14
  <2> QED
    BY <2>2, <2>3
<1>15. Chain(g)
  <2>1. ASSUME NEW x \in Marked(g) PROVE Linked(g, x)
    BY <1>11, <1>12, <1>13
  <2>2. 0 \in Marked(g)
    BY <1>1, <1>2, <1>6, <1>11
  <2> QED
    BY <2>1, <2>2, <1>9, <1>14 DEF Chain
<1> QED
  BY <1>1, <1>9, <1>10, <1>11, <1>15 DEF MergeOK, g, e

\* Swallowing the block n after b, when both are free: what was apart stays apart,
\* and b, which may have been beside n in X, is apart now.
BothFree(h, b, n, X) ==
    /\ b \in Marked(h) /\ n \in Marked(h) /\ n = h[b].next /\ n \notin X
    /\ h[b].free = TRUE /\ h[n].free = TRUE

Joined(h, b, n, X, g) ==
    /\ MergeOK(h, b, n, g) /\ Apart(g, X \ {b}) /\ Busy(g) = Busy(h)
    /\ \A x \in Busy(h) : g[x].size = h[x].size

LEMMA MergeFree ==
    ASSUME NEW h, NEW b, NEW n, NEW X, Chain(h), Apart(h, X), BothFree(h, b, n, X)
    PROVE  Joined(h, b, n, X, Merged(h, b))
<1> USE DEF BothFree
<1> DEFINE g == Merged(h, b)
<1>1. MergeOK(h, b, n, g)
  BY MergedChain
<1> HIDE DEF g
<1>2. \A x \in Marked(h) : Linked(h, x)
  BY DEF Chain
<1>3. \A x \in Marked(h) : /\ x \in Nat /\ x < HeapUnits /\ End(h, x) \in Nat /\ End(h, x) > x
                           /\ x # NULL /\ x \in Addrs /\ h[x].free \in BOOLEAN
  <2>1. h \in [Addrs -> Header] /\ Marked(h) \subseteq Addrs
    BY DEF Chain, Marked
  <2> QED
    BY <2>1, MarkedTypes
<1>4. n = End(h, b) /\ b < n /\ h[n].prev = b
  <2>1. n = End(h, b) /\ n < HeapUnits
    BY <1>2, <1>3 DEF Linked
  <2> QED
    BY <2>1, <1>2, <1>3 DEF Linked
<1>5. Apart(g, X \ {b})
  <2> SUFFICES ASSUME NEW x \in Marked(g) \ (X \ {b}), End(g, x) < HeapUnits,
                      g[x].free, g[End(g, x)].free
               PROVE  FALSE
    BY DEF Apart
  <2>1. x \in Marked(h) /\ x # n
    BY <1>1 DEF MergeOK
  <2>2. CASE x = b
    <3> DEFINE f == End(h, n)
    <3>1. End(g, x) = f /\ f < HeapUnits
      BY <2>2, <1>1 DEF MergeOK
    <3>2. f \in Marked(h) /\ ~h[f].free
      BY <3>1, <1>2 DEF Linked, Apart
    <3>3. f # b /\ f # n
      BY <3>2, <1>3, <1>4
    <3>4. g[f].free = h[f].free
      BY <3>2, <3>3, <1>1 DEF MergeOK
    <3> QED
      BY <3>1, <3>2, <3>4
  <2>3. CASE x # b
    <3> DEFINE y == End(h, x)
    <3>1. End(g, x) = y /\ g[x].free = h[x].free /\ x \notin X
      BY <2>1, <2>3, <1>1 DEF MergeOK
    <3>2. y \in Marked(h) /\ h[y].prev = x /\ ~h[y].free
      BY <2>1, <3>1, <1>2 DEF Linked, Apart
    <3>3. y # n
      BY <3>2, <1>4, <2>3
    <3>4. g[y].free = h[y].free
      BY <3>2, <3>3, <1>1 DEF MergeOK
    <3> QED
      BY <3>1, <3>2, <3>4
  <2> QED
    BY <2>2, <2>3
<1>6. Busy(g) = Busy(h)
  BY <1>1 DEF MergeOK, Busy
<1>7. \A x \in Busy(h) : g[x].size = h[x].size
  BY <1>1 DEF MergeOK, Busy
<1> QED
  BY <1>1, <1>5, <1>6, <1>7 DEF g, Joined

\* What kfree does to the heap: the block is free, and has joined its neighbours.
LEMMA FreedSound ==
    ASSUME NEW h, Chain(h), Apart(h, {}), NEW b \in Busy(h)
    PROVE  /\ Chain(Freed(h, b)) /\ Apart(Freed(h, b), {})
           /\ Busy(Freed(h, b)) = Busy(h) \ {b}
           /\ \A x \in Busy(h) \ {b} : Freed(h, b)[x].size = h[x].size
<1> DEFINE h1 == Flag(h, b, TRUE)
           h2 == IF IsFree(h1, h1[b].next) THEN Merged(h1, b) ELSE h1
           h3 == IF IsFree(h2, h2[b].prev) THEN Merged(h2, h2[b].prev) ELSE h2
           p == h[b].prev
           n == h[b].next
<1>0. Freed(h, b) = h3
  BY DEF Freed, Flag
<1>1. h \in [Addrs -> Header] /\ Marked(h) \subseteq Addrs /\ b \in Marked(h) /\ ~h[b].free
  BY DEF Chain, Marked, Busy
<1>2. FlagOK(h, b, TRUE, h1)
  BY <1>1, FlagChain
<1> HIDE DEF h1
<1>3. /\ Chain(h1) /\ Marked(h1) = Marked(h) /\ h1[b].free = TRUE
      /\ h1[b].prev = p /\ h1[b].next = n
      /\ \A x \in Marked(h) : /\ End(h1, x) = End(h, x) /\ h1[x].size = h[x].size
                              /\ x # b => h1[x].free = h[x].free
  BY <1>1, <1>2 DEF FlagOK
<1>4. \A x \in Marked(h) : Linked(h, x) /\ Linked(h1, x)
  BY <1>3 DEF Chain
<1>5. \A x \in Marked(h) : /\ x \in Nat /\ x < HeapUnits /\ End(h, x) \in Nat /\ End(h, x) > x
                           /\ x # NULL /\ h[x].free \in BOOLEAN /\ HeapUnits \in Nat
  BY <1>1, MarkedTypes
<1>6. n # NULL => n \in Marked(h) /\ n = End(h, b) /\ n > b /\ n < HeapUnits
  <2> SUFFICES ASSUME n # NULL PROVE n \in Marked(h) /\ n = End(h, b) /\ n > b /\ n < HeapUnits
    OBVIOUS
  <2>1. End(h, b) <= HeapUnits /\ n = End(h, b) /\ End(h, b) # HeapUnits
    BY <1>1, <1>4 DEF Linked
  <2> QED
    BY <2>1, <1>1, <1>4, <1>5 DEF Linked
<1>7. p # NULL => p \in Marked(h) /\ End(h, p) = b /\ p < b
  <2> SUFFICES ASSUME p # NULL PROVE p \in Marked(h) /\ End(h, p) = b /\ p < b
    OBVIOUS
  <2>1. p \in Marked(h) /\ End(h, p) = b
    BY <1>1, <1>4 DEF Linked
  <2> QED
    BY <2>1, <1>5
<1>8. NULL \notin Marked(h)
  BY <1>5
<1> HIDE DEF p, n
<1>9. Apart(h1, {b, p})
  <2> SUFFICES ASSUME NEW x \in Marked(h1) \ {b, p}, End(h1, x) < HeapUnits,
                      h1[x].free, h1[End(h1, x)].free
               PROVE  FALSE
    BY DEF Apart
  <2>1. x \in Marked(h) /\ End(h1, x) = End(h, x) /\ h[x].free
    BY <1>3
  <2>2. End(h, x) \in Marked(h) /\ h[End(h, x)].prev = x
    BY <2>1, <1>4 DEF Linked
  <2>3. End(h, x) # b
    BY <2>2 DEF p
  <2>4. h[End(h, x)].free
    BY <2>1, <2>2, <2>3, <1>3
  <2> QED
    BY <2>1, <2>4 DEF Apart
<1>10. Busy(h1) = Busy(h) \ {b} /\ \A x \in Busy(h1) : h1[x].size = h[x].size
  BY <1>1, <1>3 DEF Busy
\* The block after b.
<1>11. /\ Chain(h2) /\ Apart(h2, {p}) /\ b \in Marked(h2) /\ h2[b].free = TRUE
       /\ h2[b].prev = p /\ Busy(h2) = Busy(h1)
       /\ \A x \in Busy(h1) : h2[x].size = h1[x].size
  <2>1. CASE IsFree(h1, n)
    <3>1. h2 = Merged(h1, b)
      BY <2>1, <1>3
    <3> HIDE DEF h2
    <3>2. n \in Marked(h1) /\ b \in Marked(h1) /\ h1[n].free = TRUE /\ n = h1[b].next
      <4>1. n \in Marked(h) /\ h1[n].free /\ n # b
        BY <2>1, <1>1, <1>5, <1>6 DEF IsFree
      <4>2. h1[n].free \in BOOLEAN
        BY <4>1, <1>3, <1>5
      <4> QED
        BY <4>1, <4>2, <1>1, <1>3
    <3>3. n \notin {b, p}
      BY <3>2, <1>1, <1>3, <1>5, <1>6, <1>7
    <3> DEFINE X == {b, p}
               Y == X \ {b}
    <3>4. /\ MergeOK(h1, b, n, h2) /\ Apart(h2, Y) /\ Busy(h2) = Busy(h1)
          /\ \A x \in Busy(h1) : h2[x].size = h1[x].size
      <4>1. n \notin X /\ Apart(h1, X)
        BY <3>3, <1>9
      <4> HIDE DEF X
      <4>2. BothFree(h1, b, n, X)
        BY <4>1, <3>2, <1>3 DEF BothFree
      <4>3. Joined(h1, b, n, X, h2)
        BY <4>1, <4>2, <3>1, <1>3, MergeFree
      <4> QED
        BY <4>3 DEF Joined
    <3>5. Apart(h2, {p})
      BY <3>4 DEF Apart
    <3> QED
      BY <3>2, <3>3, <3>4, <3>5, <1>3 DEF MergeOK
  <2>2. CASE ~IsFree(h1, n)
    <3>1. h2 = h1
      BY <2>2, <1>3
    <3> HIDE DEF h2
    <3>2. Apart(h1, {p})
      <4> SUFFICES ASSUME End(h1, b) < HeapUnits PROVE ~h1[End(h1, b)].free
        BY <1>9 DEF Apart
      <4>1. n = End(h, b)
        BY <1>1, <1>3, <1>4, <1>5 DEF Linked, n
      <4>2. n # NULL
        BY <4>1, <1>1, <1>5 DEF NULL
      <4> QED
        BY <4>1, <4>2, <2>2, <1>1, <1>3 DEF IsFree
    <3> QED
      BY <3>1, <3>2, <1>1, <1>3
  <2> QED
    BY <2>1, <2>2
<1> HIDE DEF h2
\* The block before b.
<1>12. /\ Chain(h3) /\ Apart(h3, {}) /\ Busy(h3) = Busy(h2)
       /\ \A x \in Busy(h2) : h3[x].size = h2[x].size
  <2>1. \A x \in Marked(h2) : Linked(h2, x) /\ h2[x].free \in BOOLEAN /\ x \in Nat
                              /\ x < HeapUnits /\ x # NULL /\ HeapUnits \in Nat
    <3>1. h2 \in [Addrs -> Header] /\ Marked(h2) \subseteq Addrs
      BY <1>11 DEF Chain, Marked
    <3> QED
      BY <3>1, <1>11, MarkedTypes DEF Chain
  <2>2. CASE IsFree(h2, p)
    <3>1. h3 = Merged(h2, p)
      BY <2>2, <1>11
    <3> HIDE DEF h3
    <3>2. p \in Marked(h2) /\ End(h2, p) = b
      BY <2>1, <2>2, <1>11 DEF Linked, IsFree
    <3>3. h2[p].free = TRUE /\ b = h2[p].next
      BY <2>1, <2>2, <3>2, <1>11 DEF Linked, IsFree
    <3>4. b \notin {p}
      BY <1>1, <1>5, <1>7, <2>2 DEF IsFree
    <3> DEFINE X == {p}
               Y == X \ {p}
    <3>5. /\ MergeOK(h2, p, b, h3) /\ Apart(h3, Y) /\ Busy(h3) = Busy(h2)
          /\ \A x \in Busy(h2) : h3[x].size = h2[x].size
      <4>1. b \notin X /\ Apart(h2, X)
        BY <3>4, <1>11
      <4> HIDE DEF X
      <4>2. BothFree(h2, p, b, X)
        BY <4>1, <3>2, <3>3, <1>11 DEF BothFree
      <4>3. Joined(h2, p, b, X, h3)
        BY <4>1, <4>2, <3>1, <1>11, MergeFree
      <4> QED
        BY <4>3 DEF Joined
    <3>6. Apart(h3, {})
      BY <3>5 DEF Apart
    <3> QED
      BY <3>5, <3>6 DEF MergeOK
  <2>3. CASE ~IsFree(h2, p)
    <3>1. h3 = h2
      BY <2>3, <1>11
    <3> HIDE DEF h3
    <3>2. Apart(h2, {})
      BY <2>1, <2>3, <1>11 DEF Apart, IsFree
    <3> QED
      BY <3>1, <3>2, <1>11
  <2> QED
    BY <2>2, <2>3
<1> HIDE DEF h3
<1> QED
  BY <1>0, <1>10, <1>11, <1>12

\* The walk from g_head meets every block: block b within its first b steps.
LEMMA BlocksAre ==
    ASSUME NEW h, Chain(h)
    PROVE  Blocks(h) = Marked(h)
<1>1. h \in [Addrs -> Header] /\ Marked(h) \subseteq Addrs /\ 0 \in Marked(h)
  BY DEF Chain, Marked
<1>2. \A x \in Marked(h) : /\ Linked(h, x) /\ x \in Nat /\ x < HeapUnits /\ x # NULL
                           /\ End(h, x) \in Nat /\ End(h, x) > x /\ HeapUnits \in Nat
  BY <1>1, MarkedTypes DEF Chain
<1>3. PICK f \in [Nat -> Addrs \cup {NULL}] :
          /\ f[0] = 0 /\ \A i \in Nat : f[i + 1] = After(h, f[i])
          /\ Blocks(h) = {f[i] : i \in 0 .. HeapUnits} \ {NULL}
  BY <1>1, Walk
<1>4. ASSUME NEW i \in Nat PROVE f[i] \in Marked(h) \cup {NULL}
  <2> SUFFICES ASSUME f[i] \notin Marked(h) \cup {NULL} PROVE FALSE
    OBVIOUS
  <2> DEFINE Bad == {j \in Nat : f[j] \notin Marked(h) \cup {NULL}}
  <2>1. PICK k \in Bad : \A l \in Bad : k <= l
    <3>1. Bad \in SUBSET Nat /\ Bad # {}
      OBVIOUS
    <3> QED
      BY <3>1, LeastExists
  <2>2. k # 0
    BY <2>1, <1>1, <1>3
  <2>3. k - 1 \in Nat /\ k - 1 \notin Bad /\ (k - 1) + 1 = k
    BY <2>1, <2>2
  <2>4. f[k - 1] \in Marked(h) \cup {NULL} /\ f[k] = After(h, f[k - 1])
    BY <2>3, <1>3
  <2>5. f[k] \in Marked(h) \cup {NULL}
    <3>1. CASE f[k - 1] \in Marked(h)
      <4> DEFINE x == f[k - 1]
      <4>1. f[k] = h[x].next
        BY <3>1, <2>4, <1>1 DEF After
      <4>2. h[x].next \in Marked(h) \cup {NULL}
        BY <3>1, <1>2 DEF Linked
      <4> QED
        BY <4>1, <4>2
    <3>2. CASE f[k - 1] = NULL
      <4>1. NULL \notin Addrs
        BY <1>1, MarkedTypes
      <4> QED
        BY <3>2, <4>1, <2>4 DEF After
    <3> QED
      BY <3>1, <3>2, <2>4
  <2> QED
    BY <2>1, <2>5
<1>5. ASSUME NEW b \in Marked(h) PROVE \E i \in Nat : i <= b /\ f[i] = b
  <2> SUFFICES ASSUME \A i \in Nat : i <= b => f[i] # b PROVE FALSE
    OBVIOUS
  <2> DEFINE Bad == {c \in Marked(h) : \A i \in Nat : i <= c => f[i] # c}
  <2>1. PICK c \in Bad : \A d \in Bad : c <= d
    <3>1. Bad \in SUBSET Nat /\ Bad # {}
      BY <1>2
    <3> QED
      BY <3>1, LeastExists
  <2>2. c # 0
    BY <2>1, <1>2, <1>3
  <2> DEFINE p == h[c].prev
  <2>3. p \in Marked(h) /\ End(h, p) = c /\ p < c
    <3>1. p \in Marked(h) /\ End(h, p) = c
      BY <2>1, <2>2, <1>2 DEF Linked
    <3> QED
      BY <3>1, <1>2
  <2> HIDE DEF p
  <2>4. p \notin Bad
    BY <2>1, <2>3, <1>2
  <2>5. PICK i \in Nat : i <= p /\ f[i] = p
    BY <2>3, <2>4
  <2>6. f[i + 1] = h[p].next
    BY <2>3, <2>5, <1>1, <1>3 DEF After
  <2>7. h[p].next = c
    BY <2>1, <2>3, <1>2 DEF Linked
  <2>8. i + 1 \in Nat /\ i + 1 <= c
    BY <2>1, <2>3, <2>5, <1>2
  <2> QED
    BY <2>1, <2>6, <2>7, <2>8
<1>6. Blocks(h) \subseteq Marked(h)
  BY <1>3, <1>4
<1>7. Marked(h) \subseteq Blocks(h)
  <2> SUFFICES ASSUME NEW b \in Marked(h) PROVE b \in Blocks(h)
    OBVIOUS
  <2>1. PICK i \in Nat : i <= b /\ f[i] = b
    BY <1>5
  <2>2. i \in 0 .. HeapUnits /\ b # NULL
    BY <2>1, <1>2
  <2> QED
    BY <2>1, <2>2, <1>3
<1> QED
  BY <1>6, <1>7

LEMMA FirstFitIs ==
    ASSUME NEW h, Chain(h), NEW want, NEW b \in FirstFit(h, want)
    PROVE  b \in Marked(h) /\ h[b].free = TRUE /\ h[b].size >= want
<1>1. b \in Marked(h) /\ h[b].free /\ h[b].size >= want
  BY BlocksAre DEF FirstFit
<1>2. h[b].free \in BOOLEAN
  BY <1>1, MarkedTypes DEF Chain, Marked
<1> QED
  BY <1>1, <1>2

LEMMA TiledIs ==
    ASSUME NEW h, Chain(h), Apart(h, {})
    PROVE  Tiled(h) /\ {b \in Blocks(h) : ~h[b].free} = Busy(h)
<1>1. Blocks(h) = Marked(h)
  BY BlocksAre
<1>2. ASSUME NEW b \in Marked(h)
      PROVE  /\ h[b].size >= 1
             /\ h[b].next = IF b + 1 + h[b].size = HeapUnits THEN NULL ELSE b + 1 + h[b].size
             /\ b + 1 + h[b].size < HeapUnits =>
                   /\ h[b + 1 + h[b].size].prev = b
                   /\ ~(h[b].free /\ h[b + 1 + h[b].size].free)
  <2>1. Linked(h, b) /\ h[b].size >= 1
    BY DEF Chain, Marked
  <2>2. End(h, b) = b + 1 + h[b].size
    BY DEF End
  <2>3. End(h, b) < HeapUnits => ~(h[b].free /\ h[End(h, b)].free)
    BY DEF Apart
  <2> QED
    BY <2>1, <2>2, <2>3 DEF Linked
<1> QED
  BY <1>1, <1>2 DEF Tiled, Busy

LEMMA OneBlockSound ==
    /\ Chain(OneBlock) /\ Apart(OneBlock, {}) /\ Busy(OneBlock) = {}
    /\ 0 \in Marked(OneBlock) /\ OneBlock[0].free = TRUE /\ OneBlock[0].size = HeapUnits - 1
<1> DEFINE h == OneBlock
           r == [size |-> HeapUnits - 1, free |-> TRUE, prev |-> NULL, next |-> NULL]
<1>1. 0 \in Addrs /\ HeapUnits \in Nat /\ HeapUnits >= 2
  BY HeapAssumption DEF Addrs
<1>2. r \in Header /\ NoHdr \in Header /\ NoHdr.size = 0
  BY <1>1 DEF Header, NoHdr
<1>3. h \in [Addrs -> Header] /\ h[0] = r /\ \A a \in Addrs : a # 0 => h[a].size = 0
  BY <1>1, <1>2 DEF OneBlock
<1>4. h[0].size = HeapUnits - 1 /\ h[0].free = TRUE /\ h[0].prev = NULL /\ h[0].next = NULL
  BY <1>3
<1> HIDE DEF h, r
<1>5. Marked(h) = {0}
  BY <1>1, <1>3, <1>4 DEF Marked
<1>6. End(h, 0) = HeapUnits
  BY <1>1, <1>4 DEF End
<1>7. Linked(h, 0)
  BY <1>1, <1>4, <1>6 DEF Linked
<1>8. Chain(h) /\ Apart(h, {})
  BY <1>1, <1>3, <1>5, <1>6, <1>7 DEF Chain, Apart
<1> QED
  BY <1>4, <1>5, <1>8 DEF Busy, h

-----------------------------------------------------------------------------
(* kmalloc and kfree, from the side of what is allocated                   *)

\* A block has been taken: for nothing yet.
TakeOK(h, b, want, g) ==
    /\ Chain(g) /\ Apart(g, {}) /\ Busy(g) = Busy(h) \cup {b} /\ b \notin Busy(h)
    /\ b \in Addrs /\ g[b].size >= want
    /\ \A x \in Busy(h) : g[x].size = h[x].size

LEMMA TakeFirst ==
    ASSUME NEW h, Chain(h), Apart(h, {}), NEW want \in Nat \ {0}, NEW b \in FirstFit(h, want)
    PROVE  TakeOK(h, b, want, Taken(h, b, want))
<1>1. b \in Marked(h) /\ h[b].free = TRUE /\ h[b].size >= want
  BY FirstFitIs
<1>2. b \notin Busy(h) /\ b \in Addrs
  BY <1>1 DEF Busy, Marked
<1>3. /\ Chain(Taken(h, b, want)) /\ Apart(Taken(h, b, want), {})
      /\ Busy(Taken(h, b, want)) = Busy(h) \cup {b}
      /\ Taken(h, b, want)[b].size >= want
      /\ \A x \in Busy(h) : Taken(h, b, want)[x].size = h[x].size
  BY <1>1, TakenSound
<1> QED
  BY <1>2, <1>3 DEF TakeOK

FreeOK(h, b, g) ==
    /\ Chain(g) /\ Apart(g, {}) /\ Busy(g) = Busy(h) \ {b}
    /\ \A x \in Busy(h) \ {b} : g[x].size = h[x].size

LEMMA FreeBusy ==
    ASSUME NEW h, Chain(h), Apart(h, {}), NEW b \in Busy(h)
    PROVE  FreeOK(h, b, Freed(h, b))
BY FreedSound DEF FreeOK

\* kfree of several blocks: the loop that frees the blocks of S in turn.
FreeAllOK(h, S, g) ==
    /\ Chain(g) /\ Apart(g, {}) /\ Busy(g) = Busy(h) \ S
    /\ \A x \in Busy(h) \ S : g[x].size = h[x].size

LEMMA FreeBusyAll ==
    ASSUME NEW h, Chain(h), Apart(h, {}), NEW S \in SUBSET Busy(h)
    PROVE  FreeAllOK(h, S, FreedAll(h, S))
<1> DEFINE H == {g \in [Addrs -> Header] : Chain(g) /\ Apart(g, {})}
           F == [x \in H \X Nat |-> IF x[2] \in S /\ x[2] \in Busy(x[1]) THEN Freed(x[1], x[2])
                                    ELSE x[1]]
           Is(f) == f = [a \in Nat |-> IF a = 0 THEN h
                                       ELSE IF a - 1 \in S THEN Freed(f[a - 1], a - 1)
                                       ELSE f[a - 1]]
           at == CHOOSE f : Is(f)
           Part(i) == {b \in S : b < i}
<1>1. FreedAll(h, S) = at[HeapUnits]
  BY DEF FreedAll
<1>2. h \in H /\ HeapUnits \in Nat
  BY HeapAssumption DEF Chain
<1>3. \A g \in H, b \in Nat : b \in Busy(g) => Freed(g, b) \in H
  <2> SUFFICES ASSUME NEW g \in H, NEW b \in Nat, b \in Busy(g) PROVE Freed(g, b) \in H
    OBVIOUS
  <2>1. Chain(Freed(g, b)) /\ Apart(Freed(g, b), {})
    BY FreedSound
  <2> QED
    BY <2>1 DEF Chain
<1>4. F \in [H \X Nat -> H]
  BY <1>3
<1>5. \A g \in H, b \in Nat : F[<<g, b>>] = IF b \in S /\ b \in Busy(g) THEN Freed(g, b) ELSE g
  OBVIOUS
<1>6. \A g \in H : Chain(g) /\ Apart(g, {})
  OBVIOUS
<1> HIDE DEF H, F
<1>7. PICK f : Solves(H, h, F, 0, f)
  BY <1>2, <1>4, Recursion
<1>8. f \in [Nat -> H] /\ \A i \in Nat : f[i] = IF i <= 0 THEN h ELSE F[<<f[i - 1], i - 1>>]
  BY <1>7 DEF Solves
<1>8a. f[0] = h
  <2>1. \A i \in Nat : i <= 0 => f[i] = h
    BY <1>7 DEF Solves
  <2> QED
    BY <2>1
<1>9. S \subseteq Nat /\ \A b \in S : b < HeapUnits
  BY HeapAssumption DEF Busy, Marked, Addrs
<1>9a. \A i \in Nat : \A b : b \in Part(i) <=> b \in S /\ b < i
  OBVIOUS
<1>9b. \A i \in Nat : Part(i) \subseteq S
  OBVIOUS
<1> HIDE DEF Part
<1>10. ASSUME NEW i \in Nat PROVE FreeAllOK(h, Part(i), f[i])
  <2> SUFFICES ASSUME ~FreeAllOK(h, Part(i), f[i]) PROVE FALSE
    OBVIOUS
  <2> DEFINE Bad == {j \in Nat : ~FreeAllOK(h, Part(j), f[j])}
  <2>1. PICK j \in Bad : \A k \in Bad : j <= k
    <3>1. Bad \in SUBSET Nat /\ Bad # {}
      OBVIOUS
    <3> QED
      BY <3>1, LeastExists
  <2>2. j # 0
    <3>1. \A b \in S : b \in Nat /\ ~(b < 0)
      BY <1>9
    <3>2. Part(0) = {}
      BY <3>1, <1>9a, <1>9b
    <3>3. FreeAllOK(h, {}, h)
      BY DEF FreeAllOK
    <3> QED
      BY <2>1, <3>2, <3>3, <1>8a
  <2> DEFINE k == j - 1
  <2>3. k \in Nat /\ ~(j <= 0) /\ ~(j <= k)
    BY <2>1, <2>2
  <2>4. FreeAllOK(h, Part(k), f[k]) /\ f[k] \in H
    BY <2>1, <2>3, <1>8
  <2>5. f[j] = F[<<f[k], k>>]
    BY <2>1, <2>3, <1>8
  <2>6. CASE k \in S
    <3>0. \A b \in Nat : b < j <=> b < k \/ b = k
      BY <2>1, <2>3
    <3> HIDE DEF k
    <3>0a. \A b : b \in Part(j) <=> b \in Part(k) \cup {k}
      BY <3>0, <2>1, <2>3, <2>6, <1>9, <1>9a
    <3>1. k \notin Part(k) /\ Part(j) = Part(k) \cup {k}
      BY <3>0a, <2>3, <1>9a
    <3>2. k \in Busy(f[k])
      BY <3>1, <2>4, <2>6 DEF FreeAllOK
    <3>3. f[j] = Freed(f[k], k)
      BY <3>2, <2>3, <2>4, <2>5, <2>6, <1>5
    <3>4. FreeOK(f[k], k, f[j])
      BY <3>2, <3>3, <2>4, <1>6, FreeBusy
    <3>5. FreeAllOK(h, Part(j), f[j])
      BY <3>1, <3>4, <2>4 DEF FreeOK, FreeAllOK
    <3> QED
      BY <3>5, <2>1
  <2>7. CASE k \notin S
    <3>0. \A b \in Nat : b < j <=> b < k \/ b = k
      BY <2>1, <2>3
    <3> HIDE DEF k
    <3>0a. \A b : b \in Part(j) <=> b \in Part(k)
      BY <3>0, <2>1, <2>3, <2>7, <1>9, <1>9a
    <3>1. Part(j) = Part(k)
      BY <3>0a
    <3>2. f[j] = f[k]
      BY <2>3, <2>4, <2>5, <2>7, <1>5
    <3> QED
      BY <3>1, <3>2, <2>1, <2>4
  <2> QED
    BY <2>6, <2>7
<1>11. ASSUME NEW i \in Nat
       PROVE  f[i] = IF i = 0 THEN h ELSE IF i - 1 \in S THEN Freed(f[i - 1], i - 1) ELSE f[i - 1]
  <2>1. CASE i = 0
    BY <2>1, <1>8a
  <2>2. CASE i # 0
    <3> DEFINE k == i - 1
    <3>1. k \in Nat /\ ~(i <= 0)
      BY <2>2
    <3>2. f[k] \in H /\ f[i] = F[<<f[k], k>>]
      BY <3>1, <1>8
    <3>3. k \in S => k \in Busy(f[k])
      BY <3>1, <1>10, <1>9a DEF FreeAllOK
    <3>4. F[<<f[k], k>>] = IF k \in S /\ k \in Busy(f[k]) THEN Freed(f[k], k) ELSE f[k]
      BY <3>1, <3>2, <1>5
    <3>5. f[i] = IF k \in S THEN Freed(f[k], k) ELSE f[k]
      BY <3>2, <3>3, <3>4
    <3> QED
      BY <2>2, <3>5
  <2> QED
    BY <2>1, <2>2
<1>12. Is(f)
  BY <1>8, <1>11
<1>13. Is(at)
  <2> HIDE DEF Is
  <2> QED
    BY <1>12
<1> HIDE DEF at
<1>14. ASSUME NEW i \in Nat
       PROVE  at[i] = IF i = 0 THEN h ELSE IF i - 1 \in S THEN Freed(at[i - 1], i - 1) ELSE at[i - 1]
  BY <1>13
<1> HIDE DEF Is
<1>15. ASSUME NEW i \in Nat PROVE at[i] = f[i]
  <2> SUFFICES ASSUME at[i] # f[i] PROVE FALSE
    OBVIOUS
  <2> DEFINE Bad == {j \in Nat : at[j] # f[j]}
  <2>1. PICK j \in Bad : \A k \in Bad : j <= k
    <3>1. Bad \in SUBSET Nat /\ Bad # {}
      OBVIOUS
    <3> QED
      BY <3>1, LeastExists
  <2>2. j # 0
    BY <2>1, <1>11, <1>14
  <2>3. j - 1 \in Nat /\ at[j - 1] = f[j - 1]
    BY <2>1, <2>2
  <2> QED
    BY <2>1, <2>2, <2>3, <1>11, <1>14
<1>16. Part(HeapUnits) = S
  BY <1>9 DEF Part
<1> QED
  BY <1>1, <1>2, <1>10, <1>15, <1>16

-----------------------------------------------------------------------------
(* The invariant                                                           *)

\* Records with these fields, whatever their values.
IsTask(t) ==
    t = [stack |-> t.stack, zombie |-> t.zombie, pd |-> t.pd, brk |-> t.brk,
         mmaps |-> t.mmaps, mmap_brk |-> t.mmap_brk, opened |-> t.opened,
         cap |-> t.cap, rss |-> t.rss]
IsBuffer(c) == c = [at |-> c.at, n |-> c.n, of |-> c.of]

Live(T) == {p \in Procs : T[p] # NoTask}

TasksOK(T) == T = [p \in Procs |-> T[p]] /\ \A p \in Live(T) : IsTask(T[p])

\* The heap h has exactly the kernel stacks of the processes T and the buffers B.
BuffersOK(h, B) ==
    /\ \A c \in B : IsBuffer(c) /\ c.at \in Busy(h) /\ h[c.at].size >= c.n
    /\ \A c, d \in B : c.at = d.at => c = d

StacksOK(h, B, T) ==
    /\ \A p \in Live(T) : T[p].stack \in Busy(h) /\ h[T[p].stack].size >= TASK_STACK_SZ
    /\ \A p \in Live(T), c \in B : c.at # T[p].stack
    /\ \A p, q \in Live(T) : T[p].stack = T[q].stack => p = q

HeapOK(h, B, T) ==
    /\ Chain(h) /\ Apart(h, {})
    /\ BuffersOK(h, B) /\ StacksOK(h, B, T)
    /\ \A b \in Busy(h) : (\E c \in B : c.at = b) \/ \E p \in Live(T) : T[p].stack = b

\* The window manager is one process, that has not exited.
WmOK(W, T) ==
    /\ \A q \in W : q \in Live(T) /\ ~T[q].zombie
    /\ \A q, r \in W : q = r

IInv == HeapOK(hdr, bufs, task) /\ TasksOK(task) /\ WmOK(wm, task)

\* The blocks of buffers.
At(B) == {c.at : c \in B}

-----------------------------------------------------------------------------
(* What one operation does to the invariant                                *)

\* A block has been taken for a new buffer.
LEMMA NewBuffer ==
    ASSUME NEW h, NEW B, NEW T, HeapOK(h, B, T), NEW n, NEW b, NEW g, TakeOK(h, b, n, g), NEW of
    PROVE  HeapOK(g, B \cup {Buffer(b, n, of)}, T)
<1> DEFINE e == Buffer(b, n, of)
           C == B \cup {e}
<1>1. IsBuffer(e) /\ e.at = b /\ e.n = n
  BY DEF Buffer, IsBuffer
<1> HIDE DEF e
<1>2. BuffersOK(g, C)
  <2>1. ASSUME NEW c \in B PROVE IsBuffer(c) /\ c.at \in Busy(g) /\ g[c.at].size >= c.n /\ c.at # b
    BY DEF HeapOK, BuffersOK, TakeOK
  <2>2. IsBuffer(e) /\ e.at \in Busy(g) /\ g[e.at].size >= e.n
    BY <1>1 DEF TakeOK
  <2>3. \A c, d \in B : c.at = d.at => c = d
    BY DEF HeapOK, BuffersOK
  <2> QED
    BY <2>1, <2>2, <2>3, <1>1 DEF BuffersOK
<1>3. StacksOK(g, C, T)
  <2>1. ASSUME NEW p \in Live(T)
        PROVE  /\ T[p].stack \in Busy(g) /\ g[T[p].stack].size >= TASK_STACK_SZ
               /\ T[p].stack # b /\ \A c \in B : c.at # T[p].stack
    BY DEF HeapOK, StacksOK, TakeOK
  <2>2. \A p, q \in Live(T) : T[p].stack = T[q].stack => p = q
    BY DEF HeapOK, StacksOK
  <2> QED
    BY <2>1, <2>2, <1>1 DEF StacksOK
<1>4. ASSUME NEW x \in Busy(g)
      PROVE  (\E c \in C : c.at = x) \/ \E p \in Live(T) : T[p].stack = x
  BY <1>1 DEF TakeOK, HeapOK
<1>5. HeapOK(g, C, T)
  BY <1>2, <1>3, <1>4 DEF HeapOK, TakeOK
<1> QED
  BY <1>5 DEF e

\* Buffers have been freed.
LEMMA FewerBuffers ==
    ASSUME NEW h, NEW B, NEW T, HeapOK(h, B, T), NEW G \in SUBSET B, NEW g, FreeAllOK(h, At(G), g)
    PROVE  HeapOK(g, B \ G, T)
<1>1. ASSUME NEW c \in B \ G PROVE c.at \notin At(G)
  BY DEF HeapOK, BuffersOK, At
<1>2. ASSUME NEW p \in Live(T) PROVE T[p].stack \notin At(G)
  BY DEF HeapOK, StacksOK, At
<1>3. BuffersOK(g, B \ G)
  <2>1. ASSUME NEW c \in B \ G PROVE IsBuffer(c) /\ c.at \in Busy(g) /\ g[c.at].size >= c.n
    <3>1. IsBuffer(c) /\ c.at \in Busy(h) /\ h[c.at].size >= c.n
      BY DEF HeapOK, BuffersOK
    <3> QED
      BY <3>1, <1>1 DEF FreeAllOK
  <2>2. \A c, d \in B \ G : c.at = d.at => c = d
    BY DEF HeapOK, BuffersOK
  <2> QED
    BY <2>1, <2>2 DEF BuffersOK
<1>4. StacksOK(g, B \ G, T)
  <2>1. ASSUME NEW p \in Live(T)
        PROVE  T[p].stack \in Busy(g) /\ g[T[p].stack].size >= TASK_STACK_SZ
    <3>1. T[p].stack \in Busy(h) /\ h[T[p].stack].size >= TASK_STACK_SZ
      BY DEF HeapOK, StacksOK
    <3> QED
      BY <3>1, <1>2 DEF FreeAllOK
  <2>2. \A p \in Live(T), c \in B \ G : c.at # T[p].stack
    BY DEF HeapOK, StacksOK
  <2>3. \A p, q \in Live(T) : T[p].stack = T[q].stack => p = q
    BY DEF HeapOK, StacksOK
  <2> QED
    BY <2>1, <2>2, <2>3 DEF StacksOK
<1>5. ASSUME NEW x \in Busy(g)
      PROVE  (\E c \in B \ G : c.at = x) \/ \E p \in Live(T) : T[p].stack = x
  <2>1. x \in Busy(h) /\ x \notin At(G)
    BY DEF FreeAllOK
  <2>2. \A c \in G : c.at # x
    BY <2>1 DEF At
  <2> QED
    BY <2>1, <2>2 DEF HeapOK
<1> QED
  BY <1>3, <1>4, <1>5 DEF HeapOK, FreeAllOK

LEMMA BuffersFreed ==
    ASSUME NEW h, NEW B, NEW T, HeapOK(h, B, T), NEW G \in SUBSET B
    PROVE  HeapOK(FreedAll(h, At(G)), B \ G, T)
<1>1. Chain(h) /\ Apart(h, {}) /\ At(G) \in SUBSET Busy(h)
  BY DEF HeapOK, BuffersOK, At
<1>2. FreeAllOK(h, At(G), FreedAll(h, At(G)))
  BY <1>1, FreeBusyAll
<1> QED
  BY <1>2, FewerBuffers

\* A block that was taken has been given back.
LEMMA TakenBack ==
    ASSUME NEW h, NEW B, NEW T, HeapOK(h, B, T), NEW n, NEW b, NEW g, TakeOK(h, b, n, g)
    PROVE  HeapOK(Freed(g, b), B, T)
<1>1. Chain(g) /\ Apart(g, {}) /\ b \in Busy(g)
  BY DEF TakeOK
<1>2. FreeOK(g, b, Freed(g, b))
  BY <1>1, FreeBusy
<1> DEFINE f == Freed(g, b)
<1> HIDE DEF f
<1>3. /\ Busy(f) = Busy(h) /\ Chain(f) /\ Apart(f, {})
      /\ \A x \in Busy(h) : f[x].size = h[x].size
  BY <1>2 DEF FreeOK, TakeOK, f
<1>4. HeapOK(f, B, T)
  BY <1>3 DEF HeapOK, BuffersOK, StacksOK
<1> QED
  BY <1>4 DEF f

\* Processes may change, as long as the same ones have the same stacks.
LEMMA SameStacks ==
    ASSUME NEW h, NEW B, NEW T, HeapOK(h, B, T), NEW U, Live(U) = Live(T),
           \A p \in Live(T) : U[p].stack = T[p].stack
    PROVE  HeapOK(h, B, U)
<1>1. StacksOK(h, B, U)
  BY DEF HeapOK, StacksOK
<1> QED
  BY <1>1 DEF HeapOK

\* T becomes U: each process keeps its stack, and none exits.
Keeps(T, U) ==
    /\ TasksOK(U) /\ Live(U) = Live(T)
    /\ \A p \in Live(T) : U[p].stack = T[p].stack
    /\ \A p \in Live(T) : ~T[p].zombie => ~U[p].zombie

LEMMA LiveStack ==
    ASSUME NEW h, NEW B, NEW T, HeapOK(h, B, T), NEW p \in Live(T)
    PROVE  T[p].stack \in Busy(h) /\ T[p].stack \in Addrs /\ p \in Procs
BY DEF HeapOK, StacksOK, Live, Busy, Marked

\* A record with a stack is a process.
LEMMA NotNone ==
    ASSUME NEW t, t.stack \in Addrs
    PROVE  t # NoTask
BY HeapAssumption DEF NoTask, Addrs, NULL

PutOK(T, p, t, U) ==
    /\ TasksOK(U) /\ Live(U) = Live(T) \cup {p} /\ U[p] = t
    /\ \A q \in Procs \ {p} : U[q] = T[q]

LEMMA PutTask ==
    ASSUME NEW T, TasksOK(T), NEW p \in Procs, NEW t, IsTask(t), t.stack \in Addrs
    PROVE  PutOK(T, p, t, [T EXCEPT ![p] = t])
<1> DEFINE U == [T EXCEPT ![p] = t]
<1>1. T = [q \in Procs |-> T[q]]
  BY DEF TasksOK
<1>2. U = [q \in Procs |-> IF q = p THEN t ELSE T[q]]
  BY <1>1
<1> HIDE DEF U
<1>3. U = [q \in Procs |-> U[q]] /\ U[p] = t /\ \A q \in Procs \ {p} : U[q] = T[q]
  BY <1>2
<1>4. t # NoTask
  BY NotNone
<1>5. Live(U) = Live(T) \cup {p}
  BY <1>3, <1>4 DEF Live
<1>6. ASSUME NEW q \in Live(U) PROVE IsTask(U[q])
  <2>1. CASE q = p
    BY <2>1, <1>3
  <2>2. CASE q # p
    <3>1. q \in Live(T) /\ q \in Procs
      BY <2>2, <1>5 DEF Live
    <3>2. U[q] = T[q] /\ IsTask(T[q])
      BY <3>1, <2>2, <1>3 DEF TasksOK
    <3> QED
      BY <3>2
  <2> QED
    BY <2>1, <2>2
<1>7. TasksOK(U)
  BY <1>3, <1>6 DEF TasksOK
<1> QED
  BY <1>3, <1>5, <1>7 DEF U, PutOK

LEMMA PutKeeps ==
    ASSUME NEW T, TasksOK(T), NEW p \in Live(T), T[p].stack \in Addrs,
           NEW t, IsTask(t), t.stack = T[p].stack, ~T[p].zombie => ~t.zombie
    PROVE  Keeps(T, [T EXCEPT ![p] = t])
<1> DEFINE U == [T EXCEPT ![p] = t]
<1>1. p \in Procs /\ Live(T) \subseteq Procs
  BY DEF Live
<1>2. PutOK(T, p, t, U)
  <2>1. t.stack \in Addrs
    OBVIOUS
  <2> QED
    BY <2>1, <1>1, PutTask
<1> HIDE DEF U
<1>3. Keeps(T, U)
  BY <1>1, <1>2 DEF Keeps, PutOK
<1> QED
  BY <1>3 DEF U

\* A step that keeps the stacks of the processes: the buffers decide.
LEMMA KeepsStep ==
    ASSUME IInv, Keeps(task, task'), HeapOK(hdr', bufs', task), wm' \subseteq wm
    PROVE  IInv'
<1>1. HeapOK(hdr', bufs', task')
  BY SameStacks DEF Keeps
<1>2. TasksOK(task') /\ WmOK(wm', task')
  BY DEF Keeps, IInv, WmOK
<1> QED
  BY <1>1, <1>2 DEF IInv

\* A step that changes the processes at most: nothing happens to the heap.
LEMMA ProcessStep ==
    ASSUME IInv, Keeps(task, task'), UNCHANGED <<hdr, bufs, wm>>
    PROVE  IInv'
<1>1. HeapOK(hdr', bufs', task) /\ wm' \subseteq wm
  BY DEF IInv
<1> QED
  BY <1>1, KeepsStep

\* A step of a process that does not change its stack.
LEMMA OneStep ==
    ASSUME IInv, NEW p \in Live(task), NEW t, IsTask(t), t.stack = task[p].stack,
           ~task[p].zombie => ~t.zombie
    PROVE  Keeps(task, [task EXCEPT ![p] = t])
<1>1. TasksOK(task) /\ task[p].stack \in Addrs
  BY LiveStack DEF IInv
<1> QED
  BY <1>1, PutKeeps

LEMMA RunningIs ==
    ASSUME NEW p \in Procs, Running(p)
    PROVE  p \in Live(task) /\ ~task[p].zombie
BY DEF Running, Alive, Live

-----------------------------------------------------------------------------
(* Steps of one process that leave the heap alone                          *)

\* Changing another field than the stack.
SameStack(t, u) == IsTask(u) /\ u.stack = t.stack /\ u.zombie = t.zombie

LEMMA SameAgain ==
    ASSUME NEW t, NEW u, NEW v, SameStack(t, u), SameStack(u, v)
    PROVE  SameStack(t, v)
BY DEF SameStack

LEMMA OneField ==
    ASSUME NEW t, IsTask(t), NEW x
    PROVE  /\ SameStack(t, [t EXCEPT !.pd = x])
           /\ SameStack(t, [t EXCEPT !.cap = x])
           /\ SameStack(t, [t EXCEPT !.mmaps = x])
           /\ SameStack(t, [t EXCEPT !.mmap_brk = x])
           /\ SameStack(t, [t EXCEPT !.rss = x])
           /\ SameStack(t, [t EXCEPT !.opened = x])
           /\ SameStack(t, [t EXCEPT !.brk = x])
<1>1. SameStack(t, [t EXCEPT !.pd = x])
  <2>1. [t EXCEPT !.pd = x] =
           [stack |-> t.stack, zombie |-> t.zombie, pd |-> x, brk |-> t.brk, mmaps |-> t.mmaps,
            mmap_brk |-> t.mmap_brk, opened |-> t.opened, cap |-> t.cap, rss |-> t.rss]
    BY DEF IsTask
  <2> QED
    BY <2>1 DEF SameStack, IsTask
<1>2. SameStack(t, [t EXCEPT !.cap = x])
  <2>1. [t EXCEPT !.cap = x] =
           [stack |-> t.stack, zombie |-> t.zombie, pd |-> t.pd, brk |-> t.brk, mmaps |-> t.mmaps,
            mmap_brk |-> t.mmap_brk, opened |-> t.opened, cap |-> x, rss |-> t.rss]
    BY DEF IsTask
  <2> QED
    BY <2>1 DEF SameStack, IsTask
<1>3. SameStack(t, [t EXCEPT !.mmaps = x])
  <2>1. [t EXCEPT !.mmaps = x] =
           [stack |-> t.stack, zombie |-> t.zombie, pd |-> t.pd, brk |-> t.brk, mmaps |-> x,
            mmap_brk |-> t.mmap_brk, opened |-> t.opened, cap |-> t.cap, rss |-> t.rss]
    BY DEF IsTask
  <2> QED
    BY <2>1 DEF SameStack, IsTask
<1>4. SameStack(t, [t EXCEPT !.mmap_brk = x])
  <2>1. [t EXCEPT !.mmap_brk = x] =
           [stack |-> t.stack, zombie |-> t.zombie, pd |-> t.pd, brk |-> t.brk, mmaps |-> t.mmaps,
            mmap_brk |-> x, opened |-> t.opened, cap |-> t.cap, rss |-> t.rss]
    BY DEF IsTask
  <2> QED
    BY <2>1 DEF SameStack, IsTask
<1>5. SameStack(t, [t EXCEPT !.rss = x])
  <2>1. [t EXCEPT !.rss = x] =
           [stack |-> t.stack, zombie |-> t.zombie, pd |-> t.pd, brk |-> t.brk, mmaps |-> t.mmaps,
            mmap_brk |-> t.mmap_brk, opened |-> t.opened, cap |-> t.cap, rss |-> x]
    BY DEF IsTask
  <2> QED
    BY <2>1 DEF SameStack, IsTask
<1>6. SameStack(t, [t EXCEPT !.opened = x])
  <2>1. [t EXCEPT !.opened = x] =
           [stack |-> t.stack, zombie |-> t.zombie, pd |-> t.pd, brk |-> t.brk, mmaps |-> t.mmaps,
            mmap_brk |-> t.mmap_brk, opened |-> x, cap |-> t.cap, rss |-> t.rss]
    BY DEF IsTask
  <2> QED
    BY <2>1 DEF SameStack, IsTask
<1>7. SameStack(t, [t EXCEPT !.brk = x])
  <2>1. [t EXCEPT !.brk = x] =
           [stack |-> t.stack, zombie |-> t.zombie, pd |-> t.pd, brk |-> x, mmaps |-> t.mmaps,
            mmap_brk |-> t.mmap_brk, opened |-> t.opened, cap |-> t.cap, rss |-> t.rss]
    BY DEF IsTask
  <2> QED
    BY <2>1 DEF SameStack, IsTask
<1> QED
  BY <1>1, <1>2, <1>3, <1>4, <1>5, <1>6, <1>7

LEMMA SetLimitStep ==
    ASSUME IInv, NEW p \in Procs, NEW n \in Caps, SetLimit(p, n)
    PROVE  IInv'
<1> DEFINE t == [task[p] EXCEPT !.cap = n]
<1>1. p \in Live(task) /\ TasksOK(task) /\ IsTask(task[p])
  BY RunningIs DEF SetLimit, IInv, TasksOK
<1>2. task' = [task EXCEPT ![p] = t] /\ UNCHANGED <<hdr, bufs, wm>>
  BY <1>1 DEF SetLimit, TasksOK
<1>3. SameStack(task[p], t)
  BY <1>1, OneField
<1> HIDE DEF t
<1>4. Keeps(task, task')
  BY <1>1, <1>2, <1>3, OneStep DEF SameStack
<1> QED
  BY <1>2, <1>4, ProcessStep

LEMMA MmapStep ==
    ASSUME IInv, NEW p \in Procs, NEW n \in 1 .. MapPages, Mmap(p, n)
    PROVE  IInv'
<1> DEFINE s == [task[p] EXCEPT !.mmaps = @ \cup {[start |-> task[p].mmap_brk, len |-> n]}]
           t == [s EXCEPT !.mmap_brk = @ + n]
<1>1. p \in Live(task) /\ TasksOK(task) /\ IsTask(task[p])
  BY RunningIs DEF Mmap, IInv, TasksOK
<1>2. UNCHANGED <<hdr, bufs, wm>>
  BY DEF Mmap
<1>3. task' = [task EXCEPT ![p] = t]
  BY <1>1 DEF Mmap, TasksOK
<1>4. SameStack(task[p], t)
  <2>1. SameStack(task[p], s)
    BY <1>1, OneField
  <2> HIDE DEF s
  <2>2. SameStack(s, t)
    BY <2>1, OneField DEF SameStack
  <2> HIDE DEF t
  <2> QED
    BY <2>1, <2>2, SameAgain
<1> HIDE DEF t
<1>5. Keeps(task, task')
  BY <1>1, <1>3, <1>4, OneStep DEF SameStack
<1> QED
  BY <1>2, <1>5, ProcessStep

LEMMA MunmapStep ==
    ASSUME IInv, NEW p \in Procs, Running(p), NEW m, Munmap(p, m)
    PROVE  IInv'
<1> DEFINE t == [task[p] EXCEPT !.mmaps = @ \ {m}]
<1>1. p \in Live(task) /\ TasksOK(task) /\ IsTask(task[p])
  BY RunningIs DEF IInv, TasksOK
<1>2. task' = [task EXCEPT ![p] = t] /\ UNCHANGED <<hdr, bufs, wm>>
  BY <1>1 DEF Munmap, TasksOK
<1>3. SameStack(task[p], t)
  BY <1>1, OneField
<1> HIDE DEF t
<1>4. Keeps(task, task')
  BY <1>1, <1>2, <1>3, OneStep DEF SameStack
<1> QED
  BY <1>2, <1>4, ProcessStep

LEMMA FaultStep ==
    ASSUME IInv, NEW p \in Procs, NEW i, Fault(p, i)
    PROVE  IInv'
<1> DEFINE page == Alloc(used)
           d == Mapped(used \cup {page}, task[p].pd, MapVa(i), page)
           s == [task[p] EXCEPT !.pd = d]
           t == [s EXCEPT !.rss = @ + 1]
<1>1. p \in Live(task) /\ TasksOK(task) /\ IsTask(task[p])
  BY RunningIs DEF Fault, IInv, TasksOK
<1>2. UNCHANGED <<hdr, bufs, wm>> /\ task' = [task EXCEPT ![p].pd = d, ![p].rss = @ + 1]
  BY DEF Fault
<1> HIDE DEF d
<1>3. task' = [task EXCEPT ![p] = t]
  BY <1>1, <1>2 DEF TasksOK
<1>4. SameStack(task[p], t)
  <2>1. SameStack(task[p], s)
    BY <1>1, OneField
  <2> HIDE DEF s
  <2>2. SameStack(s, t)
    BY <2>1, OneField DEF SameStack
  <2> HIDE DEF t
  <2> QED
    BY <2>1, <2>2, SameAgain
<1> HIDE DEF t
<1>5. Keeps(task, task')
  BY <1>1, <1>3, <1>4, OneStep DEF SameStack
<1> QED
  BY <1>2, <1>5, ProcessStep

LEMMA BrkStep ==
    ASSUME IInv, NEW p \in Procs, NEW n, Brk(p, n)
    PROVE  IInv'
<1> DEFINE g == Grown(task[p], n)
           b == IF g.stop THEN task[p].brk ELSE n
           r == [task[p] EXCEPT !.pd = g.pd]
           s == [r EXCEPT !.rss = g.rss]
           t == [s EXCEPT !.brk = b]
<1>1. p \in Live(task) /\ TasksOK(task) /\ IsTask(task[p])
  BY RunningIs DEF Brk, IInv, TasksOK
<1>2. /\ UNCHANGED <<hdr, bufs, wm>>
      /\ task' = [task EXCEPT ![p].pd = g.pd, ![p].rss = g.rss,
                              ![p].brk = IF g.stop THEN @ ELSE n]
  BY DEF Brk
<1> HIDE DEF g
<1>3. task' = [task EXCEPT ![p] = t]
  BY <1>1, <1>2 DEF TasksOK
<1> HIDE DEF b
<1>4. SameStack(task[p], t)
  <2>1. SameStack(task[p], r)
    BY <1>1, OneField
  <2> HIDE DEF r
  <2>2. SameStack(r, s)
    BY <2>1, OneField DEF SameStack
  <2> HIDE DEF s
  <2>3. SameStack(s, t)
    BY <2>2, OneField DEF SameStack
  <2> HIDE DEF t
  <2> QED
    BY <2>1, <2>2, <2>3, SameAgain
<1> HIDE DEF t
<1>5. Keeps(task, task')
  BY <1>1, <1>3, <1>4, OneStep DEF SameStack
<1> QED
  BY <1>2, <1>5, ProcessStep

\* exec keeps the kernel stack.
LEMMA ExecStep ==
    ASSUME IInv, NEW p \in Procs, Exec(p)
    PROVE  IInv'
<1> DEFINE d == Loaded(used)
           t == Fresh(d, task[p].stack, task[p].cap, task[p].rss, task[p].opened)
<1>1. p \in Live(task) /\ TasksOK(task) /\ IsTask(task[p]) /\ ~task[p].zombie
  BY RunningIs DEF Exec, IInv, TasksOK
<1>2. /\ UNCHANGED <<hdr, bufs, wm>>
      /\ task' = [task EXCEPT ![p] = Fresh(d, @.stack, @.cap, @.rss, @.opened)]
  BY DEF Exec
<1> HIDE DEF d
<1>3. task' = [task EXCEPT ![p] = t]
  BY <1>1, <1>2 DEF TasksOK
<1>4. IsTask(t) /\ t.stack = task[p].stack /\ ~t.zombie
  BY DEF Fresh, IsTask
<1> HIDE DEF t
<1>5. Keeps(task, task')
  BY <1>1, <1>3, <1>4, OneStep
<1> QED
  BY <1>2, <1>5, ProcessStep

LEMMA WmDestroyStep ==
    ASSUME IInv, NEW p \in Procs, NEW s, WmDestroy(p, s)
    PROVE  IInv'
<1> DEFINE d == Without(task[p].pd, {SurfaceVa(win[s].client_va, i) : i \in DOMAIN win[s].pages})
           t == [task[p] EXCEPT !.pd = d]
<1>1. p \in Live(task) /\ TasksOK(task) /\ IsTask(task[p])
  BY RunningIs DEF WmDestroy, IInv, TasksOK
<1>2. /\ UNCHANGED <<hdr, bufs, wm>> /\ task' = [task EXCEPT ![p].pd = d]
  BY <1>1 DEF WmDestroy, TasksOK
<1> HIDE DEF d
<1>3. task' = [task EXCEPT ![p] = t]
  BY <1>1, <1>2 DEF TasksOK
<1>4. SameStack(task[p], t)
  BY <1>1, OneField
<1> HIDE DEF t
<1>5. Keeps(task, task')
  BY <1>1, <1>3, <1>4, OneStep DEF SameStack
<1> QED
  BY <1>2, <1>5, ProcessStep

-----------------------------------------------------------------------------
(* Steps that allocate and free                                            *)

LEMMA BuffersStep ==
    ASSUME IInv, UNCHANGED <<task, wm>>, HeapOK(hdr', bufs', task)
    PROVE  IInv'
BY DEF IInv

LEMMA KernelAllocStep ==
    ASSUME IInv, NEW n \in Buffers, KernelAlloc(n)
    PROVE  IInv'
<1>1. n \in Nat \ {0}
  BY MemAssumption
<1>2. PICK b \in FirstFit(hdr, n) :
         hdr' = Taken(hdr, b, n) /\ bufs' = bufs \cup {Buffer(b, n, Other)}
  BY DEF KernelAlloc
<1>3. HeapOK(hdr, bufs, task) /\ Chain(hdr) /\ Apart(hdr, {})
  BY DEF IInv, HeapOK
<1>4. TakeOK(hdr, b, n, hdr')
  BY <1>1, <1>2, <1>3, TakeFirst
<1>5. HeapOK(hdr', bufs', task)
  BY <1>2, <1>3, <1>4, NewBuffer
<1> QED
  BY <1>5, BuffersStep DEF KernelAlloc

LEMMA KernelFreeStep ==
    ASSUME IInv, NEW c \in bufs, KernelFree(c)
    PROVE  IInv'
<1>1. HeapOK(hdr, bufs, task) /\ Chain(hdr) /\ Apart(hdr, {}) /\ c.at \in Busy(hdr)
  BY DEF IInv, HeapOK, BuffersOK
<1>2. hdr' = Freed(hdr, c.at) /\ bufs' = bufs \ {c} /\ UNCHANGED <<task, wm>>
  BY DEF KernelFree
<1>3. FreeOK(hdr, c.at, hdr')
  BY <1>1, <1>2, FreeBusy
<1>4. FreeAllOK(hdr, At({c}), hdr')
  <2>1. At({c}) = {c.at}
    BY DEF At
  <2> QED
    BY <2>1, <1>3 DEF FreeOK, FreeAllOK
<1>5. HeapOK(hdr', bufs \ {c}, task)
  BY <1>1, <1>4, FewerBuffers
<1> QED
  BY <1>2, <1>5, BuffersStep

\* What wm.c allocates.
LEMMA NewWmBuffer ==
    ASSUME IInv, NEW b \in FirstFit(hdr, WmUnits), NEW of
    PROVE  /\ HeapOK(Taken(hdr, b, WmUnits), bufs \cup {Buffer(b, WmUnits, of)}, task)
           /\ HeapOK(Freed(Taken(hdr, b, WmUnits), b), bufs, task)
<1>1. HeapOK(hdr, bufs, task) /\ Chain(hdr) /\ Apart(hdr, {}) /\ WmUnits \in Nat \ {0}
  BY MemAssumption DEF IInv, HeapOK
<1>2. TakeOK(hdr, b, WmUnits, Taken(hdr, b, WmUnits))
  BY <1>1, TakeFirst
<1> QED
  BY <1>1, <1>2, NewBuffer, TakenBack

LEMMA WmPushEventStep ==
    ASSUME IInv, NEW s, WmPushEvent(s)
    PROVE  IInv'
<1>1. PICK b \in FirstFit(hdr, WmUnits) :
         /\ hdr' = Taken(hdr, b, WmUnits)
         /\ bufs' = bufs \cup {Buffer(b, WmUnits, Events(s))}
  BY DEF WmPushEvent
<1>2. HeapOK(hdr', bufs', task)
  BY <1>1, NewWmBuffer
<1> QED
  BY <1>2, BuffersStep DEF WmPushEvent

LEMMA EnsureStateIs ==
    ASSUME IInv, NEW e \in EnsureState
    PROVE  HeapOK(e.hdr, e.bufs, task) /\ bufs \subseteq e.bufs
<1>1. HeapOK(hdr, bufs, task)
  BY DEF IInv
<1>2. CASE e.hdr = hdr /\ e.bufs = bufs
  BY <1>1, <1>2
<1>3. ASSUME NEW b \in FirstFit(hdr, WmUnits), e.hdr = Taken(hdr, b, WmUnits),
             e.bufs = bufs \cup {Buffer(b, WmUnits, State)}
      PROVE  HeapOK(e.hdr, e.bufs, task) /\ bufs \subseteq e.bufs
  BY <1>3, NewWmBuffer
<1> QED
  BY <1>2, <1>3 DEF EnsureState

\* wm_bind frees what is left of old windows.
LEMMA WmBindStep ==
    ASSUME IInv, NEW p \in Procs, WmBind(p)
    PROVE  IInv'
<1> DEFINE gone == {c \in bufs : \E s \in Slots : c.of \in {PageList(s), Events(s)}}
<1>1. /\ Running(p) /\ wm' = {p} /\ UNCHANGED task
      /\ \E e \in EnsureState : hdr' = FreedAll(e.hdr, At(gone)) /\ bufs' = e.bufs \ gone
  BY DEF WmBind, At
<1>2. PICK e \in EnsureState : hdr' = FreedAll(e.hdr, At(gone)) /\ bufs' = e.bufs \ gone
  BY <1>1
<1>3. HeapOK(e.hdr, e.bufs, task) /\ bufs \subseteq e.bufs
  BY EnsureStateIs
<1>4. gone \in SUBSET e.bufs
  BY <1>3
<1> HIDE DEF gone
<1>5. HeapOK(hdr', bufs', task)
  BY <1>2, <1>3, <1>4, BuffersFreed
<1>6. WmOK({p}, task)
  BY <1>1, RunningIs DEF WmOK
<1> QED
  BY <1>1, <1>5, <1>6 DEF IInv

\* wm_pop_message frees what a closed window had.
LEMMA WmPopStep ==
    ASSUME IInv, NEW q \in Procs, NEW s, WmPop(q, s)
    PROVE  IInv'
<1> DEFINE gone == {c \in bufs : c.of \in {PageList(s), Events(s)}}
           d == Without(task[q].pd, {SurfaceVa(s, i) : i \in DOMAIN win[s].pages})
           t == [task[q] EXCEPT !.pd = d]
<1>1. q \in Live(task) /\ TasksOK(task) /\ IsTask(task[q])
  BY DEF WmPop, IInv, WmOK, TasksOK
<1>2. HeapOK(hdr, bufs, task) /\ UNCHANGED wm
  BY DEF IInv, WmPop
<1>3. CASE UNCHANGED <<hdr, bufs, task>>
  BY <1>2, <1>3, BuffersStep
<1>4. CASE /\ task' = [task EXCEPT ![q].pd = d]
           /\ hdr' = FreedAll(hdr, At(gone)) /\ bufs' = bufs \ gone
  <2> HIDE DEF d
  <2>1. task' = [task EXCEPT ![q] = t]
    BY <1>1, <1>4 DEF TasksOK
  <2>2. SameStack(task[q], t)
    BY <1>1, OneField
  <2> HIDE DEF t
  <2>3. Keeps(task, task')
    BY <2>1, <2>2, <1>1, OneStep DEF SameStack
  <2>4. gone \in SUBSET bufs
    OBVIOUS
  <2> HIDE DEF gone
  <2>5. HeapOK(hdr', bufs', task)
    BY <2>4, <1>2, <1>4, BuffersFreed
  <2> QED
    BY <2>3, <2>5, <1>2, KeepsStep
<1>5. \/ UNCHANGED <<hdr, bufs, task>>
      \/ /\ task' = [task EXCEPT ![q].pd = d]
         /\ hdr' = FreedAll(hdr, At(gone)) /\ bufs' = bufs \ gone
  <2>1. task' = [task EXCEPT ![q].pd = Without(@, {SurfaceVa(s, i) : i \in DOMAIN win[s].pages})]
           => task' = [task EXCEPT ![q].pd = d]
    BY <1>1 DEF TasksOK
  <2> HIDE DEF d
  <2> QED
    BY <2>1 DEF WmPop, At
<1> QED
  BY <1>3, <1>4, <1>5

\* wm_create_window keeps the list of pages, or gives it back.
LEMMA WmCreateStep ==
    ASSUME IInv, NEW p \in Procs, NEW q \in Procs, NEW n, WmCreate(p, q, n)
    PROVE  IInv'
<1>1. Running(p) /\ wm = {q} /\ p # q /\ UNCHANGED wm
  BY DEF WmCreate
<1>2. PICK s \in FirstEmpty, b \in FirstFit(hdr, WmUnits) :
        LET w == Surface(task[p].pd, task[q].pd, task[p].opened, s, n)
            h == Taken(hdr, b, WmUnits)
        IN  /\ task' = [task EXCEPT ![p].pd = w.client, ![q].pd = w.wmd,
                                    ![p].opened = @ + IF w.stop THEN 0 ELSE 1]
            /\ hdr' = IF w.stop THEN Freed(h, b) ELSE h
            /\ bufs' = IF w.stop THEN bufs ELSE bufs \cup {Buffer(b, WmUnits, PageList(s))}
  BY DEF WmCreate
<1> DEFINE w == Surface(task[p].pd, task[q].pd, task[p].opened, s, n)
           k == IF w.stop THEN 0 ELSE 1
           z == task[p].opened + k
           v == [task[p] EXCEPT !.pd = w.client]
           t == [v EXCEPT !.opened = z]
           u == [task[q] EXCEPT !.pd = w.wmd]
           T == [task EXCEPT ![p] = t]
<1>2a. /\ hdr' = IF w.stop THEN Freed(Taken(hdr, b, WmUnits), b) ELSE Taken(hdr, b, WmUnits)
       /\ bufs' = IF w.stop THEN bufs ELSE bufs \cup {Buffer(b, WmUnits, PageList(s))}
       /\ task' = [task EXCEPT ![p].pd = w.client, ![q].pd = w.wmd,
                               ![p].opened = @ + IF w.stop THEN 0 ELSE 1]
  BY <1>2
<1> HIDE DEF w
<1>3. p \in Live(task) /\ q \in Live(task) /\ TasksOK(task) /\ IsTask(task[p]) /\ IsTask(task[q])
  BY <1>1, RunningIs DEF IInv, WmOK, TasksOK
<1> HIDE DEF k
<1>4. task' = [T EXCEPT ![q] = u]
  <2>1. task = [r \in Procs |-> task[r]] /\ p \in Procs /\ q \in Procs /\ p # q
    BY <1>1, <1>3 DEF TasksOK
  <2>2. task' = [task EXCEPT ![p].pd = w.client, ![q].pd = w.wmd, ![p].opened = @ + k]
    BY <1>2a DEF k
  <2>3. task' = [r \in Procs |-> IF r = p THEN t ELSE IF r = q THEN u ELSE task[r]]
    BY <2>1, <2>2
  <2>4. [T EXCEPT ![q] = u] = [r \in Procs |-> IF r = p THEN t ELSE IF r = q THEN u ELSE task[r]]
    <3> HIDE DEF t, u
    <3> QED
      BY <2>1
  <2> QED
    BY <2>3, <2>4
<1> HIDE DEF z
<1>5. SameStack(task[p], t) /\ SameStack(task[q], u)
  <2>1. SameStack(task[p], v) /\ SameStack(task[q], u)
    BY <1>3, OneField
  <2> HIDE DEF v, u
  <2>2. SameStack(v, t)
    BY <2>1, OneField DEF SameStack
  <2> HIDE DEF t
  <2> QED
    BY <2>1, <2>2, SameAgain
<1> HIDE DEF t, u
<1>6. Keeps(task, T) /\ T[q] = task[q]
  <2>1. Keeps(task, T)
    BY <1>3, <1>5, OneStep DEF SameStack
  <2>2. T[q] = task[q]
    BY <1>1, <1>3 DEF TasksOK
  <2> QED
    BY <2>1, <2>2
<1> HIDE DEF T
<1>7. Keeps(T, task')
  <2>1. /\ q \in Live(T) /\ T[q].stack \in Addrs /\ TasksOK(T) /\ IsTask(u)
        /\ u.stack = T[q].stack /\ (~T[q].zombie => ~u.zombie)
    BY <1>3, <1>5, <1>6, LiveStack DEF Keeps, SameStack, IInv
  <2> QED
    BY <2>1, <1>4, PutKeeps
<1>8. Keeps(task, task')
  BY <1>6, <1>7 DEF Keeps
<1>9. HeapOK(hdr', bufs', task)
  <2>1. /\ HeapOK(Taken(hdr, b, WmUnits), bufs \cup {Buffer(b, WmUnits, PageList(s))}, task)
        /\ HeapOK(Freed(Taken(hdr, b, WmUnits), b), bufs, task)
    BY NewWmBuffer
  <2>2. CASE w.stop
    BY <2>1, <2>2, <1>2a
  <2>3. CASE ~w.stop
    BY <2>1, <2>3, <1>2a
  <2> QED
    BY <2>2, <2>3
<1> QED
  BY <1>1, <1>8, <1>9, KeepsStep

LEMMA StackSize == TASK_STACK_SZ \in Nat \ {0} /\ TASK_STACK_SZ <= HeapUnits - 1
BY MemAssumption, HeapAssumption

\* A new process has the block that has just been taken as its stack.
LEMMA NewStack ==
    ASSUME NEW h, NEW B, NEW T, HeapOK(h, B, T), NEW q \in Procs, q \notin Live(T),
           NEW b, NEW g, TakeOK(h, b, TASK_STACK_SZ, g),
           NEW t, t.stack = b, NEW U, PutOK(T, q, t, U)
    PROVE  HeapOK(g, B, U)
<1>1. Live(U) = Live(T) \cup {q} /\ U[q].stack = b /\ \A p \in Live(T) : U[p] = T[p] /\ p # q
  BY DEF PutOK, Live
<1>2. BuffersOK(g, B)
  BY DEF HeapOK, BuffersOK, TakeOK
<1>3. ASSUME NEW p \in Live(T)
      PROVE  /\ T[p].stack \in Busy(g) /\ g[T[p].stack].size >= TASK_STACK_SZ
             /\ T[p].stack # b /\ \A c \in B : c.at # T[p].stack
  BY DEF HeapOK, StacksOK, TakeOK
<1>4. b \in Busy(g) /\ g[b].size >= TASK_STACK_SZ /\ \A c \in B : c.at # b
  BY DEF HeapOK, BuffersOK, TakeOK
<1>5. \A p, r \in Live(T) : T[p].stack = T[r].stack => p = r
  BY DEF HeapOK, StacksOK
<1>6. StacksOK(g, B, U)
  <2>1. \A p \in Live(U) : U[p].stack \in Busy(g) /\ g[U[p].stack].size >= TASK_STACK_SZ
    BY <1>1, <1>3, <1>4
  <2>2. \A p \in Live(U), c \in B : c.at # U[p].stack
    BY <1>1, <1>3, <1>4
  <2>3. \A p, r \in Live(U) : U[p].stack = U[r].stack => p = r
    BY <1>1, <1>3, <1>5
  <2> QED
    BY <2>1, <2>2, <2>3 DEF StacksOK
<1>7. \A x \in Busy(g) : (\E c \in B : c.at = x) \/ \E p \in Live(U) : U[p].stack = x
  <2>1. \A x \in Busy(h) : (\E c \in B : c.at = x) \/ \E p \in Live(T) : T[p].stack = x
    BY DEF HeapOK
  <2>2. Busy(g) = Busy(h) \cup {b}
    BY DEF TakeOK
  <2> QED
    BY <2>1, <2>2, <1>1
<1> QED
  BY <1>2, <1>6, <1>7 DEF HeapOK, TakeOK

\* fork takes a stack, and gives it back when the copy fails.
LEMMA ForkStep ==
    ASSUME IInv, NEW p \in Procs, NEW q \in Procs, Fork(p, q)
    PROVE  IInv'
<1>1. ~Alive(q) /\ UNCHANGED <<bufs, wm>>
  BY DEF Fork
<1>2. q \notin Live(task)
  BY <1>1 DEF Alive, Live
<1> DEFINE h(b) == Taken(hdr, b, TASK_STACK_SZ)
           want == Cardinality(Copied(task[p].pd))
           n == IF Available(used) < want THEN Available(used) ELSE want
           c == Clone(used, task[p].pd, n)
           data == {k \in DOMAIN c : IsData(k)}
           t(b) == [Fresh(c, b, task[p].cap, Cardinality(data), 0) EXCEPT
                       !.brk = task[p].brk, !.mmaps = task[p].mmaps,
                       !.mmap_brk = task[p].mmap_brk]
<1>3. PICK b \in FirstFit(hdr, TASK_STACK_SZ) :
         IF n = want THEN hdr' = h(b) /\ task' = [task EXCEPT ![q] = t(b)]
         ELSE hdr' = Freed(h(b), b) /\ UNCHANGED task
  BY DEF Fork
<1> HIDE DEF n, want, c, data
<1>4. HeapOK(hdr, bufs, task) /\ Chain(hdr) /\ Apart(hdr, {}) /\ TasksOK(task) /\ WmOK(wm, task)
  BY DEF IInv, HeapOK
<1>5. TakeOK(hdr, b, TASK_STACK_SZ, h(b))
  BY <1>4, StackSize, TakeFirst
<1>6. CASE n = want
  <2>1. hdr' = h(b) /\ task' = [task EXCEPT ![q] = t(b)]
    BY <1>3, <1>6
  <2>2. IsTask(t(b)) /\ t(b).stack = b
    <3> DEFINE d == Cardinality(data)
               t0 == Fresh(c, b, task[p].cap, d, 0)
               t1 == [t0 EXCEPT !.brk = task[p].brk]
               t2 == [t1 EXCEPT !.mmaps = task[p].mmaps]
               t3 == [t2 EXCEPT !.mmap_brk = task[p].mmap_brk]
    <3>1. t(b) = t3
      OBVIOUS
    <3> HIDE DEF d, t
    <3>2. IsTask(t0) /\ t0.stack = b
      BY DEF Fresh, IsTask
    <3> HIDE DEF t0
    <3>3. SameStack(t0, t1)
      BY <3>2, OneField
    <3> HIDE DEF t1
    <3>4. SameStack(t1, t2)
      BY <3>3, OneField DEF SameStack
    <3> HIDE DEF t2
    <3>5. SameStack(t2, t3)
      BY <3>4, OneField DEF SameStack
    <3> HIDE DEF t3
    <3> QED
      BY <3>1, <3>2, <3>3, <3>4, <3>5 DEF SameStack
  <2> HIDE DEF h, t
  <2>3. b \in Addrs
    BY <1>5 DEF TakeOK
  <2>4. PutOK(task, q, t(b), task')
    BY <2>1, <2>2, <2>3, <1>4, PutTask
  <2>5. HeapOK(hdr', bufs, task')
    BY <2>1, <2>2, <2>4, <1>2, <1>4, <1>5, NewStack
  <2>6. TasksOK(task') /\ WmOK(wm, task')
    BY <2>4, <1>2, <1>4 DEF PutOK, WmOK, Live
  <2> QED
    BY <2>5, <2>6, <1>1 DEF IInv
<1>7. CASE n # want
  <2>1. hdr' = Freed(h(b), b) /\ UNCHANGED task
    BY <1>3, <1>7
  <2>2. HeapOK(hdr', bufs, task)
    BY <2>1, <1>4, <1>5, TakenBack
  <2> QED
    BY <2>1, <2>2, <1>1, BuffersStep
<1> QED
  BY <1>6, <1>7

\* wait or the reaper frees the stack of a process that has exited.
LEMMA ReapStep ==
    ASSUME IInv, NEW p \in Procs, Reap(p)
    PROVE  IInv'
<1> DEFINE s == task[p].stack
           U == [task EXCEPT ![p] = NoTask]
<1>1. p \in Live(task) /\ task[p].zombie
  BY DEF Reap, Alive, Live
<1>2. /\ HeapOK(hdr, bufs, task) /\ Chain(hdr) /\ Apart(hdr, {}) /\ TasksOK(task)
      /\ WmOK(wm, task) /\ s \in Busy(hdr)
  BY <1>1, LiveStack DEF IInv, HeapOK
<1>3. hdr' = Freed(hdr, s) /\ task' = U /\ UNCHANGED <<bufs, wm>>
  BY DEF Reap
<1>4. FreeOK(hdr, s, hdr')
  BY <1>2, <1>3, FreeBusy
<1>5. U = [q \in Procs |-> IF q = p THEN NoTask ELSE task[q]]
  BY <1>2 DEF TasksOK
<1> HIDE DEF U
<1>6. U = [q \in Procs |-> U[q]] /\ U[p] = NoTask /\ \A q \in Procs \ {p} : U[q] = task[q]
  BY <1>5
<1>7. Live(U) = Live(task) \ {p} /\ \A q \in Live(U) : q \in Live(task) /\ q # p /\ U[q] = task[q]
  BY <1>6 DEF Live
<1>8. TasksOK(U)
  BY <1>2, <1>6, <1>7 DEF TasksOK
<1>9. \A q \in Live(task) : q # p => task[q].stack # s
  BY <1>1, <1>2 DEF HeapOK, StacksOK
<1>10. \A d \in bufs : d.at # s
  BY <1>1, <1>2 DEF HeapOK, StacksOK
<1> HIDE DEF s
<1>11. BuffersOK(hdr', bufs)
  BY <1>2, <1>4, <1>10 DEF HeapOK, BuffersOK, FreeOK
<1>12. StacksOK(hdr', bufs, U)
  <2>1. ASSUME NEW q \in Live(U)
        PROVE  U[q].stack \in Busy(hdr') /\ hdr'[U[q].stack].size >= TASK_STACK_SZ
    <3>1. task[q].stack \in Busy(hdr) /\ hdr[task[q].stack].size >= TASK_STACK_SZ
      BY <1>2, <1>7 DEF HeapOK, StacksOK
    <3> QED
      BY <3>1, <1>4, <1>7, <1>9 DEF FreeOK
  <2>2. \A q \in Live(U), d \in bufs : d.at # U[q].stack
    BY <1>2, <1>7 DEF HeapOK, StacksOK
  <2>3. \A q, r \in Live(U) : U[q].stack = U[r].stack => q = r
    BY <1>2, <1>7 DEF HeapOK, StacksOK
  <2> QED
    BY <2>1, <2>2, <2>3 DEF StacksOK
<1>13. \A x \in Busy(hdr') : (\E d \in bufs : d.at = x) \/ \E q \in Live(U) : U[q].stack = x
  <2> SUFFICES ASSUME NEW x \in Busy(hdr'), \A d \in bufs : d.at # x
               PROVE  \E q \in Live(U) : U[q].stack = x
    OBVIOUS
  <2>1. x \in Busy(hdr) /\ x # s
    BY <1>4 DEF FreeOK
  <2>2. PICK q \in Live(task) : task[q].stack = x
    BY <2>1, <1>2 DEF HeapOK
  <2>3. q # p
    BY <2>1, <2>2 DEF s
  <2> QED
    BY <2>2, <2>3, <1>7
<1>14. HeapOK(hdr', bufs, U)
  BY <1>4, <1>11, <1>12, <1>13 DEF HeapOK, FreeOK
<1>15. WmOK(wm, U)
  BY <1>1, <1>2, <1>7 DEF WmOK
<1> QED
  BY <1>3, <1>8, <1>14, <1>15 DEF IInv

\* A process that exits keeps its stack, but is not the window manager any more.
LEMMA ExitKeeps ==
    ASSUME IInv, NEW p \in Live(task), NEW t, IsTask(t), t.stack = task[p].stack, t.zombie = TRUE,
           task' = [task EXCEPT ![p] = t], HeapOK(hdr', bufs', task), wm' = wm \ {p}
    PROVE  IInv'
<1>1. TasksOK(task) /\ t.stack \in Addrs /\ p \in Procs
  BY LiveStack DEF IInv
<1>2. PutOK(task, p, t, task')
  BY <1>1, PutTask
<1>3. /\ Live(task') = Live(task) /\ \A q \in Live(task) : task'[q].stack = task[q].stack
      /\ TasksOK(task') /\ \A q \in Live(task) : q # p => task'[q] = task[q]
  BY <1>2 DEF PutOK, Live
<1>4. HeapOK(hdr', bufs', task')
  BY <1>3, SameStacks
<1>5. WmOK(wm', task')
  BY <1>3 DEF WmOK, IInv
<1> QED
  BY <1>3, <1>4, <1>5 DEF IInv

\* Buffers that are called something else.
Rename(B, R, f) == (B \ R) \cup {[c EXCEPT !.of = f] : c \in R}

LEMMA Renamed ==
    ASSUME NEW h, NEW B, NEW T, HeapOK(h, B, T), NEW R \in SUBSET B, NEW f
    PROVE  HeapOK(h, Rename(B, R, f), T)
<1> DEFINE C == (B \ R) \cup {[c EXCEPT !.of = f] : c \in R}
<1>1. ASSUME NEW c \in B
      PROVE  /\ IsBuffer(c) /\ IsBuffer([c EXCEPT !.of = f])
             /\ [c EXCEPT !.of = f].at = c.at /\ [c EXCEPT !.of = f].n = c.n
  <2>1. IsBuffer(c)
    BY DEF HeapOK, BuffersOK
  <2>2. [c EXCEPT !.of = f] = [at |-> c.at, n |-> c.n, of |-> f]
    BY <2>1 DEF IsBuffer
  <2> QED
    BY <2>1, <2>2 DEF IsBuffer
<1>2. ASSUME NEW c \in C
      PROVE  \E d \in B : /\ IsBuffer(c) /\ c.at = d.at /\ c.n = d.n
                          /\ (d \in R /\ c = [d EXCEPT !.of = f]) \/ (d \notin R /\ c = d)
  <2>1. CASE c \in B \ R
    BY <2>1, <1>1
  <2>2. CASE c \in {[d EXCEPT !.of = f] : d \in R}
    <3>1. PICK d \in R : c = [d EXCEPT !.of = f]
      BY <2>2
    <3>2. d \in B /\ IsBuffer(c) /\ c.at = d.at /\ c.n = d.n
      BY <3>1, <1>1
    <3> QED
      BY <3>1, <3>2
  <2> QED
    BY <2>1, <2>2
<1>3. ASSUME NEW d \in B PROVE \E c \in C : c.at = d.at
  <2>1. CASE d \in R
    <3>1. [d EXCEPT !.of = f] \in C /\ [d EXCEPT !.of = f].at = d.at
      BY <2>1, <1>1
    <3> QED
      BY <3>1
  <2>2. CASE d \notin R
    BY <2>2
  <2> QED
    BY <2>1, <2>2
<1> HIDE DEF C
<1>4. BuffersOK(h, C)
  <2>1. ASSUME NEW c \in C PROVE IsBuffer(c) /\ c.at \in Busy(h) /\ h[c.at].size >= c.n
    <3>1. PICK d \in B : IsBuffer(c) /\ c.at = d.at /\ c.n = d.n
      BY <1>2
    <3>2. d.at \in Busy(h) /\ h[d.at].size >= d.n
      BY DEF HeapOK, BuffersOK
    <3> QED
      BY <3>1, <3>2
  <2>2. ASSUME NEW c \in C, NEW e \in C, c.at = e.at PROVE c = e
    <3>1. PICK d \in B : /\ c.at = d.at
                         /\ (d \in R /\ c = [d EXCEPT !.of = f]) \/ (d \notin R /\ c = d)
      BY <1>2
    <3>2. PICK g \in B : /\ e.at = g.at
                         /\ (g \in R /\ e = [g EXCEPT !.of = f]) \/ (g \notin R /\ e = g)
      BY <1>2
    <3>3. d = g
      BY <3>1, <3>2, <2>2 DEF HeapOK, BuffersOK
    <3> QED
      BY <3>1, <3>2, <3>3
  <2> QED
    BY <2>1, <2>2 DEF BuffersOK
<1>5. StacksOK(h, C, T)
  <2>1. \A p \in Live(T), c \in C : c.at # T[p].stack
    <3>1. \A p \in Live(T), d \in B : d.at # T[p].stack
      BY DEF HeapOK, StacksOK
    <3>2. \A c \in C : \E d \in B : c.at = d.at
      BY <1>2
    <3> QED
      BY <3>1, <3>2
  <2> QED
    BY <2>1 DEF HeapOK, StacksOK
<1>6. \A x \in Busy(h) : (\E c \in C : c.at = x) \/ \E p \in Live(T) : T[p].stack = x
  BY <1>3 DEF HeapOK
<1>7. HeapOK(h, C, T)
  BY <1>4, <1>5, <1>6 DEF HeapOK
<1> QED
  BY <1>7 DEF C, Rename

LEMMA Exited ==
    ASSUME NEW t, IsTask(t), NEW x
    PROVE  LET u == [t EXCEPT !.zombie = x]
           IN  IsTask(u) /\ u.stack = t.stack /\ u.zombie = x
<1>1. [t EXCEPT !.zombie = x] =
         [stack |-> t.stack, zombie |-> x, pd |-> t.pd, brk |-> t.brk, mmaps |-> t.mmaps,
          mmap_brk |-> t.mmap_brk, opened |-> t.opened, cap |-> t.cap, rss |-> t.rss]
  BY DEF IsTask
<1> QED
  BY <1>1 DEF IsTask

\* task_exit_current of a client: nothing is freed yet.
LEMMA ExitClientStep ==
    ASSUME IInv, NEW p \in Procs, Running(p), ExitClient(p)
    PROVE  IInv'
<1> DEFINE t == [task[p] EXCEPT !.zombie = TRUE]
<1>1. p \in Live(task) /\ TasksOK(task) /\ IsTask(task[p])
  BY RunningIs DEF IInv, TasksOK
<1>2. task' = [task EXCEPT ![p] = t] /\ UNCHANGED <<hdr, bufs, wm>> /\ wm # {p}
  BY <1>1 DEF ExitClient, TasksOK
<1>3. IsTask(t) /\ t.stack = task[p].stack /\ t.zombie = TRUE
  BY <1>1, Exited
<1> HIDE DEF t
<1>4. wm' = wm \ {p}
  BY <1>2 DEF IInv, WmOK
<1>5. HeapOK(hdr', bufs', task)
  BY <1>2 DEF IInv
<1> QED
  BY <1>1, <1>2, <1>3, <1>4, <1>5, ExitKeeps

\* task_exit_current of the window manager: lists of pages are freed, and event rings
\* of windows that are closed are nobody's any more.
LEMMA ExitWmStep ==
    ASSUME IInv, NEW p \in Procs, Running(p), ExitWm(p)
    PROVE  IInv'
<1> DEFINE left == {s \in Slots : InUse(s) /\ ~Open(s)}
           lists == {c \in bufs : \E s \in left : c.of = PageList(s)}
           rings == {c \in bufs : \E s \in left : c.of = Events(s)}
           mapped == UNION {{SurfaceVa(s, i) : i \in DOMAIN win[s].pages} :
                               s \in {r \in Slots : InUse(r)}}
           x == Without(task[p].pd, mapped)
           z == [task[p] EXCEPT !.zombie = TRUE]
           t == [z EXCEPT !.pd = x]
           B == bufs \ lists
<1>1. p \in Live(task) /\ TasksOK(task) /\ IsTask(task[p])
  BY RunningIs DEF IInv, TasksOK
<1>2. /\ wm = {p} /\ wm' = {}
      /\ task' = [task EXCEPT ![p].zombie = TRUE, ![p].pd = Without(@, mapped)]
      /\ hdr' = FreedAll(hdr, At(lists))
      /\ bufs' = (bufs \ (lists \cup rings)) \cup {[c EXCEPT !.of = Forgotten] : c \in rings}
  BY DEF ExitWm, At
<1>3. lists \in SUBSET bufs /\ rings \in SUBSET B
  <2>1. \A s, r : PageList(s) # Events(r)
    BY DEF PageList, Events
  <2> QED
    BY <2>1
<1> HIDE DEF mapped, lists, rings
<1>4. task' = [task EXCEPT ![p] = t]
  BY <1>1, <1>2 DEF TasksOK, IsTask
<1> HIDE DEF x
<1>5. IsTask(t) /\ t.stack = task[p].stack /\ t.zombie = TRUE
  <2>1. IsTask(z) /\ z.stack = task[p].stack /\ z.zombie = TRUE
    BY <1>1, Exited
  <2> HIDE DEF z
  <2>2. IsTask(t) /\ t.stack = z.stack /\ t.zombie = z.zombie
    BY <2>1, OneField DEF SameStack
  <2> QED
    BY <2>1, <2>2
<1> HIDE DEF t
<1>6. HeapOK(hdr', B, task)
  <2>1. HeapOK(hdr, bufs, task)
    BY DEF IInv
  <2> QED
    BY <2>1, <1>2, <1>3, BuffersFreed
<1>7. bufs' = Rename(B, rings, Forgotten)
  <2>1. bufs \ (lists \cup rings) = B \ rings
    OBVIOUS
  <2> QED
    BY <2>1, <1>2 DEF Rename
<1> HIDE DEF B
<1>8. HeapOK(hdr', Rename(B, rings, Forgotten), task)
  BY <1>3, <1>6, Renamed
<1>9. wm' = wm \ {p}
  BY <1>2
<1> QED
  BY <1>1, <1>4, <1>5, <1>7, <1>8, <1>9, ExitKeeps

-----------------------------------------------------------------------------
(* The invariant holds                                                     *)

LEMMA InitInv ==
    ASSUME Init
    PROVE  IInv
<1>1. PICK p \in Procs :
         /\ hdr = Taken(OneBlock, 0, TASK_STACK_SZ) /\ bufs = {} /\ wm = {}
         /\ task = [q \in Procs |-> IF q = p THEN Fresh(Loaded({}), 0, 0, 0, 0) ELSE NoTask]
  BY DEF Init
<1> DEFINE d == Loaded({})
           t == Fresh(d, 0, 0, 0, 0)
<1>2. task = [q \in Procs |-> IF q = p THEN t ELSE NoTask]
  BY <1>1
<1> HIDE DEF d
<1>3. IsTask(t) /\ t.stack = 0 /\ 0 \in Addrs
  BY HeapAssumption DEF Fresh, IsTask, Addrs
<1>4. t # NoTask
  BY <1>3, NotNone
<1> HIDE DEF t
<1>5. task = [q \in Procs |-> task[q]] /\ task[p] = t /\ Live(task) = {p}
  BY <1>2, <1>4 DEF Live
<1>6. TasksOK(task) /\ WmOK(wm, task)
  BY <1>1, <1>3, <1>5 DEF TasksOK, WmOK
<1>7. /\ Chain(hdr) /\ Apart(hdr, {}) /\ Busy(hdr) = {0} /\ hdr[0].size >= TASK_STACK_SZ
  <2>1. /\ Chain(OneBlock) /\ Apart(OneBlock, {}) /\ Busy(OneBlock) = {}
        /\ 0 \in Marked(OneBlock) /\ OneBlock[0].free = TRUE
        /\ OneBlock[0].size >= TASK_STACK_SZ
    BY OneBlockSound, StackSize, HeapAssumption
  <2>2. /\ Chain(hdr) /\ Apart(hdr, {}) /\ hdr[0].size >= TASK_STACK_SZ
        /\ Busy(hdr) = Busy(OneBlock) \cup {0}
    BY <2>1, <1>1, StackSize, TakenSound
  <2> QED
    BY <2>1, <2>2
<1>8. BuffersOK(hdr, bufs) /\ StacksOK(hdr, bufs, task)
  BY <1>1, <1>3, <1>5, <1>7 DEF BuffersOK, StacksOK
<1>9. HeapOK(hdr, bufs, task)
  BY <1>3, <1>5, <1>7, <1>8 DEF HeapOK
<1> QED
  BY <1>6, <1>9 DEF IInv

LEMMA StepInv ==
    ASSUME IInv, [Next]_vars
    PROVE  IInv'
<1>1. ASSUME NEW n \in Buffers, KernelAlloc(n) PROVE IInv'
  BY <1>1, KernelAllocStep
<1>2. ASSUME NEW c \in bufs, KernelFree(c) PROVE IInv'
  BY <1>2, KernelFreeStep
<1>3. ASSUME NEW p \in Procs, NEW q \in Procs, Fork(p, q) PROVE IInv'
  BY <1>3, ForkStep
<1>4. ASSUME NEW p \in Procs, Exec(p) PROVE IInv'
  BY <1>4, ExecStep
<1>5. ASSUME NEW p \in Procs, Exit(p) PROVE IInv'
  BY <1>5, ExitWmStep, ExitClientStep DEF Exit
<1>6. ASSUME NEW p \in Procs, Reap(p) PROVE IInv'
  BY <1>6, ReapStep
<1>7. ASSUME NEW p \in Procs, NEW n \in Caps, SetLimit(p, n) PROVE IInv'
  BY <1>7, SetLimitStep
<1>8. ASSUME NEW p \in Procs, NEW n \in 0 .. HeapPages, Brk(p, n) PROVE IInv'
  BY <1>8, BrkStep
<1>9. ASSUME NEW p \in Procs, NEW n \in 1 .. MapPages, Mmap(p, n) PROVE IInv'
  BY <1>9, MmapStep
<1>10. ASSUME NEW p \in Procs, NEW i \in 0 .. (MapPages - 1), Fault(p, i) PROVE IInv'
  BY <1>10, FaultStep
<1>11. ASSUME NEW p \in Procs, Running(p), NEW m \in task[p].mmaps, Munmap(p, m) PROVE IInv'
  BY <1>11, MunmapStep
<1>12. CASE Windows
  <2>1. ASSUME NEW p \in Procs, WmBind(p) PROVE IInv'
    BY <2>1, WmBindStep
  <2>2. ASSUME NEW p \in Procs, NEW q \in Procs, NEW n \in 1 .. WM_MAX_PAGES_PER_WIN,
               WmCreate(p, q, n)
        PROVE  IInv'
    BY <2>2, WmCreateStep
  <2>3. ASSUME NEW p \in Procs, NEW s \in Slots, WmDestroy(p, s) PROVE IInv'
    BY <2>3, WmDestroyStep
  <2>4. ASSUME NEW p \in Procs, NEW s \in Slots, WmPop(p, s) PROVE IInv'
    BY <2>4, WmPopStep
  <2>5. ASSUME NEW s \in Slots, WmPushEvent(s) PROVE IInv'
    BY <2>5, WmPushEventStep
  <2> QED
    BY <1>12, <2>1, <2>2, <2>3, <2>4, <2>5 DEF Windows
<1>13. CASE UNCHANGED vars
  BY <1>13 DEF vars, IInv
<1> QED
  BY <1>1, <1>2, <1>3, <1>4, <1>5, <1>6, <1>7, <1>8, <1>9, <1>10, <1>11, <1>12, <1>13 DEF Next

\* The kernel stacks are as many as the processes.
LEMMA StacksCard ==
    ASSUME NEW T, NEW L \in SUBSET Procs, \A p, q \in L : T[p].stack = T[q].stack => p = q
    PROVE  Cardinality({T[p].stack : p \in L}) = Cardinality(L)
<1> DEFINE S == {T[p].stack : p \in L}
           f == [p \in L |-> T[p].stack]
<1>1. f \in Bijection(L, S)
  BY DEF Bijection, Injection, Surjection, IsInjective
<1>2. IsFiniteSet(L)
  BY MemAssumption, FS_Subset
<1> HIDE DEF f, S
<1>3. Cardinality(S) = Cardinality(L)
  BY <1>1, <1>2, FS_Bijection DEF ExistsBijection
<1> QED
  BY <1>3 DEF S

\* And no two buffers share a block.
LEMMA BuffersCard ==
    ASSUME NEW h, NEW B, NEW T, HeapOK(h, B, T)
    PROVE  Cardinality(At(B)) = Cardinality(B)
<1> DEFINE f == [c \in B |-> c.at]
<1>1. \A c, d \in B : c.at = d.at => c = d
  BY DEF HeapOK, BuffersOK
<1>2. f \in Bijection(B, At(B))
  BY <1>1 DEF Bijection, Injection, Surjection, IsInjective, At
<1>3. IsFiniteSet(B)
  <2>1. At(B) \subseteq Addrs
    BY DEF HeapOK, BuffersOK, At, Busy, Marked
  <2>2. IsFiniteSet(Addrs)
    BY HeapAssumption, FS_Interval DEF Addrs
  <2>3. IsFiniteSet(At(B))
    BY <2>1, <2>2, FS_Subset
  <2>4. f \in Injection(B, At(B))
    BY <1>2 DEF Bijection
  <2> HIDE DEF f
  <2> QED
    BY <2>3, <2>4, FS_Injection
<1> HIDE DEF f
<1> QED
  BY <1>2, <1>3, FS_Bijection DEF ExistsBijection

LEMMA HeapFromInv == IInv => HeapSound
<1> SUFFICES ASSUME IInv PROVE HeapSound
  OBVIOUS
<1> DEFINE stacks == {task[p].stack : p \in Owners}
<1>1. HeapOK(hdr, bufs, task)
  BY DEF IInv
<1>2. Owners = Live(task) /\ Live(task) \subseteq Procs
  BY DEF Owners, Live, Alive
<1>3. Cardinality(stacks) = Cardinality(Owners)
  <2>1. \A p, q \in Owners : task[p].stack = task[q].stack => p = q
    BY <1>1, <1>2 DEF HeapOK, StacksOK
  <2> QED
    BY <2>1, <1>2, StacksCard
<1>4. Tiled(hdr) /\ {b \in Blocks(hdr) : ~hdr[b].free} = Busy(hdr)
  BY <1>1, TiledIs DEF HeapOK
<1>5. ASSUME NEW b \in stacks
      PROVE  b \in Busy(hdr) /\ hdr[b].size >= TASK_STACK_SZ /\ b \notin At(bufs)
  BY <1>1, <1>2 DEF HeapOK, StacksOK, At
<1>6. Cardinality(At(bufs)) = Cardinality(bufs)
  BY <1>1, BuffersCard
<1>7. At(bufs) \subseteq Busy(hdr) /\ \A c \in bufs : hdr[c.at].size >= c.n
  BY <1>1 DEF HeapOK, BuffersOK, At
<1>8. Busy(hdr) \subseteq stacks \cup At(bufs)
  BY <1>1, <1>2 DEF HeapOK, At
<1> HIDE DEF stacks
<1>9. Busy(hdr) = stacks \cup At(bufs) /\ stacks \cap At(bufs) = {}
  BY <1>5, <1>7, <1>8
<1> QED
  BY <1>3, <1>4, <1>5, <1>6, <1>7, <1>9 DEF HeapSound, At, stacks

-----------------------------------------------------------------------------
(* The theorems                                                            *)

\* The blocks of the kernel heap tile it and belong to exactly the stacks, windows
\* and other buffers, and the window manager is a process that has not exited.
\* Every operation keeps it, those that fail half way included.
THEOREM Invariance == Spec => []IInv
<1>1. Init => IInv
  BY InitInv
<1>2. IInv /\ [Next]_vars => IInv'
  BY StepInv
<1> QED
  BY <1>1, <1>2, PTL DEF Spec

\* kmalloc and kfree keep the heap whole: its blocks tile it, each names both its
\* neighbours, no two neighbours are both free, each kernel stack and buffer has a
\* block of its own that is large enough, and no block is lost, not even by a
\* task_fork or wm_create_window that fails.
THEOREM HeapStaysSound == Spec => []HeapSound
BY Invariance, HeapFromInv, PTL

=============================================================================
