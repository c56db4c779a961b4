------------------------------- MODULE Paging -------------------------------
(***************************************************************************)
(* Physical pages (kernel/pmm.c) and page directories (kernel/paging.c).   *)
(*                                                                         *)
(* An address space is a function from places to pages.  A place is a pair *)
(* of a directory entry and an entry of its table, as in PD_INDEX and      *)
(* PT_INDEX: <<i, -1>> is where the address of table i stands, Dir where   *)
(* that of the directory itself.  The tables are 0 for the image, its      *)
(* stack and the first part of the heap, 1 for the rest of the heap, 2 for *)
(* the mmap window, 3 for window surfaces, and 4 for the devices that the  *)
(* kernel maps.                                                            *)
(***************************************************************************)
EXTENDS Integers, FiniteSets

CONSTANTS
    NPages,                 \* physical pages; page 0 is never given out
    HeapLow,                \* heap pages below the first boundary between tables
    WM_MAX_PAGES_PER_WIN    \* pages of address space for a surface

ASSUME PagingAssumption ==
    NPages \in Nat /\ NPages >= 4 /\ HeapLow \in Nat /\ WM_MAX_PAGES_PER_WIN \in Nat \ {0}

Pages == 1 .. (NPages - 1)

\* What is not the allocator's: the kernel's own table, and device memory.
KernelTable == NPages
Device == NPages + 1
Framebuffer == NPages + 2

Dir == <<-1, -1>>
Table(i) == <<i, -1>>
Image == <<0, 0>>                       \* the page of code, data and stack
HeapVa(i) == IF i < HeapLow THEN <<0, 1 + i>> ELSE <<1, i - HeapLow>>
MapVa(i) == <<2, i>>
SurfaceVa(k, i) == <<3, k * WM_MAX_PAGES_PER_WIN + i>>
DeviceVa == <<4, 0>>
FramebufferVa == <<4, 1>>

IsData(k) == k[2] >= 0
Values(f) == {f[k] : k \in DOMAIN f}

\* Function f with g instead at the places of g; f without the places S.
Over(f, g) == [k \in DOMAIN f \cup DOMAIN g |-> IF k \in DOMAIN g THEN g[k] ELSE f[k]]
Without(f, S) == [k \in DOMAIN f \ S |-> f[k]]

-----------------------------------------------------------------------------
(* pmm.c                                                                   *)

\* What the next k calls of pmm_alloc_page return: the lowest free pages.
Lowest(u, k) ==
    LET free == Pages \ u
    IN  [i \in 1 .. k |-> CHOOSE g \in free : Cardinality({f \in free : f < g}) = i - 1]
Available(u) == Cardinality(Pages \ u)
Alloc(u) == Lowest(u, 1)[1]

-----------------------------------------------------------------------------
(* paging.c                                                                *)

\* paging_map_in: the table is made if it is missing, and failure is failure to
\* make it.  An old entry is overwritten.
CanMap(u, d, va) == Table(va[1]) \in DOMAIN d \/ Available(u) >= 1
Mapped(u, d, va, page) ==
    Over(IF Table(va[1]) \in DOMAIN d THEN d
         ELSE Over(d, [k \in {Table(va[1])} |-> Alloc(u)]),
         [k \in {va} |-> page])

\* What paging_destroy_user_pd frees: all that the directory leads to, but for
\* tables that are still the kernel's, and for the framebuffer.
Reached(d) ==
    {k \in DOMAIN d :
        /\ k = Dir \/ d[Table(k[1])] # KernelTable
        /\ d[k] # Framebuffer}
Space(d) == {d[k] : k \in Reached(d)}

\* paging_create_user_pd: a directory that refers to the kernel's table.
Created(page) ==
    [k \in {Dir, Table(4), DeviceVa, FramebufferVa} |->
        CASE k = Dir -> page
          [] k = Table(4) -> KernelTable
          [] k = DeviceVa -> Device
          [] k = FramebufferVa -> Framebuffer]

\* elf_load: a directory, a page of the image, and its table.
Loaded(u) ==
    LET new == Lowest(u, 3)
    IN  Over(Created(new[1]), [k \in {Image, Table(0)} |-> IF k = Image THEN new[2] ELSE new[3]])

\* What paging_clone_user_pd makes a copy of: the directory, all tables, those of
\* the kernel too, and every page but the framebuffer's.
Copied(d) == {k \in DOMAIN d : IsData(k) => d[k] # Framebuffer}

\* When: one table after the other, each before its pages.
Before(k, l) == k[1] < l[1] \/ (k[1] = l[1] /\ k[2] <= l[2])
Turn(d, k) == Cardinality({l \in Copied(d) : Before(l, k)})

\* Mutant of Clone: the child's tables are new, but lead to the parent's pages.
CloneShared(u, d, n) ==
    LET new == Lowest(u, n)
    IN  [k \in {l \in Copied(d) : Turn(d, l) <= n} |->
            IF IsData(k) THEN d[k] ELSE new[Turn(d, k)]]

\* The copy when n pages could be had for it.
Clone(u, d, n) ==
    LET new == Lowest(u, n)
    IN  [k \in {l \in Copied(d) : Turn(d, l) <= n} |-> new[Turn(d, k)]]

=============================================================================
