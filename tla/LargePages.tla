----------------------------- MODULE LargePages -----------------------------
(***************************************************************************)
(* The second-level tables of the two x86 backends where they hold 2 MiB   *)
(* leaves beside 4 KiB ones: npt.c, and the calls of ept.c that Ept.tla    *)
(* leaves out because nothing calls them yet (map_range, map_huge_page,    *)
(* map_guest_ram_4kb and map_guest_ram_huge).  The two files are the same  *)
(* code but for how a 2 MiB leaf gets its address and for what             *)
(* map_guest_ram_huge does with a 2 MiB block.                             *)
(*                                                                         *)
(* Addresses are counted in pages; a table has Fan entries.  The slot      *)
(* <<l, n>> is the n-th entry of level l (4 the PML4, 1 a page table).     *)
(* Each page step holds the lock and is one action; any allocation may     *)
(* fail.  The callers are external: they map each RAM region to its one    *)
(* backing, with any of the calls, in any order, and again after a         *)
(* failure.  Attribute bits are left out.                                  *)
(***************************************************************************)
EXTENDS Integers, FiniteSets

CONSTANTS
    LpCallers,  \* threads that call these files
    Fan,        \* NPT_ENTRIES_PER_TABLE
    Banks,      \* RAM regions: gpa, hpa and size in pages
    Windows,    \* pages of the reserved MMIO windows
    MaxTables,  \* table pages the allocator can give
    PageShift,  \* NPT_PAGE_SHIFT_4KB, 12 in the code
    AddrTop,    \* the bit above the address in an entry, 52 in the code
    WordBits    \* the width of an entry, 64 in the code

ASSUME LargePagesAssumption ==
    /\ Fan \in Nat \ {0, 1} /\ MaxTables \in Nat \ {0}
    /\ 0 < PageShift /\ PageShift < AddrTop /\ AddrTop < WordBits
    /\ \A r, s \in Banks : r # s => r.gpa + r.size <= s.gpa \/ s.gpa + s.size <= r.gpa
    /\ \A r \in Banks : r.size > 0 /\ r.gpa + r.size <= Fan ^ 4
                        /\ r.hpa + r.size <= 2 ^ (AddrTop - PageShift)

VARIABLES
    backend,  \* "ept" or "npt"
    root,     \* whether there is a context with its PML4
    slot,     \* the entries of the tables
    count,    \* stats; below zero the code's uint64_t wraps
    taken,    \* table pages allocated and not freed
    job,      \* what each caller is doing
    listed,   \* the regions mapped, with the call that did it
    mix       \* history: "none", or what happened to a block of two sizes

lpVars == <<backend, root, slot, count, taken, job, listed, mix>>

None == -1
Table == -2
Idle == [op |-> "idle"]
Ops == {"range", "ram_4kb", "ram_huge"}

Span(l) == Fan ^ (l - 1)
Slots == UNION {{<<l, n>> : n \in 0 .. Fan ^ (5 - l) - 1} : l \in 1 .. 4}
Gpages == 0 .. Fan ^ 4 - 1
Hpages == 0 .. 2 ^ (AddrTop - PageShift) - 1

NoCount == [pages_4kb |-> 0, pages_2mb |-> 0, total_mapped |-> 0]

\* Type invariant. The tree, its statistics and the callers.
LpTypeOK ==
    /\ backend \in {"ept", "npt"} /\ root \in BOOLEAN
    /\ slot \in [Slots -> {None, Table} \cup Hpages]
    /\ \A k \in DOMAIN NoCount : count[k] \in Int
    /\ taken \in 0 .. MaxTables
    /\ \A c \in LpCallers : job[c].op \in {"idle"} \cup Ops
    /\ listed \subseteq Banks \X Ops /\ mix \in {"none", "detached", "astray"}

LpInit ==
    /\ backend \in {"ept", "npt"} /\ root = FALSE
    /\ slot = [s \in Slots |-> None] /\ count = NoCount /\ taken = 0
    /\ job = [c \in LpCallers |-> Idle] /\ listed = {} /\ mix = "none"

----------------------------------------------------------------------------
(* The context. *)

\* relm_setup_npt and relm_npt_context_create: an empty PML4.
relm_npt_context_create ==
    /\ ~root /\ taken < MaxTables
    /\ root' = TRUE /\ taken' = taken + 1
    /\ slot' = [s \in Slots |-> None] /\ count' = NoCount
    /\ UNCHANGED <<backend, job, listed, mix>>

\* relm_npt_free_table: the entries that are neither empty nor 2 MiB leaves
\* are followed down to the page tables.
LinkedTables == {s \in Slots : slot[s] = Table}

\* Mutant: the recursion ends one level too early.
relm_npt_context_destroy_Mut ==
    /\ root /\ mix # "astray" /\ \A c \in LpCallers : job[c] = Idle
    /\ root' = FALSE
    /\ taken' = taken - 1 - Cardinality({s \in LinkedTables : s[1] > 2})
    /\ slot' = [s \in Slots |-> None] /\ listed' = {}
    /\ UNCHANGED <<backend, count, job, mix>>

\* relm_destroy_vm, when nobody uses the context any more.
relm_npt_context_destroy ==
    /\ root /\ mix # "astray" /\ \A c \in LpCallers : job[c] = Idle
    /\ root' = FALSE
    /\ taken' = taken - 1 - Cardinality(LinkedTables)
    /\ slot' = [s \in Slots |-> None] /\ listed' = {}
    /\ UNCHANGED <<backend, count, job, mix>>

----------------------------------------------------------------------------
(* One page or one block. *)

At(p, l) == <<l, p \div Span(l)>>

\* The levels above the leaf whose entry relm_npt_get_or_create_table has to
\* fill with a new table.
Absent(p, leaf) == {l \in leaf + 1 .. 4 : \E k \in l .. 4 : slot[At(p, k)] = None}

\* The walk to a page's entry follows a 2 MiB leaf as if it were a table: it
\* tests the present bit only.
IntoBlock(p) == slot[At(p, 2)] >= 0

\* The count of a leaf that is new (d = 1) or gone (d = -1).
Counted(leaf, d) ==
    [pages_4kb |-> count.pages_4kb + (IF leaf = 1 THEN d ELSE 0),
     pages_2mb |-> count.pages_2mb + (IF leaf = 2 THEN d ELSE 0),
     total_mapped |-> count.total_mapped + d * Span(leaf)]

\* relm_npt_map_page (leaf 1) or relm_npt_map_huge_page (leaf 2) when the
\* allocator gives the first n tables it needs.  An entry that is present is
\* overwritten and not counted, also when it is a table.
relm_npt_map_page(p, e, leaf, n) ==
    LET all  == Absent(p, leaf)
        made == {l \in all : Cardinality({k \in all : k >= l}) <= n}
        done == n = Cardinality(all)
        at   == At(p, leaf)
        lost == done /\ slot[at] = Table
    IN  /\ slot' = [s \in Slots |->
              IF done /\ s = at THEN e
              ELSE IF s[1] \in made /\ s = At(p, s[1]) THEN Table
              ELSE IF lost /\ s[1] = 1 /\ s[2] \div Fan = at[2] THEN None
              ELSE slot[s]]
        /\ taken' = taken + n
        /\ count' = IF done /\ slot[at] = None THEN Counted(leaf, 1) ELSE count
        /\ mix' = IF lost THEN "detached" ELSE mix

\* A word of memory that is not a table is read as an entry, and written.
Stray(d) ==
    /\ mix' = "astray" /\ count' \in {count, Counted(1, d)}
    /\ UNCHANGED <<slot, taken>>

----------------------------------------------------------------------------
(* The calls that map a region. *)

PagesOf(r) == r.gpa .. r.gpa + r.size - 1

\* Mutant: the host address does not advance with the guest's.
Hpa_Mut(r, p) == r.hpa

Hpa(r, p) == r.hpa + (p - r.gpa)

\* The address bits of a 2 MiB leaf: ept.c multiplies the host address with
\* EPT_ADDR_MASK where npt.c takes the bits under the mask.
HugeAddr(h) ==
    IF backend = "npt" THEN h
    ELSE (((h * 2 ^ PageShift * (2 ^ AddrTop - 2 ^ PageShift)) % 2 ^ WordBits) % 2 ^ AddrTop)
            \div 2 ^ PageShift

\* Mutant: only the first page of the range is looked up.
npt_range_overlaps_mmio_Mut(p, n) == p \in Windows

npt_range_overlaps_mmio(p, n) == (p .. p + n - 1) \cap Windows # {}

\* A call for region r starts; only the map_guest_ram calls skip the windows.
\* "set" is whether the variable ret has a value.
CallMap(c, op, r) ==
    /\ root /\ mix # "astray" /\ job[c] = Idle
    /\ op = "range" => PagesOf(r) \cap Windows = {}
    /\ job' = [job EXCEPT ![c] = [op |-> op, r |-> r, p |-> r.gpa, chunk |-> 0, set |-> FALSE]]
    /\ UNCHANGED <<backend, root, slot, count, taken, listed, mix>>

\* The loop goes on at page p, or the call returns 0; the call fails.
GoOn(c, p, chunk, set) ==
    LET r == job[c].r
    IN  IF p < r.gpa + r.size
        THEN /\ job' = [job EXCEPT ![c].p = p, ![c].chunk = chunk, ![c].set = set]
             /\ UNCHANGED listed
        ELSE /\ job' = [job EXCEPT ![c] = Idle]
             /\ listed' = listed \cup {<<r, job[c].op>>}

Return(c) == job' = [job EXCEPT ![c] = Idle] /\ UNCHANGED listed

\* Mutant: the loop goes on when a page could not be mapped.
MapLeaf_Mut(c, p, e, leaf, chunk) ==
    \E n \in 0 .. Cardinality(Absent(p, leaf)) :
        /\ taken + n <= MaxTables
        /\ relm_npt_map_page(p, e, leaf, n)
        /\ GoOn(c, p + Span(leaf), chunk, TRUE)

\* The leaf of page p, and where the loop goes on.
MapLeaf(c, p, e, leaf, chunk) ==
    \E n \in 0 .. Cardinality(Absent(p, leaf)) :
        /\ taken + n <= MaxTables
        /\ relm_npt_map_page(p, e, leaf, n)
        /\ IF n = Cardinality(Absent(p, leaf)) THEN GoOn(c, p + Span(leaf), chunk, TRUE)
           ELSE Return(c)

\* One round of the loop of relm_npt_map_range or map_guest_ram_4kb.
relm_npt_map_guest_ram_4kb(c, chunk) ==
    LET p == job[c].p
    IN  IF job[c].op # "range" /\ npt_range_overlaps_mmio(p, 1)
        THEN GoOn(c, p + 1, chunk, TRUE) /\ UNCHANGED <<slot, count, taken, mix>>
        ELSE IF IntoBlock(p) THEN Stray(1) /\ Return(c)
        ELSE MapLeaf(c, p, Hpa(job[c].r, p), 1, chunk)

\* A whole block in npt.c: the call that would map it is not there, and what
\* is tested is ret, which has no value yet in the first round.
SkipBlock(c) ==
    /\ \/ GoOn(c, job[c].p + Fan, 0, job[c].set)
       \/ ~job[c].set /\ Return(c)
    /\ UNCHANGED <<slot, count, taken, mix>>

SmallerOf(m, n) == IF m < n THEN m ELSE n

\* One round of relm_npt_map_guest_ram_huge and relm_ept_map_guest_ram_huge.
relm_npt_map_guest_ram_huge(c) ==
    LET p    == job[c].p
        h    == Hpa(job[c].r, p)
        left == job[c].r.gpa + job[c].r.size - p
    IN  IF job[c].chunk > 0 THEN relm_npt_map_guest_ram_4kb(c, job[c].chunk - 1)
        ELSE IF p % Fan = 0 /\ h % Fan = 0 /\ left >= Fan /\ ~npt_range_overlaps_mmio(p, Fan)
        THEN IF backend = "npt" THEN SkipBlock(c) ELSE MapLeaf(c, p, HugeAddr(h), 2, 0)
        ELSE relm_npt_map_guest_ram_4kb(c, SmallerOf(left, Fan - (p % Fan)) - 1)

MapRound(c) ==
    /\ job[c].op \in Ops /\ mix # "astray"
    /\ IF job[c].op = "ram_huge" THEN relm_npt_map_guest_ram_huge(c)
       ELSE relm_npt_map_guest_ram_4kb(c, 0)
    /\ UNCHANGED <<backend, root>>

----------------------------------------------------------------------------
(* Single pages and blocks of a region. *)

\* A single block outside the windows.
relm_npt_map_huge_page(c, r, p) ==
    /\ root /\ mix # "astray" /\ job[c] = Idle
    /\ p % Fan = 0 /\ Hpa(r, p) % Fan = 0
    /\ p .. p + Fan - 1 \subseteq PagesOf(r) \ Windows
    /\ \E n \in 0 .. Cardinality(Absent(p, 2)) :
          taken + n <= MaxTables /\ relm_npt_map_page(p, HugeAddr(Hpa(r, p)), 2, n)
    /\ UNCHANGED <<backend, root, job, listed>>

\* relm_npt_unmap_page, of a page that no call is mapping.
relm_npt_unmap_page(c, r, p) ==
    /\ root /\ mix # "astray" /\ job[c] = Idle /\ p \in PagesOf(r)
    /\ ~ \E d \in LpCallers : job[d] # Idle /\ job[d].r = r
    /\ IF IntoBlock(p) THEN Stray(-1)
       ELSE /\ slot[At(p, 1)] >= 0
            /\ slot' = [slot EXCEPT ![At(p, 1)] = None] /\ count' = Counted(1, -1)
            /\ UNCHANGED <<taken, mix>>
    /\ listed' = {x \in listed : x[1] # r}
    /\ UNCHANGED <<backend, root, job>>

\* After a stray access nothing is known of the kernel's memory.
AfterStray == mix = "astray" /\ UNCHANGED lpVars

LpNext ==
    \/ relm_npt_context_create \/ relm_npt_context_destroy \/ AfterStray
    \/ \E c \in LpCallers :
          \/ MapRound(c)
          \/ \E r \in Banks :
                \/ \E op \in Ops : CallMap(c, op, r)
                \/ \E p \in PagesOf(r) : relm_npt_map_huge_page(c, r, p) \/ relm_npt_unmap_page(c, r, p)

LpSpec == LpInit /\ [][LpNext]_lpVars

----------------------------------------------------------------------------
(* Properties. *)

\* What the hardware finds for a page, None when it faults.
Seen(p) ==
    IF IntoBlock(p) THEN slot[At(p, 2)] + (p % Fan) ELSE slot[At(p, 1)]

\* Page p is as far into the backing of region r as into r.
LeadsTo(r, p) == Seen(p) - r.hpa = p - r.gpa

\* However the calls of several threads interleave and fail, a page table's
\* entry leads to the page its region gives it, and a reserved window stays
\* unmapped, so that it traps; a 2 MiB leaf covers pages of one region.
LeavesLead ==
    \A p \in Gpages : Seen(p) # None =>
        /\ p \notin Windows
        /\ \E r \in Banks :
              p \in PagesOf(r) /\ (LeadsTo(r, p) \/ (backend = "ept" /\ IntoBlock(p)))

\* A region that map_range or map_guest_ram_4kb mapped (returned 0) is mapped
\* but for its windows, until a page of it is unmapped or a block of it gets
\* leaves of both sizes.
MappedWhenListed ==
    \A x \in listed : x[2] # "ram_huge" =>
        mix # "none" \/ \A p \in PagesOf(x[1]) \ Windows : Seen(p) # None

\* Until then the statistics count the leaves and every table page allocated
\* hangs in the tree, where relm_npt_free_table finds it: a call that ran out
\* of memory half-way loses none.
LpAccounted ==
    mix = "none" =>
        /\ taken = IF root THEN 1 + Cardinality(LinkedTables) ELSE 0
        /\ root => /\ count.pages_4kb = Cardinality({s \in Slots : s[1] = 1 /\ slot[s] >= 0})
                   /\ count.pages_2mb = Cardinality({s \in Slots : s[1] = 2 /\ slot[s] >= 0})
                   /\ count.total_mapped = count.pages_4kb + Fan * count.pages_2mb

\* The three together: the tables with leaves of two sizes hold what the calls
\* that returned 0 put there, count it, and lose nothing.
TwoSizesExact == LeavesLead /\ MappedWhenListed /\ LpAccounted

----------------------------------------------------------------------------
(* Claims of comments and documents that the code does not meet. *)

\* ept.c:643 and npt.c:513 print "Guest RAM mapped (huge-preferred)" when
\* map_guest_ram_huge returns 0.  In ept.c the blocks lead elsewhere, in npt.c
\* they are not mapped.
HugeRamIsMapped ==
    \A x \in listed : mix = "none" =>
        \A p \in PagesOf(x[1]) \ Windows : LeadsTo(x[1], p)

\* ept.c:788: "walk EPT tables to find the HPA of given GPA", and unmap_page
\* "walks EPT table to find the leaf entry"; a walk that comes upon a 2 MiB
\* leaf goes on into the memory behind it.
WalkStaysInTables == mix # "astray"
=============================================================================
