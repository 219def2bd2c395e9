------------------------------- MODULE Stage2 -------------------------------
(***************************************************************************)
(* The arm64 stage-2 tables (stage2.c): the runtime that registers the     *)
(* host's limits, the context of a VM, and the calls that map and unmap    *)
(* 4 KiB pages and 2 MiB blocks in one tree.                               *)
(*                                                                         *)
(* Addresses are counted in pages; a table has Fan entries.  The slot      *)
(* <<l, n>> is the n-th entry of level l, wherever its table was put: a    *)
(* table has one parent entry.  Every page step takes stage2->lock, so it  *)
(* is one action, and calls of several threads interleave between steps.   *)
(* Any allocation may fail.  The callers of this file are not written yet  *)
(* (nor does the arm64 target compile): they are external, and map each    *)
(* RAM region to its one backing, with any of the calls, in any order, and *)
(* again after a failure.  Attribute bits are left out; every caller asks  *)
(* for READ, without which s2_map refuses.                                 *)
(***************************************************************************)
EXTENDS Integers, FiniteSets

CONSTANTS
    Callers,     \* threads that call this file
    Fan,         \* S2_ENTRIES_PER_TABLE
    StartLevel,  \* the level of the root, 1 for S2_DEFAULT_IPA_BITS
    PaPages,     \* pages of the host's physical space
    Regions,     \* RAM regions of the VM: ipa, pa and size in pages
    Windows,     \* pages of the reserved MMIO windows
    HostIds,     \* ID-register values a runtime may register
    VmIds,       \* values of vm->vm_id
    MaxTables    \* table pages the allocator can give

MapOps == {"map_range", "ram_4kb", "ram_huge"}
Invalid == -1
Table == -2
NoCall == [op |-> "idle"]
NoLimits == [ipa_bits |-> 0]
NoContext == [vmid |-> 0]
NoStats == [pages_4kb |-> 0, pages_2mb |-> 0, total_mapped |-> 0]

Levels == StartLevel .. 3
s2_level_size(l) == Fan ^ (3 - l)
IpaPages == Fan ^ (4 - StartLevel)
Slots == UNION {{<<l, n>> : n \in 0 .. (IpaPages \div s2_level_size(l)) - 1} : l \in Levels}

ASSUME Stage2Assumption ==
    /\ Fan \in Nat \ {0, 1} /\ StartLevel \in {0, 1} /\ PaPages \in Nat /\ MaxTables \in Nat
    /\ \A r, s \in Regions : r # s => r.ipa + r.size <= s.ipa \/ s.ipa + s.size <= r.ipa
    /\ \A r \in Regions : r.size > 0

VARIABLES
    limits,   \* s2_limits, or NoLimits while s2_runtime_ready is false
    stage2,   \* vm->arch.stage2: its geometry and VMID, or NoContext
    entry,    \* the descriptors of the tree
    stats,    \* stage2->stats; below zero the code's u64 wraps
    tables,   \* table pages taken from the allocator and not given back
    call,     \* what each caller is doing
    listed,   \* regions whose last map call succeeded
    stuck,    \* a callback that is NULL was called with the lock held
    mixed     \* history: a map changed the granularity of a block

\* Type invariant. The runtime, the context with its tree, and the callers.
TypeOK ==
    /\ limits = NoLimits \/ limits.ipa_bits \in 32 .. 48
    /\ stage2 = NoContext \/ stage2.vmid \in VmIds
    /\ entry \in [Slots -> {Invalid, Table} \cup 0 .. PaPages - 1]
    /\ stats \in [pages_4kb : Int, pages_2mb : Int, total_mapped : Int]
    /\ tables \in 0 .. MaxTables
    /\ \A c \in Callers : call[c].op \in {"idle", "setup", "unmap"} \cup MapOps
    /\ listed \subseteq Regions /\ stuck \in BOOLEAN /\ mixed \in BOOLEAN

vars == <<limits, stage2, entry, stats, tables, call, listed, stuck, mixed>>
tree == <<entry, stats, tables, mixed>>

Init ==
    /\ limits = NoLimits /\ stage2 = NoContext
    /\ entry = [s \in Slots |-> Invalid] /\ stats = NoStats /\ tables = 0
    /\ call = [c \in Callers |-> NoCall] /\ listed = {}
    /\ stuck = FALSE /\ mixed = FALSE

----------------------------------------------------------------------------
(* Geometry. *)

s2_pa_encoding(bits) == bits \in {32, 36, 40, 42, 44, 48}

s2_start_level(ipa_bits) == IF ipa_bits <= 39 THEN 1 ELSE 0

s2_geometry_valid(g) ==
    /\ g.ipa_bits \in 32 .. 48 /\ s2_pa_encoding(g.pa_bits)
    /\ g.start_level = s2_start_level(g.ipa_bits)
    /\ g.vmid_bits \in {8, 16}

\* PARange is an index; widths above 48 are cut to what the descriptors hold.
pa_widths == [k \in 0 .. 7 |-> <<32, 36, 40, 42, 44, 48, 52, 56>>[k + 1]]

Supported(id) ==
    /\ id.el2 \in {1, 2} /\ id.pa \in DOMAIN pa_widths /\ id.vmids \in {0, 2}
    /\ IF id.granule2 = 0 THEN id.granule \in {0, 1} ELSE id.granule2 \in {2, 3}

\* Mutant: widths above 48 bits are taken as they are.
s2_decode_limits_Mut(id) ==
    [ipa_bits |-> pa_widths[id.pa], pa_bits |-> pa_widths[id.pa],
     start_level |-> s2_start_level(pa_widths[id.pa]),
     vmid_bits |-> IF id.vmids = 2 THEN 16 ELSE 8]

s2_decode_limits(id) ==
    LET pa == IF pa_widths[id.pa] > 48 THEN 48 ELSE pa_widths[id.pa]
    IN  [ipa_bits |-> pa, pa_bits |-> pa, start_level |-> s2_start_level(pa),
         vmid_bits |-> IF id.vmids = 2 THEN 16 ELSE 8]

Ready == limits # NoLimits

relm_stage2_register_runtime ==
    /\ ~Ready
    /\ \E id \in HostIds : Supported(id) /\ limits' = s2_decode_limits(id)
    /\ UNCHANGED <<stage2, tree, call, listed, stuck>>

\* The callbacks are cleared whether or not a context still exists.
relm_stage2_unregister_runtime ==
    /\ limits' = NoLimits
    /\ UNCHANGED <<stage2, tree, call, listed, stuck>>

\* relm_stage2_choose_geometry for S2_DEFAULT_IPA_BITS.
relm_stage2_choose_geometry ==
    [limits EXCEPT !.ipa_bits = 39, !.start_level = s2_start_level(39)]

s2_range_fits(p, n, pages) == p >= 0 /\ p < pages /\ n <= pages - p

Busy(c) == call[c] # NoCall

\* relm_setup_stage2 up to the choice of the geometry; config_lock admits one
\* caller.
SetupStart(c) ==
    /\ ~Busy(c) /\ stage2 = NoContext /\ \A d \in Callers : call[d].op # "setup"
    /\ Ready /\ 39 <= limits.ipa_bits
    /\ call' = [call EXCEPT ![c] = [op |-> "setup", g |-> relm_stage2_choose_geometry]]
    /\ UNCHANGED <<limits, stage2, tree, listed, stuck>>

\* Mutant: any geometry the registers can hold is accepted.
Accepted_Mut(g, vmid) == Ready

\* The checks of relm_stage2_context_create, against the limits of now.
Accepted(g, vmid) ==
    /\ s2_geometry_valid(g) /\ ~(g.vmid_bits = 8 /\ vmid > 255)
    /\ Ready /\ g.ipa_bits <= limits.ipa_bits /\ g.pa_bits <= limits.pa_bits
    /\ g.vmid_bits <= limits.vmid_bits

\* The rest of relm_setup_stage2: the regions, the context and its root.
SetupCreate(c) ==
    /\ call[c].op = "setup"
    /\ call' = [call EXCEPT ![c] = NoCall]
    /\ \/ \E vmid \in VmIds :
             /\ Accepted(call[c].g, vmid) /\ tables < MaxTables
             /\ \A r \in Regions : s2_range_fits(r.ipa, r.size, IpaPages)
             /\ stage2' = [g |-> call[c].g, vmid |-> vmid]
             /\ entry' = [s \in Slots |-> Invalid] /\ stats' = NoStats
             /\ tables' = tables + 1 /\ UNCHANGED mixed
       \/ UNCHANGED <<stage2, tree>>
    /\ UNCHANGED <<limits, listed, stuck>>

----------------------------------------------------------------------------
(* The tree. *)

\* The entry of a level on the walk of page p, and whether slot s is below it.
Slot(p, l) == <<l, p \div s2_level_size(l)>>
Below(s, l, p) == s[1] > l /\ s[2] \div Fan ^ (s[1] - l) = p \div s2_level_size(l)

\* What a detached table held is forgotten, so every entry that is not Invalid
\* hangs from the root.
IsLeaf(s) == entry[s] >= 0
Leaves(l) == {s \in Slots : s[1] = l /\ IsLeaf(s)}
LinkedTables == {s \in Slots : entry[s] = Table}

\* s2_walk and relm_stage2_get_mapping: the leaf that covers p and the page
\* it translates to.
LeafLevels(p) == {l \in Levels : IsLeaf(Slot(p, l))}
Mapped(p) == LeafLevels(p) # {}
LeafLevel(p) == CHOOSE l \in LeafLevels(p) : TRUE
relm_stage2_get_mapping(p) ==
    entry[Slot(p, LeafLevel(p))] + (p % s2_level_size(LeafLevel(p)))

\* The levels s2_get_or_create has to make a table for: from the first entry
\* that is not a table, be it empty or a block.
Missing(p, leaf) ==
    {l \in StartLevel .. leaf - 1 : \E k \in StartLevel .. l : entry[Slot(p, k)] # Table}

\* The levels at which s2_map_one writes the walk of p: the missing tables as
\* far as the allocator gives them, and the leaf when it gives them all.
Writes(p, leaf) ==
    LET all == Missing(p, leaf)
    IN  {all \cup {leaf}} \cup {{l \in all : l < k} : k \in all}

\* s2_map_one, when it writes at these levels.  A block on the way is replaced
\* by an empty table, a table in the leaf's place is forgotten, and an
\* overwritten leaf is not counted.
s2_map_one(p, pa, leaf, levels) ==
    LET made == levels \ {leaf}
        new  == leaf \in levels /\ (made # {} \/ entry[Slot(p, leaf)] = Invalid)
    IN  /\ tables + Cardinality(made) <= MaxTables
        /\ tables' = tables + Cardinality(made)
        /\ entry' = [s \in Slots |->
                       IF s[1] \in levels /\ s = Slot(p, s[1])
                       THEN IF s[1] = leaf THEN pa ELSE Table
                       ELSE IF \E l \in levels : Below(s, l, p) THEN Invalid ELSE entry[s]]
        /\ stats' = IF ~new THEN stats
                    ELSE [pages_4kb |-> stats.pages_4kb + (IF leaf = 3 THEN 1 ELSE 0),
                          pages_2mb |-> stats.pages_2mb + (IF leaf = 3 THEN 0 ELSE 1),
                          total_mapped |-> stats.total_mapped + s2_level_size(leaf)]
        /\ mixed' = (mixed \/ (leaf \in levels /\ entry[Slot(p, leaf)] = Table)
                           \/ \E l \in made : IsLeaf(Slot(p, l)))

\* The range checks of s2_map, and the block alignment of map_huge_page.
CanMap(p, pa, leaf) ==
    /\ s2_range_fits(p, s2_level_size(leaf), IpaPages)
    /\ s2_range_fits(pa, s2_level_size(leaf), PaPages)

BlockAligned(p, pa) == p % Fan = 0 /\ pa % Fan = 0

\* relm_stage2_unmap_page: a hole is success; a page inside a block that is
\* not its first is refused and changes nothing.
Refused(p) == Mapped(p) /\ p % s2_level_size(LeafLevel(p)) # 0

unmap_leaf(p) ==
    IF ~Mapped(p) THEN UNCHANGED tree
    ELSE LET l == LeafLevel(p)
         IN  /\ entry' = [entry EXCEPT ![Slot(p, l)] = Invalid]
             /\ stats' = [pages_4kb |-> stats.pages_4kb - (IF l = 3 THEN 1 ELSE 0),
                          pages_2mb |-> stats.pages_2mb - (IF l = 3 THEN 0 ELSE 1),
                          total_mapped |-> stats.total_mapped - s2_level_size(l)]
             /\ UNCHANGED <<tables, mixed>>

----------------------------------------------------------------------------
(* The calls. *)

PagesOf(r) == r.ipa .. r.ipa + r.size - 1

\* Mutant: every page gets the first page of the backing.
Pa_Mut(r, p) == r.pa

Pa(r, p) == r.pa + (p - r.ipa)

\* The callers do not map a region while another unmaps it.
Mapping(r) == \E c \in Callers : call[c].op \in MapOps /\ call[c].r = r
Unmapping(r) == \E c \in Callers : call[c].op = "unmap" /\ call[c].r = r

Usable(c) == ~Busy(c) /\ stage2 # NoContext /\ ~stuck

\* relm_stage2_map_range, map_guest_ram_4kb or map_guest_ram_huge is called
\* for a region; only the last two know about the windows.
MapStart(c, op, r) ==
    /\ Usable(c) /\ ~Unmapping(r)
    /\ op = "map_range" => PagesOf(r) \cap Windows = {}
    /\ call' = [call EXCEPT ![c] = [op |-> op, r |-> r, p |-> r.ipa, chunk |-> 0]]
    /\ UNCHANGED <<limits, stage2, tree, listed, stuck>>

\* relm_stage2_unmap_range is called for the end of a region.
UnmapStart(c, r, p) ==
    /\ Usable(c) /\ ~Mapping(r) /\ p \in PagesOf(r)
    /\ call' = [call EXCEPT ![c] = [op |-> "unmap", r |-> r, p |-> p, chunk |-> 0]]
    /\ listed' = listed \ {r}
    /\ UNCHANGED <<limits, stage2, tree, stuck>>

\* The loop of caller c goes on at page p, or the call returns 0; and the call
\* returns an error.
GoOn(c, p, chunk) ==
    LET r == call[c].r
    IN  IF p < r.ipa + r.size
        THEN /\ call' = [call EXCEPT ![c].p = p, ![c].chunk = chunk]
             /\ UNCHANGED listed
        ELSE /\ call' = [call EXCEPT ![c] = NoCall]
             /\ listed' = IF call[c].op = "unmap" THEN listed ELSE listed \cup {r}

Fail(c) == call' = [call EXCEPT ![c] = NoCall] /\ UNCHANGED listed

\* Mutant: the loop goes on when a page could not be mapped.
MapAt_Mut(c, p, leaf, chunk) ==
    LET pa == Pa(call[c].r, p)
    IN  \/ /\ CanMap(p, pa, leaf)
           /\ \E levels \in Writes(p, leaf) : s2_map_one(p, pa, leaf, levels)
           /\ GoOn(c, p + s2_level_size(leaf), chunk)
        \/ ~CanMap(p, pa, leaf) /\ Fail(c) /\ UNCHANGED tree

\* relm_stage2_map_page or map_huge_page at page p, and where the loop goes on.
MapAt(c, p, leaf, chunk) ==
    LET pa == Pa(call[c].r, p)
    IN  \/ /\ CanMap(p, pa, leaf)
           /\ \E levels \in Writes(p, leaf) :
                /\ s2_map_one(p, pa, leaf, levels)
                /\ IF leaf \in levels THEN GoOn(c, p + s2_level_size(leaf), chunk) ELSE Fail(c)
        \/ ~CanMap(p, pa, leaf) /\ Fail(c) /\ UNCHANGED tree

\* Mutant: only the first page of a block is looked up in the registry.
s2_range_overlaps_mmio_Mut(p, n) == p \in Windows

s2_range_overlaps_mmio(p, n) == (p .. p + n - 1) \cap Windows # {}

\* One page of the 4 KiB loops; a page of a window is skipped.
PageStep(c, p, chunk) ==
    IF call[c].op # "map_range" /\ s2_range_overlaps_mmio(p, 1)
    THEN GoOn(c, p + 1, chunk) /\ UNCHANGED tree
    ELSE MapAt(c, p, 3, chunk)

SmallerOf(m, n) == IF m < n THEN m ELSE n

\* One round of a map loop: a block where alignment, size and windows allow
\* it, else pages up to the next block.
MapStep(c) ==
    LET k == call[c]
        left == k.r.ipa + k.r.size - k.p
    IN  /\ k.op \in MapOps /\ ~stuck
        /\ IF k.op # "ram_huge" THEN PageStep(c, k.p, 0)
           ELSE IF k.chunk > 0 THEN PageStep(c, k.p, k.chunk - 1)
           ELSE IF /\ left >= Fan /\ BlockAligned(k.p, Pa(k.r, k.p))
                   /\ ~s2_range_overlaps_mmio(k.p, Fan)
           THEN MapAt(c, k.p, 2, 0)
           ELSE PageStep(c, k.p, SmallerOf(left, Fan - (k.p % Fan)) - 1)
        /\ UNCHANGED <<limits, stage2, stuck>>

\* One round of relm_stage2_unmap_range, which goes on page by page even after
\* it removed a block.
UnmapStep(c) ==
    LET p == call[c].p
    IN  /\ call[c].op = "unmap" /\ ~stuck
        /\ IF Refused(p) THEN Fail(c) /\ UNCHANGED tree
           ELSE unmap_leaf(p) /\ GoOn(c, p + 1, 0)
        /\ UNCHANGED <<limits, stage2, stuck>>

\* A single page or block of a region, outside the windows.
relm_stage2_map_page(c, r, p, leaf) ==
    /\ Usable(c) /\ ~Unmapping(r)
    /\ p .. p + s2_level_size(leaf) - 1 \subseteq PagesOf(r) \ Windows
    /\ leaf = 2 => BlockAligned(p, Pa(r, p))
    /\ CanMap(p, Pa(r, p), leaf)
    /\ \E levels \in Writes(p, leaf) : s2_map_one(p, Pa(r, p), leaf, levels)
    /\ UNCHANGED <<limits, stage2, call, listed, stuck>>

\* s2_invalidate, with the lock held, after the runtime was unregistered.
InvalidateNull(c) ==
    /\ Usable(c) /\ ~Ready
    /\ stuck' = TRUE
    /\ UNCHANGED <<limits, stage2, tree, call, listed>>

\* Mutant: the tables are freed before the result of the invalidation is
\* looked at.
relm_stage2_context_destroy_Mut(c) ==
    /\ Usable(c) /\ Ready /\ \A d \in Callers : ~Busy(d)
    /\ stage2' \in {stage2, NoContext}
    /\ tables' = tables - 1 - Cardinality(LinkedTables)
    /\ entry' = [s \in Slots |-> Invalid] /\ stats' = NoStats /\ listed' = {}
    /\ UNCHANGED <<limits, call, stuck, mixed>>

\* relm_stage2_context_destroy, once nobody uses the context: when the
\* invalidation fails nothing is freed.
relm_stage2_context_destroy(c) ==
    /\ Usable(c) /\ Ready /\ \A d \in Callers : ~Busy(d)
    /\ stage2' = NoContext
    /\ tables' = tables - 1 - Cardinality(LinkedTables)
    /\ entry' = [s \in Slots |-> Invalid] /\ stats' = NoStats /\ listed' = {}
    /\ UNCHANGED <<limits, call, stuck, mixed>>

Next ==
    \/ relm_stage2_register_runtime \/ relm_stage2_unregister_runtime
    \/ \E c \in Callers :
          \/ SetupStart(c) \/ SetupCreate(c) \/ MapStep(c) \/ UnmapStep(c)
          \/ InvalidateNull(c) \/ relm_stage2_context_destroy(c)
          \/ \E r \in Regions :
                \/ \E op \in MapOps : MapStart(c, op, r)
                \/ \E p \in PagesOf(r) :
                      UnmapStart(c, r, p) \/ \E l \in {2, 3} : relm_stage2_map_page(c, r, p, l)

Spec == Init /\ [][Next]_vars

----------------------------------------------------------------------------
(* Properties. *)

Ipas == 0 .. IpaPages - 1
Translation == [p \in Ipas |-> IF Mapped(p) THEN relm_stage2_get_mapping(p) ELSE Invalid]

\* However blocks and pages of the calls are mixed, a page that s2_walk finds
\* leads to the page its region gives it, and a page of an MMIO window is
\* never mapped, so that it traps.
LeadsToBacking ==
    \A p \in Ipas : Mapped(p) =>
        /\ p \notin Windows
        /\ \E r \in Regions : p \in PagesOf(r) /\ relm_stage2_get_mapping(p) = Pa(r, p)

\* A region whose map call returned 0 is mapped but for its windows, until
\* unmap_range is called on it, as long as no span is mapped once by a block
\* and once by pages.
ListedIsMapped ==
    \A r \in listed : mixed \/ \A p \in PagesOf(r) \ Windows : Mapped(p)

\* The tree and the list of regions agree, in both directions.
TreeMatchesRegions == LeadsToBacking /\ ListedIsMapped

\* As long as no map changes the granularity of a span, the statistics count
\* the leaves (so that no unmap takes one below zero), and the table pages
\* allocated are those context_destroy finds in the tree, also after an
\* allocation failed half-way; there is never a table in the tree that was
\* given back.
Accounted ==
    LET linked == IF stage2 = NoContext THEN 0 ELSE 1 + Cardinality(LinkedTables)
    IN  /\ tables >= linked
        /\ ~mixed =>
              /\ tables = linked
              /\ stats.pages_4kb = Cardinality(Leaves(3))
              /\ stats.pages_2mb = Cardinality(Leaves(2))
              /\ stats.total_mapped = stats.pages_4kb + Fan * stats.pages_2mb

\* The tree of relm_stage2_map_range, map_guest_ram and unmap_range holds what
\* the listed regions say, and the context knows all of it: TreeMatchesRegions
\* and Accounted.
TreeExact == TreeMatchesRegions /\ Accounted

\* Until a map changes the granularity of a span the tree implements the
\* abstract map: pages are added where there were none, or removed.
GM == INSTANCE GuestMap
        WITH Gpas <- Ipas, Hpas <- 0 .. PaPages - 1, NoFrame <- Invalid, map <- Translation
TreeIsGuestMap == [][UNCHANGED entry \/ mixed' \/ GM!Next]_Translation

\* The geometry of a context can always be put in VTCR_EL2 and VTTBR_EL2,
\* whatever runtime registers or unregisters after relm_setup_stage2 chose it:
\* s2_invalidate fails only when the callback does.
Encodable ==
    stage2 # NoContext =>
        /\ s2_geometry_valid(stage2.g) /\ stage2.vmid < 2 ^ stage2.g.vmid_bits
        /\ stage2.g.start_level = StartLevel

----------------------------------------------------------------------------
(* A comment the code does not meet. *)

\* stage2.h on relm_stage2_map_range: "Rolls back this call's own changes on
\* failure; never removes a pre-existing mapping".  A page inside a block
\* takes the other pages of the block away, and pages mapped before a failure
\* stay.
RangeKeepsMappings ==
    [][\A c \in Callers : call[c].op = "map_range" /\ call'[c] # call[c] =>
          \A p \in Ipas : Translation[p] # Invalid => Translation'[p] # Invalid]_vars
=============================================================================
