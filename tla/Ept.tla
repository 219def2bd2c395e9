-------------------------------- MODULE Ept --------------------------------
(***************************************************************************)
(* The guest's memory: the frames of its RAM (vm.c), the four-level EPT    *)
(* tables that translate guest-physical pages (ept.c), and the IOMMU       *)
(* domain that repeats the translation for devices (iommu.c).              *)
(*                                                                         *)
(* A guest-physical page is the tuple of its four table indices; "tab" is  *)
(* the content of the frames that are tables.  Any allocation may fail.    *)
(* Free frames are interchangeable, so the allocator hands out the lowest. *)
(* Permission and memory-type bits are left out: every entry the code      *)
(* writes has the READ bit, the only one its walks test.  The EPT lock is  *)
(* held for the whole of each map, unmap and lookup.                       *)
(***************************************************************************)
EXTENDS Integers, FiniteSets, Sequences

CONSTANTS
    Frames,      \* host frames of the page allocator, positive integers
    DevBase,     \* the first frame of a device, mapped by relm_vm_map_mmio_region
    Idx,         \* indices of a table
    Ram,         \* the pages of guest RAM, in address order
    Mmio,        \* the pages of a direct-mapped device, in address order
    Apic         \* the page of the local APIC

NoFrame == 0
Gpas == {Ram[i] : i \in DOMAIN Ram} \cup {Mmio[i] : i \in DOMAIN Mmio} \cup {Apic}
RamPages == {Ram[i] : i \in DOMAIN Ram}
Pages == Idx \X Idx \X Idx \X Idx

\* The frames of the device are contiguous.
DevFrame(k) == DevBase + k - 1
DevFrames == {DevFrame(k) : k \in DOMAIN Mmio}

ASSUME MemAssumption ==
    /\ IsFiniteSet(Frames) /\ Frames \subseteq Nat \ {0}
    /\ DevBase \in Nat \ {0} /\ DevFrames \cap Frames = {}
    /\ Ram \in Seq(Pages) \ {<<>>} /\ Mmio \in Seq(Pages) \ {<<>>} /\ Apic \in Pages
    /\ \A j, k \in DOMAIN Ram : Ram[j] = Ram[k] => j = k
    /\ \A j, k \in DOMAIN Mmio : Mmio[j] = Mmio[k] => j = k
    /\ \A j \in DOMAIN Ram, k \in DOMAIN Mmio : Ram[j] # Mmio[k] /\ Ram[j] # Apic /\ Mmio[k] # Apic

VARIABLES
    use,       \* what each frame is used for
    pml4,      \* ept->pml4, or NoFrame when there is no context
    tab,       \* the entries of each table frame
    n4k,       \* ept->stats.pages_4kb
    pages,     \* region->pages of the RAM region
    regions,   \* the regions on vm->memory.mem_regions
    apic,      \* apic->apic_access_page of the vCPU, or NoFrame
    enabled,   \* vm->arch.iommu.enabled
    io,        \* the translation of the IOMMU domain
    n_mapped,  \* iommu->n_mapped_pages
    pc,        \* where relm_create_vm and relm_module_init are
    i          \* the page their loop is at

ept == <<pml4, tab, n4k>>
iommu == <<enabled, io, n_mapped>>
vars == <<use, ept, pages, regions, apic, iommu, pc, i>>

Entries == Frames \cup DevFrames \cup {NoFrame}
Zero == [x \in Idx |-> NoFrame]
NoPages == [g \in RamPages |-> NoFrame]

\* Type invariant. The tables, regions, statistics and the IOMMU domain.
TypeOK ==
    /\ use \in [Frames -> {"free", "table", "ram", "apic"}]
    /\ pml4 \in Frames \cup {NoFrame}
    /\ tab \in [Frames -> [Idx -> Entries]] /\ n4k \in 0 .. Cardinality(Gpas)
    /\ pages \in [RamPages -> Frames \cup {NoFrame}]
    /\ regions \in SUBSET {"ram", "mmio"} /\ apic \in Frames \cup {NoFrame}
    /\ enabled \in BOOLEAN /\ io \in [RamPages -> Frames \cup {NoFrame}]
    /\ n_mapped \in 0 .. Len(Ram)
    /\ pc \in {"none", "ram", "ram_failed", "tables", "iommu_init", "iommu_map",
               "add_vcpu", "ready", "mmio", "mmio_failed"}
    /\ i \in 0 .. Len(Ram) + Len(Mmio) + 1

Init ==
    /\ use = [f \in Frames |-> "free"]
    /\ pml4 = NoFrame /\ tab = [f \in Frames |-> Zero] /\ n4k = 0
    /\ pages = NoPages /\ regions = {} /\ apic = NoFrame
    /\ enabled = FALSE /\ io = NoPages /\ n_mapped = 0
    /\ pc = "none" /\ i = 0

----------------------------------------------------------------------------
(* The tables. *)

Free == {f \in Frames : use[f] = "free"}

\* The k-th frame alloc_page or __get_free_page returns from a pool.
Fresh(pool, k) == CHOOSE f \in pool : Cardinality({x \in pool : x <= f}) = k

Entry(t, x) == IF t \in Frames THEN tab[t][x] ELSE NoFrame

\* The tables on the walk of a page, from the PML4 down; NoFrame where the
\* walk ends early.
Tables(g) ==
    LET pdpt == Entry(pml4, g[1])
        pd   == Entry(pdpt, g[2])
        pt   == Entry(pd, g[3])
    IN  <<pml4, pdpt, pd, pt>>

relm_ept_get_mapping(g) == Entry(Tables(g)[4], g[4])

Mapped == {g \in Gpas : relm_ept_get_mapping(g) # NoFrame}
Missing(g) == Cardinality({k \in 2 .. 4 : Tables(g)[k] = NoFrame})

\* relm_ept_get_or_create_table, three times: the walk after the first "made"
\* of the missing tables were taken from the pool.
GetOrCreate(g, pool, made) ==
    LET have == 4 - Missing(g)
    IN  [k \in 1 .. 4 |-> IF k <= have THEN Tables(g)[k]
                          ELSE IF k - have <= made THEN Fresh(pool, k - have)
                          ELSE NoFrame]

\* Mutant: the index of the last level is taken from the level above.
Written_Mut(path, g, t, x) ==
    {path[k+1] : k \in {k \in 1 .. 4 : path[k] = t /\ (IF k = 4 THEN g[3] ELSE g[k]) = x}}
        \ {NoFrame}

\* What the mapping of page g along a path writes in entry x of table t.
Written(path, g, t, x) ==
    {path[k+1] : k \in {k \in 1 .. 4 : path[k] = t /\ g[k] = x}} \ {NoFrame}

\* Mutant: a table may be made in the very frame that is being mapped.
MapPage_Mut(g, h, kind, made) ==
    LET pool == Free
        walk == GetOrCreate(g, pool, made)
        path == [k \in 1 .. 5 |-> IF k <= 4 THEN walk[k]
                                  ELSE IF made = Missing(g) THEN h ELSE NoFrame]
        new  == {walk[k] : k \in 2 .. 4} \cap pool
    IN  /\ made <= Cardinality(pool)
        /\ tab' = [t \in Frames |-> [x \in Idx |->
                     IF Written(path, g, t, x) = {} THEN tab[t][x]
                     ELSE CHOOSE e \in Written(path, g, t, x) : TRUE]]
        /\ use' = [f \in Frames |-> IF f \in new THEN "table"
                                    ELSE IF f = h /\ made = Missing(g) THEN kind
                                    ELSE use[f]]
        /\ n4k' = IF made = Missing(g) /\ g \notin Mapped THEN n4k + 1 ELSE n4k
        /\ UNCHANGED pml4

\* Maps page g to frame h, which becomes a frame of the given kind.  When
\* fewer tables than are missing can be made it fails with -ENOMEM and the
\* tables it did make stay linked.
MapPage(g, h, kind, made) ==
    LET pool == Free \ {h}
        walk == GetOrCreate(g, pool, made)
        path == [k \in 1 .. 5 |-> IF k <= 4 THEN walk[k]
                                  ELSE IF made = Missing(g) THEN h ELSE NoFrame]
        new  == {walk[k] : k \in 2 .. 4} \cap pool
    IN  /\ made <= Cardinality(pool)
        /\ tab' = [t \in Frames |-> [x \in Idx |->
                     IF Written(path, g, t, x) = {} THEN tab[t][x]
                     ELSE CHOOSE e \in Written(path, g, t, x) : TRUE]]
        /\ use' = [f \in Frames |-> IF f \in new THEN "table"
                                    ELSE IF f = h /\ made = Missing(g) THEN kind
                                    ELSE use[f]]
        /\ n4k' = IF made = Missing(g) /\ g \notin Mapped THEN n4k + 1 ELSE n4k
        /\ UNCHANGED pml4

\* relm_ept_unmap_page of every page of S: the leaves go, the tables stay.
UnmapPages(S) ==
    /\ tab' = [t \in Frames |-> [x \in Idx |->
                 IF \E g \in S : t = Tables(g)[4] /\ x = g[4] THEN NoFrame ELSE tab[t][x]]]
    /\ n4k' = n4k - Cardinality(S \cap Mapped)
    /\ UNCHANGED <<use, pml4>>

\* The tables relm_ept_free_table frees: three levels below the PML4.
Below(t) == {tab[t][x] : x \in Idx} \ {NoFrame}
Reach2 == UNION {Below(t) : t \in Below(pml4)}
\* Mutant: the lowest level of tables is forgotten.
Reachable_Mut == {pml4} \cup Below(pml4) \cup Reach2

Reachable == {pml4} \cup Below(pml4) \cup Reach2 \cup UNION {Below(t) : t \in Reach2}

\* relm_ept_context_destroy, after the frames of S were freed.  A freed frame
\* is zeroed before it is used again.
DestroyEpt(S) ==
    /\ use' = [f \in Frames |-> IF f \in Reachable \cup S THEN "free" ELSE use[f]]
    /\ tab' = [f \in Frames |-> IF f \in Reachable THEN Zero ELSE tab[f]]
    /\ pml4' = NoFrame /\ UNCHANGED n4k

\* The VM is freed with everything it lists.  The IOMMU domain is not.
FreeVm == /\ pages' = NoPages /\ regions' = {} /\ apic' = NoFrame
          /\ pc' = "none" /\ i' = 0
          /\ UNCHANGED iommu

RamFrames == {pages[g] : g \in RamPages} \ {NoFrame}

----------------------------------------------------------------------------
(* Creating the VM. *)

\* Mutant: the statistics are not reset.
relm_ept_context_create_Mut ==
    LET f == Fresh(Free, 1)
    IN  /\ use' = [use EXCEPT ![f] = "table"] /\ pml4' = f
        /\ UNCHANGED <<n4k, tab>>

\* An empty PML4; the statistics start at zero.
relm_ept_context_create ==
    LET f == Fresh(Free, 1)
    IN  /\ use' = [use EXCEPT ![f] = "table"] /\ pml4' = f /\ n4k' = 0
        /\ UNCHANGED tab

\* relm_create_vm up to the RAM loop, on a zeroed VM.
relm_create_vm ==
    /\ pc = "none" /\ Free # {}
    /\ relm_ept_context_create
    /\ enabled' = FALSE /\ n_mapped' = 0
    /\ pc' = "ram" /\ i' = 1
    /\ UNCHANGED <<pages, regions, apic, io>>

\* Mutant: a page that cannot be mapped is skipped.
AllocRamPage_Mut ==
    /\ pc = "ram" /\ Free # {}
    /\ LET page == Fresh(Free, 1)
       IN  \E made \in 0 .. Missing(Ram[i]) :
             /\ MapPage(Ram[i], page, "ram", made)
             /\ pages' = [pages EXCEPT ![Ram[i]] = page]
             /\ IF made = Missing(Ram[i])
                THEN /\ i' = i + 1
                     /\ pc' = IF i = Len(Ram) THEN "tables" ELSE "ram"
                     /\ regions' = IF i = Len(Ram) THEN {"ram"} ELSE {}
                ELSE pc' = "ram" /\ i' = i + 1 /\ regions' = {}
    /\ UNCHANGED <<apic, iommu>>

\* One round of the loop of relm_vm_allocate_guest_ram; the region is listed
\* after the last one.
AllocRamPage ==
    /\ pc = "ram" /\ Free # {}
    /\ LET page == Fresh(Free, 1)
       IN  \E made \in 0 .. Missing(Ram[i]) :
             /\ MapPage(Ram[i], page, "ram", made)
             /\ IF made = Missing(Ram[i])
                THEN /\ pages' = [pages EXCEPT ![Ram[i]] = page] /\ i' = i + 1
                     /\ pc' = IF i = Len(Ram) THEN "tables" ELSE "ram"
                     /\ regions' = IF i = Len(Ram) THEN {"ram"} ELSE {}
                ELSE pc' = "ram_failed" /\ UNCHANGED <<pages, i, regions>>
    /\ UNCHANGED <<apic, iommu>>

AllocRamFails ==
    /\ pc = "ram" /\ pc' = "ram_failed"
    /\ UNCHANGED <<use, ept, pages, regions, apic, iommu, i>>

\* The _cleanup label of relm_vm_allocate_guest_ram, which frees the pages
\* without unmapping them, and the _out_free_mmu label of relm_create_vm.
CleanupRam ==
    /\ pc = "ram_failed"
    /\ DestroyEpt(RamFrames) /\ FreeVm

\* relm_ept_create_guest_page_tables writes to RAM that is already mapped.
\* When it fails the RAM is not freed; when the vCPU array cannot be
\* allocated it is.
CreateGuestTables ==
    /\ pc = "tables"
    /\ \/ pc' = "iommu_init" /\ UNCHANGED <<use, ept, pages, regions, apic, iommu, i>>
       \/ DestroyEpt({}) /\ FreeVm
       \/ DestroyEpt(RamFrames) /\ FreeVm

----------------------------------------------------------------------------
(* The IOMMU domain. *)

\* A new domain is empty; the one of an earlier VM is never freed.
relm_iommu_init ==
    /\ pc = "iommu_init"
    /\ \/ enabled' = TRUE /\ io' = NoPages /\ n_mapped' = 0 /\ pc' = "iommu_map" /\ i' = 1
       \/ pc' = "add_vcpu" /\ i' = 0 /\ UNCHANGED iommu
    /\ UNCHANGED <<use, ept, pages, regions, apic>>

\* One round of relm_iommu_map_guest_ram and relm_iommu_map: pages the EPT
\* does not map are skipped; a failure destroys the VM (relm_destroy_vm below).
relm_iommu_map_guest_ram ==
    /\ pc = "iommu_map"
    /\ LET hpa == relm_ept_get_mapping(Ram[i])
       IN  /\ io' = [io EXCEPT ![Ram[i]] = hpa]
           /\ n_mapped' = IF hpa = NoFrame THEN n_mapped ELSE n_mapped + 1
    /\ i' = IF i = Len(Ram) THEN 0 ELSE i + 1
    /\ pc' = IF i = Len(Ram) THEN "add_vcpu" ELSE pc
    /\ UNCHANGED <<use, ept, pages, regions, apic, enabled>>

\* Mutant: the count is not lowered.
relm_iommu_unmap_Mut(g) ==
    /\ pc = "ready" /\ enabled /\ io[g] # NoFrame
    /\ io' = [io EXCEPT ![g] = NoFrame]
    /\ UNCHANGED <<use, ept, pages, regions, apic, enabled, n_mapped, pc, i>>

relm_iommu_unmap(g) ==
    /\ pc = "ready" /\ enabled /\ io[g] # NoFrame
    /\ io' = [io EXCEPT ![g] = NoFrame]
    /\ n_mapped' = IF n_mapped >= 1 THEN n_mapped - 1 ELSE 0
    /\ UNCHANGED <<use, ept, pages, regions, apic, enabled, pc, i>>

----------------------------------------------------------------------------
(* The vCPU's APIC page, direct-mapped devices, and the end of the VM. *)

relm_apic_alloc ==
    /\ pc = "add_vcpu" /\ Free # {}
    /\ LET f == Fresh(Free, 1) IN use' = [use EXCEPT ![f] = "apic"] /\ apic' = f
    /\ pc' = "ready"
    /\ UNCHANGED <<ept, pages, regions, iommu, i>>

\* Once, when the vCPU thread starts.
relm_apic_ept_setup ==
    /\ pc = "ready" /\ Apic \notin Mapped
    /\ \E made \in 0 .. Missing(Apic) : MapPage(Apic, apic, "apic", made)
    /\ UNCHANGED <<pages, regions, apic, iommu, pc, i>>

\* relm_vm_map_mmio_region: called once, for pages that are not RAM.
MapMmioStart ==
    /\ pc = "ready" /\ "mmio" \notin regions
    /\ pc' = "mmio" /\ i' = 1
    /\ UNCHANGED <<use, ept, pages, regions, apic, iommu>>

MapMmioPage ==
    /\ pc = "mmio"
    /\ MapPage(Mmio[i], DevFrame(i), "device", Missing(Mmio[i]))
    /\ i' = IF i = Len(Mmio) THEN 0 ELSE i + 1
    /\ pc' = IF i = Len(Mmio) THEN "ready" ELSE pc
    /\ regions' = IF i = Len(Mmio) THEN regions \cup {"mmio"} ELSE regions
    /\ UNCHANGED <<pages, apic, iommu>>

\* A page cannot be mapped (the tables made for it stay): _cleanup unmaps the
\* ones before it.
MapMmioNoTable ==
    /\ pc = "mmio"
    /\ \E made \in 0 .. Missing(Mmio[i]) - 1 :
          MapPage(Mmio[i], DevFrame(i), "device", made)
    /\ pc' = "mmio_failed"
    /\ UNCHANGED <<pages, regions, apic, iommu, i>>

MapMmioCleanup ==
    /\ pc = "mmio_failed"
    /\ UnmapPages({Mmio[k] : k \in 1 .. i - 1})
    /\ pc' = "ready" /\ i' = 0
    /\ UNCHANGED <<pages, regions, apic, iommu>>

\* relm_destroy_vm: from the unwinding of relm_module_init, or at its exit.
relm_destroy_vm ==
    /\ pc \in {"iommu_map", "add_vcpu", "ready"}
    /\ DestroyEpt(RamFrames \cup {apic}) /\ FreeVm

Next ==
    \/ relm_create_vm \/ AllocRamPage \/ AllocRamFails \/ CleanupRam
    \/ CreateGuestTables
    \/ relm_iommu_init \/ relm_iommu_map_guest_ram
    \/ \E g \in RamPages : relm_iommu_unmap(g)
    \/ relm_apic_alloc \/ relm_apic_ept_setup
    \/ MapMmioStart \/ MapMmioPage \/ MapMmioNoTable \/ MapMmioCleanup
    \/ relm_destroy_vm

Spec == Init /\ [][Next]_vars

----------------------------------------------------------------------------
(* Properties. *)

\* The frames allocated as tables are exactly the ones relm_ept_free_table
\* reaches from the PML4, each through one entry of one table: none is lost
\* when relm_ept_map_page fails half-way, freed twice, or left when the
\* context is gone; and pages_4kb counts the mapped pages.
TablesOwned ==
    LET tables == {f \in Frames : use[f] = "table"}
        parents(f) == {e \in tables \X Idx : tab[e[1]][e[2]] = f}
    IN  /\ tables = IF pml4 = NoFrame THEN {} ELSE Reachable
        /\ \A f \in tables \ {pml4} : Cardinality(parents(f)) = 1
        /\ pml4 # NoFrame => n4k = Cardinality(Mapped)

\* What the guest reaches through the EPT is its own: RAM pages lead to RAM
\* frames, the APIC page to the APIC-access page, device pages to the device;
\* never to a table, a free frame or the frame of another page.
Isolation ==
    /\ \A g \in Mapped :
          LET h == relm_ept_get_mapping(g)
          IN  \/ g \in RamPages /\ h \in Frames /\ use[h] = "ram"
              \/ g = Apic /\ h = apic /\ use[h] = "apic"
              \/ g \in Gpas \ (RamPages \cup {Apic}) /\ h \in DevFrames
    /\ \A g, k \in Mapped :
          relm_ept_get_mapping(g) = relm_ept_get_mapping(k) => g = k

\* Once the RAM region is listed, the frame the host writes for a page
\* (region->pages in relm_copy_to_guest) is the frame the guest sees there.
HostSeesGuestRam ==
    "ram" \in regions => \A g \in RamPages :
        pages[g] # NoFrame /\ pages[g] = relm_ept_get_mapping(g)

\* While the VM exists a device reaches through the domain the frame the
\* guest sees at that page, n_mapped_pages counts those pages, and
\* relm_iommu_map_guest_ram succeeds only with every RAM page mapped.
DmaMirrorsEpt ==
    (pc # "none" /\ enabled) =>
        /\ \A g \in RamPages : io[g] # NoFrame => io[g] = relm_ept_get_mapping(g)
        /\ n_mapped = Cardinality({g \in RamPages : io[g] # NoFrame})
        /\ pc = "add_vcpu" => n_mapped = Cardinality(RamPages)

\* Host, guest and device agree: what relm_copy_to_guest writes and what a
\* device reaches by DMA is what the guest sees through the EPT.
ViewsAgree == HostSeesGuestRam /\ DmaMirrorsEpt

\* The tables implement the abstract map: no step of the VM moves a page or
\* shares a frame, and the failures leave the translation as it was.
GM == INSTANCE GuestMap
        WITH Hpas <- Frames \cup DevFrames,
             map <- [g \in Gpas |-> relm_ept_get_mapping(g)]
ImplementsGuestMap == GM!Spec

----------------------------------------------------------------------------
(* Claims of comments and documents that the code does not meet. *)

\* iommu.c:6 "Every guest RAM GPA is mapped to the same HPA in both the EPT
\* and the IOMMU domain, ensuring that device DMA ... is correctly translated
\* to the guest's actual host physical pages": a frame in the domain is guest
\* RAM.
DmaReachesOnlyRam ==
    \A g \in RamPages : io[g] # NoFrame => use[io[g]] = "ram"
=============================================================================
