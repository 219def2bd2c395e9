----------------------------- MODULE EptProofs -----------------------------
(***************************************************************************)
(* Proofs about the memory of a VM (Ept): its tables hold what was mapped, *)
(* the guest reaches no frame but its own, the host's, the guest's and the *)
(* device's views agree, and all of it implements GuestMap.                *)
(***************************************************************************)
EXTENDS EptTreeProofs

----------------------------------------------------------------------------
(* Unmapping, and the context as a whole. *)

\* relm_ept_unmap_page takes out the leaves of its pages.
LEMMA UnmapStep ==
    ASSUME Hangs, NEW S \in SUBSET Gpas, UnmapPages(S)
    PROVE  /\ Hangs' /\ Shape'
           /\ \A q \in Gpas : relm_ept_get_mapping(q)' =
                               IF q \in S THEN NoFrame ELSE relm_ept_get_mapping(q)
           /\ n4k = Cardinality(Mapped) => n4k' = Cardinality(Mapped')
  <1>1. PICK lvl : Tree(lvl) /\ LeavesKnown(lvl)
    BY Zenon DEF Hangs
  <1>2. Gpas \subseteq Pages /\ NoFrame \notin Frames /\ S \subseteq Pages
    BY Zenon, FrameFacts, PageFacts
  <1>3. /\ tab \in [Frames -> [Idx -> Entries]] /\ NoFrame \in Entries
        /\ use \in [Frames -> {"free", "table", "ram", "apic"}] /\ pml4 \in Frames \cup {NoFrame}
    BY Zenon, <1>1 DEF Tree, Shape, Entries
  <1>4. use' = use /\ pml4' = pml4
    BY Zenon DEF UnmapPages
  <1> DEFINE gone(t, x) == \E g \in S : t = Walk(g)[4] /\ x = g[4]
  <1>5. \A g \in S : Walk(g)[4] = Tables(g)[4] /\ g[4] \in Idx
    BY <1>2, WalkSteps, PageIndices
  <1>6. tab' \in [Frames -> [Idx -> Entries]]
    BY Zenon, <1>3 DEF UnmapPages
  <1>7. \A t \in Frames, x \in Idx : tab'[t][x] = IF gone(t, x) THEN NoFrame ELSE tab[t][x]
    BY Zenon, <1>3, <1>5 DEF UnmapPages
  <1> HIDE DEF gone
  <1>8. ASSUME NEW t \in Frames, NEW x \in Idx, gone(t, x) PROVE lvl[t] = 4
    BY <1>8, <1>2, <1>1, WalkFacts DEF gone
  <1>9. Tree(lvl)'
    <2>1. Shape'
      BY Zenon, <1>3, <1>4, <1>6 DEF Shape
    <2>2. Levels(lvl)'
      <3>1. /\ lvl \in [Frames -> 0 .. 4]
            /\ \A f \in Frames : (lvl[f] # 0 <=> use'[f] = "table") /\ (lvl[f] = 1 <=> f = pml4')
        BY Zenon, <1>1, <1>4 DEF Tree, Levels
      <3>2. ASSUME NEW f \in Frames, lvl[f] \in 2 .. 4
            PROVE  \E t \in Frames, x \in Idx : tab'[t][x] = f
        BY <1>1, <3>2, Parent, <1>7, <1>8
      <3> QED
        BY Zenon, <3>1, <3>2 DEF Levels
    <2>3. \A t \in Frames, x \in Idx : tab'[t][x] # NoFrame => tab'[t][x] = tab[t][x]
      BY Zenon, <1>7
    <2>4. Links(lvl)'
      BY <1>1, <1>4, <2>3 DEF Tree, Links
    <2>5. Single'
      BY <1>1, <2>3 DEF Tree, Single
    <2> QED
      BY Zenon, <2>1, <2>2, <2>4, <2>5 DEF Tree
  <1>10. ASSUME NEW q \in Gpas
         PROVE  relm_ept_get_mapping(q)' = IF q \in S THEN NoFrame ELSE relm_ept_get_mapping(q)
    <2> q \in Pages
      BY Zenon, <1>2
    <2>1. PICK v : v = Walk(q)'
      BY Zenon
    <2>2. PICK w : w = Walk(q)
      BY Zenon
    <2>3. /\ w[1] = pml4 /\ w[5] = relm_ept_get_mapping(q)
          /\ \A k \in 1 .. 4 :
                /\ q[k] \in Idx /\ w[k] \in Frames \cup {NoFrame}
                /\ w[k] # NoFrame => lvl[w[k]] = k /\ w[k + 1] = tab[w[k]][q[k]]
                /\ w[k] = NoFrame => w[k + 1] = NoFrame
      BY <1>1, <2>2, WalksInTree DEF WalkInTree
    <2>4. /\ v[1] = pml4 /\ v[5] = relm_ept_get_mapping(q)'
          /\ \A k \in 1 .. 4 :
                /\ v[k] \in Frames \cup {NoFrame}
                /\ v[k] # NoFrame => lvl[v[k]] = k /\ v[k + 1] = tab'[v[k]][q[k]]
                /\ v[k] = NoFrame => v[k + 1] = NoFrame
      BY <1>9, WalksInNextTree, <1>4, <2>1 DEF WalkInTree
    <2>5. ASSUME NEW k \in 1 .. 3, v[k] = w[k] PROVE v[k + 1] = w[k + 1]
      <3>1. k \in 1 .. 4 /\ k # 4
        OBVIOUS
      <3>2. w[k] # NoFrame => w[k] \in Frames /\ q[k] \in Idx /\ ~gone(w[k], q[k])
        BY Zenon, <1>8, <2>3, <3>1
      <3> QED
        BY <1>7, <2>3, <2>4, <2>5, <3>1, <3>2
    <2>6. 1 + 1 = 2 /\ 2 + 1 = 3 /\ 3 + 1 = 4 /\ 4 + 1 = 5 /\ 1 \in 1 .. 3 /\ 2 \in 1 .. 3 /\ 3 \in 1 .. 3
          /\ 4 \in 1 .. 4
      OBVIOUS
    <2>7. v[4] = w[4]
      BY <2>3, <2>4, <2>5, <2>6
    <2>8. CASE w[4] = NoFrame
      BY <2>3, <2>4, <2>6, <2>7, <2>8
    <2>9. CASE w[4] # NoFrame
      <3>1. gone(w[4], q[4]) <=> q \in S
        <4>1. ASSUME NEW g \in S, w[4] = Walk(g)[4], q[4] = g[4] PROVE g = q
          BY Zenon, <1>1, <1>2, <2>2, <2>9, <4>1, OneLeafPerPage
        <4> QED
          BY Zenon, <2>2, <4>1 DEF gone
      <3>2. w[4] \in Frames /\ q[4] \in Idx /\ v[5] = tab'[w[4]][q[4]] /\ w[5] = tab[w[4]][q[4]]
        BY Zenon, <2>3, <2>4, <2>6, <2>7, <2>9
      <3> QED
        BY <1>7, <2>3, <2>4, <3>1, <3>2
    <2> QED
      BY Zenon, <2>8, <2>9
  <1>11. LeavesKnown(lvl)'
    <2> SUFFICES ASSUME NEW t \in Frames, NEW x \in Idx, lvl[t] = 4, tab'[t][x] # NoFrame
                 PROVE  \E q \in Gpas : relm_ept_get_mapping(q)' = tab'[t][x]
      BY Zenon DEF LeavesKnown
    <2>1. tab'[t][x] = tab[t][x] /\ ~gone(t, x)
      BY Zenon, <1>7
    <2>2. PICK q \in Gpas : relm_ept_get_mapping(q) = tab[t][x]
      BY Zenon, <1>1, <2>1 DEF LeavesKnown
    <2>3. q \in Pages /\ 4 \in 1 .. 4 /\ 4 + 1 = 5
      BY <1>2
    <2>4. Walk(q)[5] # NoFrame /\ Walk(q)[5] = tab[t][x]
      BY Zenon, <2>1, <2>2, <2>3, WalkSteps
    <2>5. Walk(q)[4] # NoFrame /\ Walk(q)[4] \in Frames /\ Walk(q)[5] = tab[Walk(q)[4]][q[4]] /\ q[4] \in Idx
      BY SMTT(30), <1>1, <2>3, <2>4, WalkFacts, PageIndices
    <2>6. Walk(q)[4] = t /\ q[4] = x
      <3>1. PICK u \in Frames : u = Walk(q)[4]
        BY Zenon, <2>5
      <3>2. PICK y \in Idx : y = q[4]
        BY Zenon, <2>5
      <3>3. tab[t][x] # NoFrame /\ tab[t][x] = tab[u][y]
        BY Zenon, <2>1, <2>4, <2>5, <3>1, <3>2
      <3> QED
        BY <1>1, <3>1, <3>2, <3>3 DEF Tree, Single
    <2>7. q \notin S
      BY Zenon, <2>1, <2>6 DEF gone
    <2> QED
      BY Zenon, <1>10, <2>1, <2>2, <2>7
  <1>12. n4k = Cardinality(Mapped) => n4k' = Cardinality(Mapped')
    <2>1. n4k' = n4k - Cardinality(S \cap Mapped)
      BY Zenon DEF UnmapPages
    <2>2. Mapped' = Mapped \ S
      BY Zenon, <1>10 DEF Mapped
    <2>3. Cardinality(Mapped \ S) = Cardinality(Mapped) - Cardinality(Mapped \cap S)
      BY Zenon, FiniteMapped, FS_Difference
    <2>4. S \cap Mapped = Mapped \cap S
      BY Zenon
    <2> QED
      BY Zenon, <2>1, <2>2, <2>3, <2>4
  <1> QED
    BY Zenon, <1>9, <1>10, <1>11, <1>12 DEF Hangs, Tree

\* relm_ept_free_table reaches every table.
LEMMA TablesReached ==
    ASSUME NEW lvl, Tree(lvl)
    PROVE  /\ pml4 # NoFrame => Reachable = {f \in Frames : use[f] = "table"}
           /\ pml4 = NoFrame => \A f \in Frames : use[f] # "table"
  <1>1. /\ lvl \in [Frames -> 0 .. 4] /\ NoFrame \notin Frames /\ pml4 \in Frames \cup {NoFrame}
        /\ \A f \in Frames : (lvl[f] # 0 <=> use[f] = "table") /\ (lvl[f] = 1 <=> f = pml4)
    BY Zenon, FrameFacts DEF Tree, Levels, Shape
  <1>2. ASSUME NEW k \in 1 .. 3, NEW t \in Frames, lvl[t] = k, NEW f \in Below(t)
        PROVE  f \in Frames /\ lvl[f] = k + 1
    BY <1>2 DEF Below, Tree, Links
  <1>3. ASSUME NEW f \in Frames, lvl[f] \in 2 .. 4
        PROVE  \E t \in Frames : f \in Below(t) /\ lvl[t] + 1 = lvl[f]
    BY <1>3, Parent, <1>1 DEF Below
  <1> DEFINE at(k) == {f \in Frames : lvl[f] = k}
  <1>4. ASSUME NEW k \in 1 .. 3 PROVE UNION {Below(t) : t \in at(k)} = at(k + 1)
    BY <1>3, <1>1, <1>2
  <1>5. 1 + 1 = 2 /\ 2 + 1 = 3 /\ 3 + 1 = 4 /\ 1 \in 1 .. 3 /\ 2 \in 1 .. 3 /\ 3 \in 1 .. 3
    OBVIOUS
  <1>6. {f \in Frames : use[f] = "table"} = at(1) \cup at(2) \cup at(3) \cup at(4)
    BY <1>1
  <1>7. ASSUME pml4 # NoFrame PROVE Reachable = {f \in Frames : use[f] = "table"}
    BY <1>1, <1>7, <1>4, <1>5, <1>6 DEF Reach2, Reachable
  <1>8. ASSUME pml4 = NoFrame PROVE \A f \in Frames : use[f] # "table"
    BY <1>1, <1>8, <1>4, <1>5, <1>6
  <1> QED
    BY Zenon, <1>7, <1>8

\* Empty tables are a tree of one table, or of none.
LEMMA EmptyTree ==
    ASSUME Shape, \A f \in Frames, x \in Idx : tab[f][x] = NoFrame,
           \A f \in Frames : use[f] = "table" <=> f = pml4
    PROVE  Hangs /\ \A g \in Pages : relm_ept_get_mapping(g) = NoFrame
  <1> DEFINE lvl == [f \in Frames |-> IF f = pml4 THEN 1 ELSE 0]
  <1>1. Tree(lvl)
    BY FrameFacts DEF Tree, Levels, Links, Single, Shape
  <1>2. LeavesKnown(lvl)
    BY Zenon DEF LeavesKnown
  <1>3. ASSUME NEW g \in Pages PROVE relm_ept_get_mapping(g) = NoFrame
    BY PageIndices DEF relm_ept_get_mapping, Entry
  <1> QED
    BY Zenon, <1>1, <1>2, <1>3 DEF Hangs

LEMMA EmptyNextTree ==
    (/\ Shape /\ \A f \in Frames, x \in Idx : tab[f][x] = NoFrame
     /\ \A f \in Frames : use[f] = "table" <=> f = pml4
     => Hangs /\ \A g \in Pages : relm_ept_get_mapping(g) = NoFrame)'
  BY EmptyTree, PTL

\* relm_ept_context_destroy leaves no table, and nothing in the frames it frees.
LEMMA DestroyStep ==
    ASSUME Hangs, pml4 # NoFrame, NEW S, DestroyEpt(S)
    PROVE  Hangs' /\ Shape' /\ \A g \in Gpas : relm_ept_get_mapping(g)' = NoFrame
  <1>1. PICK lvl : Tree(lvl) /\ LeavesKnown(lvl)
    BY Zenon DEF Hangs
  <1>2. Reachable = {f \in Frames : use[f] = "table"}
    BY Zenon, <1>1, TablesReached
  <1>3. tab \in [Frames -> [Idx -> Entries]] /\ use \in [Frames -> {"free", "table", "ram", "apic"}]
    BY Zenon, <1>1 DEF Tree, Shape
  <1>4. Zero \in [Idx -> Entries] /\ \A x \in Idx : Zero[x] = NoFrame
    BY Zenon DEF Zero, Entries
  <1>5. /\ use' = [f \in Frames |-> IF f \in Reachable \cup S THEN "free" ELSE use[f]]
        /\ tab' = [f \in Frames |-> IF f \in Reachable THEN Zero ELSE tab[f]]
        /\ pml4' = NoFrame
    BY Zenon DEF DestroyEpt
  <1>6. Shape'
    BY Zenon, <1>3, <1>4, <1>5 DEF Shape
  <1>7. \A f \in Frames, x \in Idx : tab'[f][x] = NoFrame
    BY Zenon, <1>1, <1>2, <1>4, <1>5, FreeIsEmpty
  <1>8. \A f \in Frames : use'[f] = "table" <=> f = pml4'
    BY Zenon, <1>2, <1>5, FrameFacts
  <1> QED
    BY Zenon, <1>6, <1>7, <1>8, EmptyNextTree, PageFacts

\* relm_ept_context_create starts from an empty table.
LEMMA CreateStep ==
    ASSUME Hangs, pml4 = NoFrame, Free # {}, relm_ept_context_create
    PROVE  /\ Hangs' /\ Shape' /\ pml4' \in Frames /\ n4k' = 0
           /\ \A g \in Gpas : relm_ept_get_mapping(g)' = NoFrame
  <1>1. PICK lvl : Tree(lvl) /\ LeavesKnown(lvl)
    BY Zenon DEF Hangs
  <1>2. \A f \in Frames : use[f] # "table"
    BY Zenon, <1>1, TablesReached
  <1>3. PICK f : f = Fresh(Free, 1)
    BY Zenon
  <1>4. f \in Frames
    BY Zenon, <1>3, FreshFree
  <1>5. use' = [use EXCEPT ![f] = "table"] /\ pml4' = f /\ n4k' = 0 /\ tab' = tab
    BY Zenon, <1>3 DEF relm_ept_context_create
  <1>6. Shape'
    BY Zenon, <1>1, <1>4, <1>5 DEF Tree, Shape
  <1>7. \A t \in Frames, x \in Idx : tab'[t][x] = NoFrame
    BY Zenon, <1>1, <1>2, <1>5, FreeIsEmpty
  <1>8. \A t \in Frames : use'[t] = "table" <=> t = pml4'
    BY Zenon, <1>1, <1>2, <1>4, <1>5 DEF Tree, Shape
  <1> QED
    BY Zenon, <1>4, <1>5, <1>6, <1>7, <1>8, EmptyNextTree, PageFacts

\* Frames are taken or kept, and the tables left alone.
LEMMA TablesKept ==
    ASSUME Hangs, pml4' = pml4, tab' = tab, use' \in [Frames -> {"free", "table", "ram", "apic"}],
           \A f \in Frames : /\ use'[f] = "table" <=> use[f] = "table"
                             /\ use[f] \in {"ram", "apic"} => use'[f] = use[f]
    PROVE  /\ Hangs' /\ Shape' /\ Mapped' = Mapped
           /\ \A g \in Gpas : relm_ept_get_mapping(g)' = relm_ept_get_mapping(g)
  <1>1. PICK lvl : Tree(lvl) /\ LeavesKnown(lvl)
    BY Zenon DEF Hangs
  <1>2. \A g \in Gpas : relm_ept_get_mapping(g)' = relm_ept_get_mapping(g)
    BY ZenonT(30) DEF relm_ept_get_mapping, Tables, Entry
  <1>3. Tree(lvl)'
    BY <1>1 DEF Tree, Shape, Levels, Links, Single
  <1>4. LeavesKnown(lvl)'
    BY <1>1, <1>2 DEF LeavesKnown
  <1>5. Mapped' = Mapped
    BY Zenon, <1>2 DEF Mapped
  <1> QED
    BY Zenon, <1>2, <1>3, <1>4, <1>5 DEF Hangs, Tree

\* No two pages of the guest lead to the same frame.
LEMMA OneFramePerPage ==
    ASSUME Hangs
    PROVE  /\ \A g \in Gpas : relm_ept_get_mapping(g) \in Entries
           /\ \A g, q \in Gpas :
                 relm_ept_get_mapping(g) # NoFrame /\ relm_ept_get_mapping(g) = relm_ept_get_mapping(q) => g = q
  <1>1. PICK lvl : Tree(lvl)
    BY Zenon DEF Hangs
  <1>2. \A g \in Gpas : g \in Pages /\ Walk(g)[5] = relm_ept_get_mapping(g)
    BY Zenon, PageFacts, WalkSteps
  <1>3. 5 \in 1 .. 5
    OBVIOUS
  <1>4. \A g \in Gpas : Walk(g)[5] \in Entries
    BY <1>1, <1>2, <1>3, WalkFacts
  <1>5. ASSUME NEW g \in Gpas, NEW q \in Gpas, Walk(g)[5] # NoFrame, Walk(g)[5] = Walk(q)[5] PROVE g = q
    BY Zenon, <1>1, <1>2, <1>5, OneLeafPerPage
  <1> QED
    BY Zenon, <1>2, <1>4, <1>5
----------------------------------------------------------------------------
(* The invariant of the VM's memory. *)

\* What a page of the guest may lead to.
Target(g, h) ==
    \/ g \in RamPages /\ h \in Frames /\ use[h] = "ram"
    \/ g = Apic /\ h \in Frames /\ h = apic /\ use[h] = "apic"
    \/ \E k \in DOMAIN Mmio : g = Mmio[k] /\ h = DevFrame(k)

Contents ==
    \A g \in Gpas : relm_ept_get_mapping(g) # NoFrame => Target(g, relm_ept_get_mapping(g))

\* Where the loops are, and what exists at each stage of the VM.
Stages ==
    /\ pc = "none" <=> pml4 = NoFrame
    /\ pc \in {"ram", "iommu_map"} => i \in 1 .. Len(Ram)
    /\ pc \in {"mmio", "mmio_failed"} => i \in 1 .. Len(Mmio)
    /\ pc \in {"ready", "mmio", "mmio_failed"} => apic \in Frames /\ use[apic] = "apic"
    /\ pc \notin {"ready", "mmio", "mmio_failed"} => apic = NoFrame
    /\ pc \in {"none", "ram", "ram_failed"} => "ram" \notin regions

\* The RAM loop has mapped the pages before i; afterwards all are mapped.
HostView ==
    /\ pc = "ram" => \A k \in DOMAIN Ram :
          /\ k < i => pages[Ram[k]] # NoFrame /\ pages[Ram[k]] = relm_ept_get_mapping(Ram[k])
          /\ k >= i => relm_ept_get_mapping(Ram[k]) = NoFrame
    /\ pc \notin {"none", "ram", "ram_failed"} => \A g \in RamPages :
          pages[g] # NoFrame /\ pages[g] = relm_ept_get_mapping(g)

StatsExact == pml4 # NoFrame => n4k = Cardinality(Mapped)

\* The IOMMU loop has mapped the pages before i.
DeviceView ==
    /\ pc \in {"ram", "ram_failed", "tables", "iommu_init"} => ~enabled
    /\ pc = "iommu_map" => /\ enabled /\ n_mapped = i - 1
                           /\ \A k \in DOMAIN Ram :
                                 io[Ram[k]] = IF k < i THEN relm_ept_get_mapping(Ram[k]) ELSE NoFrame
    /\ DmaMirrorsEpt

IInv == TypeOK /\ Hangs /\ Contents /\ Stages /\ HostView /\ StatsExact /\ DeviceView

\* How a step changes the translation: it adds pages, or removes pages.
Adds == \A g \in Gpas : relm_ept_get_mapping(g) # NoFrame =>
                          relm_ept_get_mapping(g)' = relm_ept_get_mapping(g)
Removes == \A g \in Gpas : relm_ept_get_mapping(g)' \in {relm_ept_get_mapping(g), NoFrame}

StepOK == IInv' /\ (Adds \/ Removes)

LEMMA ContentsKept ==
    ASSUME Contents, apic' = apic \/ apic = NoFrame,
           \A f \in Frames : use[f] \in {"ram", "apic"} => use'[f] = use[f],
           \A g \in Gpas : relm_ept_get_mapping(g)' # NoFrame =>
              \/ relm_ept_get_mapping(g)' = relm_ept_get_mapping(g)
              \/ \E h : relm_ept_get_mapping(g)' = h /\ Target(g, h)'
    PROVE  Contents'
  <1> SUFFICES ASSUME NEW g \in Gpas, relm_ept_get_mapping(g)' # NoFrame
               PROVE  Target(g, relm_ept_get_mapping(g))'
    BY Zenon DEF Contents
  <1>1. PICK h : h = relm_ept_get_mapping(g)'
    BY Zenon
  <1>2. CASE relm_ept_get_mapping(g)' = relm_ept_get_mapping(g)
    <2>1. Target(g, h)
      BY Zenon, <1>1, <1>2 DEF Contents
    <2>2. Target(g, h)'
      BY Zenon, <2>1, FrameFacts DEF Target
    <2> QED
      BY Zenon, <1>1, <2>2 DEF Target
  <1>3. CASE \E x : relm_ept_get_mapping(g)' = x /\ Target(g, x)'
    BY Zenon, <1>3 DEF Target
  <1> QED
    BY Zenon, <1>2, <1>3

LEMMA FiniteMappedNext ==
    (IsFiniteSet(Mapped) /\ Cardinality(Mapped) \in 0 .. Cardinality(Gpas))'
  BY FiniteMapped, PTL

LEMMA DeviceKept ==
    ASSUME DeviceView, UNCHANGED iommu, pc # "none", pc' \notin {"iommu_map", "add_vcpu"},
           pc' \in {"ram", "ram_failed", "tables", "iommu_init"} =>
              pc \in {"ram", "ram_failed", "tables", "iommu_init"},
           enabled => \A g \in RamPages : relm_ept_get_mapping(g)' = relm_ept_get_mapping(g)
    PROVE  DeviceView'
  <1>1. enabled' = enabled /\ io' = io /\ n_mapped' = n_mapped
    BY Zenon DEF iommu
  <1>2. DmaMirrorsEpt'
    BY Zenon, <1>1 DEF DmaMirrorsEpt, DeviceView
  <1> QED
    BY Zenon, <1>1, <1>2 DEF DeviceView

----------------------------------------------------------------------------
(* Every step preserves the invariant, and adds or removes pages. *)

LEMMA CreateVm ==
    ASSUME IInv, relm_create_vm
    PROVE  StepOK
  <1>1. /\ pc = "none" /\ pc' = "ram" /\ i' = 1 /\ enabled' = FALSE /\ n_mapped' = 0
        /\ pages' = pages /\ regions' = regions /\ apic' = apic /\ io' = io
    BY Zenon DEF relm_create_vm
  <1>2. pml4 = NoFrame /\ apic = NoFrame /\ "ram" \notin regions
    BY Zenon, <1>1 DEF IInv, Stages
  <1>3. /\ Hangs' /\ Shape' /\ pml4' \in Frames /\ n4k' = 0
        /\ \A g \in Gpas : relm_ept_get_mapping(g)' = NoFrame
    BY Zenon, <1>2, CreateStep DEF IInv, relm_create_vm
  <1>4. pml4' # NoFrame
    BY Zenon, <1>3, FrameFacts
  <1>5. Mapped' = {}
    BY Zenon, <1>3 DEF Mapped
  <1>6. StatsExact'
    BY Zenon, <1>3, <1>5, FS_EmptySet DEF StatsExact
  <1>7. TypeOK'
    <2>1. n4k' \in 0 .. Cardinality(Gpas)
      BY Zenon, <1>3, <1>5, FS_EmptySet, FiniteMappedNext
    <2>2. n_mapped' \in 0 .. Len(Ram) /\ i' \in 0 .. Len(Ram) + Len(Mmio) + 1
      BY <1>1, PageFacts
    <2> QED
      BY Zenon, <1>1, <1>3, <2>1, <2>2 DEF IInv, TypeOK, Shape
  <1>8. Contents'
    BY Zenon, <1>3 DEF Contents
  <1>9. Stages'
    BY <1>1, <1>2, <1>4, PageFacts DEF Stages
  <1>10. HostView'
    BY <1>1, <1>3, PageFacts DEF HostView
  <1>11. DeviceView'
    BY Zenon, <1>1 DEF DeviceView, DmaMirrorsEpt
  <1>12. Removes
    BY Zenon, <1>3 DEF Removes
  <1> QED
    BY Zenon, <1>3, <1>6, <1>7, <1>8, <1>9, <1>10, <1>11, <1>12 DEF IInv, StepOK

LEMMA AllocatePage ==
    ASSUME IInv, AllocRamPage
    PROVE  StepOK
  <1>1. pc = "ram" /\ Free # {} /\ apic' = apic /\ UNCHANGED iommu
    BY Zenon DEF AllocRamPage
  <1>2. PICK page : page = Fresh(Free, 1)
    BY Zenon
  <1>3. PICK made \in 0 .. Missing(Ram[i]) :
             /\ MapPage(Ram[i], page, "ram", made)
             /\ IF made = Missing(Ram[i])
                THEN /\ pages' = [pages EXCEPT ![Ram[i]] = page] /\ i' = i + 1
                     /\ pc' = IF i = Len(Ram) THEN "tables" ELSE "ram"
                     /\ regions' = IF i = Len(Ram) THEN {"ram"} ELSE {}
                ELSE pc' = "ram_failed" /\ UNCHANGED <<pages, i, regions>>
    BY Zenon, <1>2 DEF AllocRamPage
  <1>4. page \in Frames /\ use[page] = "free" /\ page # NoFrame
    BY Zenon, <1>1, <1>2, FreshFree, FrameFacts
  <1>5. /\ i \in 1 .. Len(Ram) /\ pml4 # NoFrame /\ apic = NoFrame /\ "ram" \notin regions
        /\ ~enabled /\ DOMAIN Ram = 1 .. Len(Ram) /\ Ram[i] \in RamPages /\ Ram[i] \in Gpas
    BY Zenon, <1>1, PageFacts DEF IInv, Stages, DeviceView
  <1>6. relm_ept_get_mapping(Ram[i]) = NoFrame
    BY <1>5, <1>1 DEF IInv, HostView
  <1>7. \A q \in Gpas : relm_ept_get_mapping(q) # page
    BY <1>4, FrameFacts DEF IInv, Contents, Target
  <1> DEFINE done == made = Missing(Ram[i])
  <1>8. MapDone(Ram[i], page, "ram", done)
    BY Zenon, <1>3, <1>4, <1>5, <1>6, <1>7, MapStep DEF IInv
  <1> HIDE DEF done
  <1>9. /\ Hangs' /\ Shape' /\ pml4' = pml4
        /\ \A q \in Gpas : relm_ept_get_mapping(q)' =
                            IF q = Ram[i] /\ done THEN page ELSE relm_ept_get_mapping(q)
        /\ \A f \in Frames : use[f] \in {"ram", "apic"} => use'[f] = use[f]
        /\ done => use'[page] = "ram"
        /\ n4k = Cardinality(Mapped) => n4k' = Cardinality(Mapped')
    BY Zenon, <1>4, <1>8 DEF MapDone
  <1>10. StatsExact' /\ n4k' \in 0 .. Cardinality(Gpas)
    BY Zenon, <1>5, <1>9, FiniteMappedNext DEF IInv, StatsExact
  <1>11. Contents'
    <2>1. ASSUME NEW g \in Gpas, relm_ept_get_mapping(g)' # relm_ept_get_mapping(g)
          PROVE  relm_ept_get_mapping(g)' = page /\ Target(g, page)'
      BY Zenon, <1>4, <1>5, <1>9, <2>1 DEF Target
    <2> QED
      BY Zenon, <1>1, <1>9, <2>1, ContentsKept DEF IInv
  <1>12. Adds
    BY Zenon, <1>6, <1>9 DEF Adds
  <1>13. DeviceView'
    BY <1>3, <1>1, <1>5, DeviceKept, Zenon DEF IInv
  <1>14. CASE ~done
    <2>1. pc' = "ram_failed" /\ pages' = pages /\ i' = i /\ regions' = regions
      BY Zenon, <1>3, <1>14 DEF done
    <2>2. TypeOK'
      BY Zenon, <1>1, <1>9, <1>10, <2>1 DEF IInv, TypeOK, Shape, iommu
    <2>3. Stages' /\ HostView'
      BY Zenon, <1>1, <1>5, <1>9, <2>1 DEF Stages, HostView
    <2> QED
      BY <1>9, <1>10, <1>11, <1>12, <1>13, <2>2, <2>3 DEF IInv, StepOK
  <1>15. CASE done
    <2>1. /\ pages' = [pages EXCEPT ![Ram[i]] = page] /\ i' = i + 1
          /\ pc' = IF i = Len(Ram) THEN "tables" ELSE "ram"
          /\ regions' = IF i = Len(Ram) THEN {"ram"} ELSE {}
      BY Zenon, <1>3, <1>15 DEF done
    <2>2. pages \in [RamPages -> Frames \cup {NoFrame}]
      BY Zenon DEF IInv, TypeOK
    <2> DEFINE n == Len(Ram)
    <2>7. /\ n \in Nat /\ Len(Mmio) \in Nat /\ i \in 1 .. n /\ i \in Nat
          /\ DOMAIN Ram = 1 .. n
      BY <1>5, PageFacts
    <2>8. i' = i + 1
      BY Zenon, <2>1
    <2> HIDE DEF n
    <2>3. TypeOK'
      <3>1. pages' \in [RamPages -> Frames \cup {NoFrame}]
        BY Zenon, <1>4, <2>1, <2>2
      <3>2. i' \in 0 .. Len(Ram) + Len(Mmio) + 1
        BY <2>7, <2>8 DEF n
      <3>3. /\ regions' \in SUBSET {"ram", "mmio"}
            /\ pc' \in {"none", "ram", "ram_failed", "tables", "iommu_init", "iommu_map",
                       "add_vcpu", "ready", "mmio", "mmio_failed"}
        BY Zenon, <2>1
      <3> QED
        BY Zenon, <1>1, <1>9, <1>10, <3>1, <3>2, <3>3 DEF IInv, TypeOK, Shape, iommu
    <2>4. Stages'
      <3>0. i # n => i' \in 1 .. n
        BY <2>7, <2>8
      <3>1. i # Len(Ram) => i' \in 1 .. Len(Ram)
        BY Zenon, <3>0 DEF n
      <3> QED
        BY Zenon, <1>1, <1>5, <1>9, <2>1, <3>1 DEF Stages
    <2>5. ASSUME NEW k \in DOMAIN Ram
          PROVE  /\ k <= i => pages'[Ram[k]] # NoFrame /\ pages'[Ram[k]] = relm_ept_get_mapping(Ram[k])'
                 /\ k > i => relm_ept_get_mapping(Ram[k])' = NoFrame
      <3>1. Ram[k] \in RamPages /\ Ram[k] \in Gpas /\ (Ram[k] = Ram[i] => k = i)
        BY Zenon, <1>5, PageFacts
      <3>2. /\ k < i => pages[Ram[k]] # NoFrame /\ pages[Ram[k]] = relm_ept_get_mapping(Ram[k])
            /\ k >= i => relm_ept_get_mapping(Ram[k]) = NoFrame
        BY Zenon, <1>1 DEF IInv, HostView
      <3>5. k \in 1 .. n
        BY Zenon, <2>7
      <3>3. CASE k = i
        <4>1. relm_ept_get_mapping(Ram[k])' = page /\ pages'[Ram[k]] = page
          BY <1>9, <1>15, <2>1, <2>2, <3>1, <3>3
        <4>2. ~(k > i)
          BY <2>7, <3>3
        <4> QED
          BY Zenon, <1>4, <4>1, <4>2
      <3>4. CASE k # i
        <4>1. /\ relm_ept_get_mapping(Ram[k])' = relm_ept_get_mapping(Ram[k])
              /\ pages'[Ram[k]] = pages[Ram[k]]
          BY <1>9, <2>1, <2>2, <3>1, <3>4
        <4>2. (k <= i => k < i) /\ (k > i => k >= i)
          BY <2>7, <3>5, <3>4
        <4> QED
          BY Zenon, <3>2, <4>1, <4>2
      <3> QED
        BY Zenon, <3>3, <3>4
    <2>6. HostView'
      <3>1. CASE i = Len(Ram)
        BY <1>5, <3>1, <2>5, <2>1 DEF RamPages, HostView
      <3>2. CASE i # Len(Ram)
        BY <2>7, <2>8, <2>1, <2>5, <3>2 DEF HostView
      <3> QED
        BY Zenon, <3>1, <3>2
    <2> QED
      BY <1>9, <1>10, <1>11, <1>12, <1>13, <2>3, <2>4, <2>6 DEF IInv, StepOK
  <1> QED
    BY Zenon, <1>14, <1>15

----------------------------------------------------------------------------
(* The other steps: the failures, the IOMMU, the APIC page and the devices. *)

\* The steps that end a VM leave nothing behind but the IOMMU domain.
LEMMA EndOfVm ==
    ASSUME IInv, pc # "none", NEW S, DestroyEpt(S), FreeVm
    PROVE  StepOK
  <1>1. /\ pages' = NoPages /\ regions' = {} /\ apic' = NoFrame /\ pc' = "none" /\ i' = 0
        /\ enabled' = enabled /\ io' = io /\ n_mapped' = n_mapped
    BY Zenon DEF FreeVm, iommu
  <1>2. Hangs' /\ Shape' /\ \A g \in Gpas : relm_ept_get_mapping(g)' = NoFrame
    BY Zenon, DestroyStep DEF IInv, Stages
  <1>3. pml4' = NoFrame /\ n4k' = n4k
    BY Zenon DEF DestroyEpt
  <1>4. TypeOK'
    BY <1>1, PageFacts, <1>2, <1>3 DEF NoPages, IInv, TypeOK, Shape
  <1>5. Contents' /\ Stages' /\ HostView' /\ StatsExact' /\ DeviceView' /\ Removes
    BY Zenon, <1>1, <1>2, <1>3 DEF Contents, Stages, HostView, StatsExact, DeviceView, DmaMirrorsEpt, Removes
  <1> QED
    BY Zenon, <1>2, <1>4, <1>5 DEF IInv, StepOK

\* Steps that touch neither the tables nor the frames.
LEMMA SameTables ==
    ASSUME IInv, UNCHANGED <<use, ept>>
    PROVE  /\ Hangs' /\ Shape' /\ StatsExact' /\ n4k' \in 0 .. Cardinality(Gpas) /\ Adds
           /\ pml4' = pml4 /\ use' = use
           /\ \A g \in Gpas : relm_ept_get_mapping(g)' = relm_ept_get_mapping(g)
           /\ apic' = apic => Contents'
  <1>1. use' = use /\ pml4' = pml4 /\ tab' = tab /\ n4k' = n4k
    BY Zenon DEF ept
  <1>2. use \in [Frames -> {"free", "table", "ram", "apic"}] /\ n4k \in 0 .. Cardinality(Gpas)
    BY Zenon DEF IInv, TypeOK
  <1>3. /\ Hangs' /\ Shape' /\ Mapped' = Mapped
        /\ \A g \in Gpas : relm_ept_get_mapping(g)' = relm_ept_get_mapping(g)
    BY Zenon, <1>1, <1>2, TablesKept DEF IInv
  <1>4. apic' = apic => Contents'
    BY Zenon, <1>1, <1>3, ContentsKept DEF IInv
  <1> QED
    BY Zenon, <1>1, <1>2, <1>3, <1>4 DEF IInv, StatsExact, Adds

LEMMA FailAndClean ==
    ASSUME IInv, AllocRamFails \/ CleanupRam
    PROVE  StepOK
  <1>1. CASE AllocRamFails
    <2>1. /\ pc = "ram" /\ pc' = "ram_failed" /\ UNCHANGED <<use, ept>> /\ UNCHANGED iommu
          /\ pages' = pages /\ regions' = regions /\ apic' = apic /\ i' = i
      BY Zenon, <1>1 DEF AllocRamFails
    <2>2. /\ Hangs' /\ Shape' /\ StatsExact' /\ n4k' \in 0 .. Cardinality(Gpas) /\ Adds
          /\ pml4' = pml4 /\ use' = use /\ Contents'
          /\ \A g \in Gpas : relm_ept_get_mapping(g)' = relm_ept_get_mapping(g)
      BY Zenon, <2>1, SameTables
    <2>3. TypeOK'
      BY Zenon, <2>1, <2>2 DEF IInv, TypeOK, Shape, iommu
    <2>4. Stages' /\ HostView'
      BY Zenon, <2>1, <2>2 DEF IInv, Stages, HostView
    <2>5. DeviceView'
      BY Zenon, <2>1, <2>2, DeviceKept, PageFacts DEF IInv
    <2> QED
      BY Zenon, <2>2, <2>3, <2>4, <2>5 DEF IInv, StepOK
  <1>2. CASE CleanupRam
    BY Zenon, <1>2, EndOfVm DEF CleanupRam
  <1> QED
    BY Zenon, <1>1, <1>2

LEMMA GuestTables ==
    ASSUME IInv, CreateGuestTables
    PROVE  StepOK
  <1>1. pc = "tables"
    BY Zenon DEF CreateGuestTables
  <1>2. CASE pc' = "iommu_init" /\ UNCHANGED <<use, ept, pages, regions, apic, iommu, i>>
    <2>1. /\ pc' = "iommu_init" /\ UNCHANGED <<use, ept>> /\ UNCHANGED iommu
          /\ pages' = pages /\ regions' = regions /\ apic' = apic /\ i' = i
      BY Zenon, <1>2
    <2>2. /\ Hangs' /\ Shape' /\ StatsExact' /\ n4k' \in 0 .. Cardinality(Gpas) /\ Adds
          /\ pml4' = pml4 /\ use' = use /\ Contents'
          /\ \A g \in Gpas : relm_ept_get_mapping(g)' = relm_ept_get_mapping(g)
      BY Zenon, <2>1, SameTables
    <2>3. TypeOK'
      BY Zenon, <2>1, <2>2 DEF IInv, TypeOK, Shape, iommu
    <2>4. Stages' /\ HostView'
      <3>1. Stages'
        BY <1>1, <2>1, <2>2, PageFacts DEF IInv, Stages
      <3>2. HostView'
        BY <1>1, <2>1, <2>2, PageFacts DEF IInv, HostView
      <3> QED
        BY Zenon, <3>1, <3>2
    <2>5. DeviceView'
      BY Zenon, <1>1, <2>1, <2>2, DeviceKept, PageFacts DEF IInv
    <2> QED
      BY Zenon, <2>2, <2>3, <2>4, <2>5 DEF IInv, StepOK
  <1>3. CASE DestroyEpt({}) /\ FreeVm
    BY Zenon, <1>1, <1>3, EndOfVm
  <1>4. CASE DestroyEpt(RamFrames) /\ FreeVm
    BY Zenon, <1>1, <1>4, EndOfVm
  <1> QED
    BY Zenon, <1>2, <1>3, <1>4 DEF CreateGuestTables

LEMMA IommuInit ==
    ASSUME IInv, relm_iommu_init
    PROVE  StepOK
  <1>1. /\ pc = "iommu_init" /\ UNCHANGED <<use, ept>>
        /\ pages' = pages /\ regions' = regions /\ apic' = apic
    BY Zenon DEF relm_iommu_init
  <1>2. /\ Hangs' /\ Shape' /\ StatsExact' /\ n4k' \in 0 .. Cardinality(Gpas) /\ Adds
        /\ pml4' = pml4 /\ use' = use /\ Contents'
        /\ \A g \in Gpas : relm_ept_get_mapping(g)' = relm_ept_get_mapping(g)
    BY Zenon, <1>1, SameTables
  <1>3. pc' \in {"iommu_map", "add_vcpu"} /\ (pc' = "iommu_map" => i' = 1) /\ i' \in {0, 1}
    BY Zenon DEF relm_iommu_init
  <1>4. Stages' /\ HostView'
    <2>1. Stages'
      BY <1>1, <1>2, <1>3, PageFacts DEF IInv, Stages
    <2>2. HostView'
      BY <1>1, <1>2, <1>3, PageFacts DEF IInv, HostView
    <2> QED
      BY Zenon, <2>1, <2>2
  <1>5. CASE enabled' = TRUE /\ io' = NoPages /\ n_mapped' = 0 /\ pc' = "iommu_map" /\ i' = 1
    <2>1. io' \in [RamPages -> Frames \cup {NoFrame}] /\ \A g \in RamPages : io'[g] = NoFrame
      BY Zenon, <1>5 DEF NoPages
    <2>2. n_mapped' \in 0 .. Len(Ram) /\ i' \in 0 .. Len(Ram) + Len(Mmio) + 1
      BY <1>5, PageFacts
    <2>3. TypeOK'
      BY Zenon, <1>1, <1>2, <1>5, <2>1, <2>2 DEF IInv, TypeOK, Shape
    <2>4. {g \in RamPages : io'[g] # NoFrame} = {}
      BY Zenon, <2>1
    <2>5. DmaMirrorsEpt'
      BY Zenon, <1>5, <2>1, <2>4, FS_EmptySet DEF DmaMirrorsEpt
    <2>6. \A k \in DOMAIN Ram : ~(k < i') /\ io'[Ram[k]] = NoFrame
      BY <1>5, <2>1, PageFacts
    <2>7. DeviceView'
      BY <1>5, <2>5, <2>6 DEF DeviceView
    <2> QED
      BY Zenon, <1>2, <1>4, <2>3, <2>7 DEF IInv, StepOK
  <1>6. CASE pc' = "add_vcpu" /\ i' = 0 /\ UNCHANGED iommu
    <2>1. ~enabled /\ enabled' = enabled /\ io' = io /\ n_mapped' = n_mapped
      BY Zenon, <1>1, <1>6 DEF IInv, DeviceView, iommu
    <2>2. i' \in 0 .. Len(Ram) + Len(Mmio) + 1
      BY <1>6, PageFacts
    <2>3. TypeOK'
      BY Zenon, <1>1, <1>2, <1>6, <2>1, <2>2 DEF IInv, TypeOK, Shape
    <2>4. DeviceView'
      BY Zenon, <1>6, <2>1 DEF DeviceView, DmaMirrorsEpt
    <2> QED
      BY Zenon, <1>2, <1>4, <2>3, <2>4 DEF IInv, StepOK
  <1> QED
    BY Zenon, <1>5, <1>6 DEF relm_iommu_init

LEMMA IommuMapPage ==
    ASSUME IInv, relm_iommu_map_guest_ram
    PROVE  StepOK
  <1> DEFINE hpa == relm_ept_get_mapping(Ram[i])
             last == i = Len(Ram)
  <1>1. /\ pc = "iommu_map" /\ UNCHANGED <<use, ept>>
        /\ pages' = pages /\ regions' = regions /\ apic' = apic /\ enabled' = enabled
        /\ io' = [io EXCEPT ![Ram[i]] = hpa]
        /\ n_mapped' = IF hpa = NoFrame THEN n_mapped ELSE n_mapped + 1
        /\ i' = IF last THEN 0 ELSE i + 1
        /\ pc' = IF last THEN "add_vcpu" ELSE "iommu_map"
    BY Zenon DEF relm_iommu_map_guest_ram
  <1>2. /\ Hangs' /\ Shape' /\ StatsExact' /\ n4k' \in 0 .. Cardinality(Gpas) /\ Adds
        /\ pml4' = pml4 /\ use' = use /\ Contents'
        /\ \A g \in Gpas : relm_ept_get_mapping(g)' = relm_ept_get_mapping(g)
    BY Zenon, <1>1, SameTables
  <1> DEFINE n == Len(Ram)
  <1>3. /\ n \in Nat /\ i \in 1 .. n /\ i \in Nat /\ DOMAIN Ram = 1 .. n
        /\ Ram[i] \in RamPages /\ Ram[i] \in Gpas
        /\ \A k \in DOMAIN Ram : Ram[k] \in RamPages /\ Ram[k] \in Gpas /\ (Ram[k] = Ram[i] => k = i)
    BY <1>1, PageFacts DEF IInv, Stages
  <1>4. \A k \in DOMAIN Ram : pages[Ram[k]] # NoFrame /\ pages[Ram[k]] = relm_ept_get_mapping(Ram[k])
    BY Zenon, <1>1, <1>3 DEF IInv, HostView
  <1>5. hpa # NoFrame /\ hpa \in Frames
    BY <1>3, <1>4 DEF IInv, TypeOK
  <1>6. /\ enabled /\ n_mapped = i - 1
        /\ \A k \in DOMAIN Ram : io[Ram[k]] = IF k < i THEN relm_ept_get_mapping(Ram[k]) ELSE NoFrame
    BY Zenon, <1>1 DEF IInv, DeviceView
  <1>7. /\ n_mapped = Cardinality({g \in RamPages : io[g] # NoFrame})
        /\ io \in [RamPages -> Frames \cup {NoFrame}]
    BY Zenon, <1>1, <1>6 DEF IInv, DeviceView, DmaMirrorsEpt, TypeOK
  <1> HIDE DEF hpa, n, last
  <1>8. n_mapped' = i /\ n_mapped' = n_mapped + 1
    BY <1>1, <1>3, <1>5, <1>6
  <1>9. /\ io' \in [RamPages -> Frames \cup {NoFrame}]
        /\ \A g \in RamPages : io'[g] = IF g = Ram[i] THEN hpa ELSE io[g]
    BY Zenon, <1>1, <1>3, <1>5, <1>7
  <1>10. \A k \in DOMAIN Ram : io'[Ram[k]] = IF k <= i THEN relm_ept_get_mapping(Ram[k]) ELSE NoFrame
    BY ONLY <1>3, <1>6, <1>9 DEF hpa
  <1>11. {g \in RamPages : io'[g] # NoFrame} = {g \in RamPages : io[g] # NoFrame} \cup {Ram[i]}
    BY Zenon, <1>3, <1>5, <1>9
  <1>12. io[Ram[i]] = NoFrame
    BY <1>3, <1>6
  <1>13. n_mapped' = Cardinality({g \in RamPages : io'[g] # NoFrame})
    <2> DEFINE S == {g \in RamPages : io[g] # NoFrame}
    <2>1. S \in SUBSET Gpas /\ Ram[i] \notin S
      BY Zenon, <1>12, PageFacts
    <2> HIDE DEF S
    <2>2. IsFiniteSet(S)
      BY Zenon, <2>1, FinitePages, FS_Subset
    <2>3. Cardinality(S \cup {Ram[i]}) = Cardinality(S) + 1
      BY Zenon, <2>1, <2>2, FS_AddElement
    <2>4. n_mapped' = Cardinality(S) + 1
      BY Zenon, <1>7, <1>8 DEF S
    <2> QED
      BY Zenon, <1>11, <2>3, <2>4 DEF S
  <1>14. last => \A g \in RamPages : io'[g] # NoFrame
    BY <1>3, <1>4, <1>10 DEF RamPages, last, n
  <1>15. last => {g \in RamPages : io'[g] # NoFrame} = RamPages
    BY Zenon, <1>14
  <1>16. DmaMirrorsEpt'
    <2>1. ASSUME NEW g \in RamPages, io'[g] # NoFrame PROVE io'[g] = relm_ept_get_mapping(g)'
      BY Zenon, <1>2, <1>3, <1>10, <2>1 DEF RamPages
    <2>2. pc' = "add_vcpu" => last
      BY Zenon, <1>1
    <2>3. pc' = "add_vcpu" => n_mapped' = Cardinality(RamPages)
      BY Zenon, <1>13, <1>15, <2>2
    <2> QED
      BY Zenon, <1>13, <2>1, <2>3 DEF DmaMirrorsEpt
  <1>17. DeviceView'
    <2>1. ASSUME ~last
          PROVE  /\ n_mapped' = i' - 1
                 /\ \A k \in DOMAIN Ram : io'[Ram[k]] = IF k < i' THEN relm_ept_get_mapping(Ram[k])' ELSE NoFrame
      <3>1. i' = i + 1
        BY Zenon, <1>1, <2>1
      <3>2. \A k \in DOMAIN Ram : k < i' <=> k <= i
        BY <1>3, <3>1
      <3>3. n_mapped' = i' - 1
        <4>1. i \in Nat /\ n_mapped' = i
          BY Zenon, <1>3, <1>8
        <4>2. (i + 1) - 1 = i
          BY <4>1
        <4> QED
          BY Zenon, <3>1, <4>1, <4>2
      <3> QED
        BY Zenon, <1>2, <1>3, <1>10, <3>2, <3>3
    <2>2. enabled'
      BY Zenon, <1>1, <1>6
    <2> QED
      BY Zenon, <1>1, <1>16, <2>1, <2>2 DEF DeviceView
  <1>18. Stages' /\ HostView'
    <2>1. ~last => i' \in 1 .. n
      <3>1. n \in Nat /\ i \in 1 .. n
        BY Zenon, <1>3
      <3>2. ~last => i # n /\ i' = i + 1
        BY Zenon, <1>1 DEF last, n
      <3> QED
        BY <3>1, <3>2
    <2>2. ~last => i' \in 1 .. Len(Ram)
      BY Zenon, <2>1 DEF n
    <2> QED
      BY <1>1, <1>2, <2>2, PageFacts DEF IInv, Stages, HostView
  <1>19. TypeOK'
    <2>1. n_mapped' \in 0 .. n /\ (i' = 0 \/ i' = i + 1)
      BY <1>1, <1>3, <1>8
    <2>2. i' \in 0 .. Len(Ram) + Len(Mmio) + 1
      BY <1>3, <2>1, PageFacts DEF n
    <2> QED
      BY Zenon, <1>1, <1>2, <1>9, <2>1, <2>2 DEF IInv, TypeOK, Shape, n
  <1> QED
    BY Zenon, <1>2, <1>17, <1>18, <1>19 DEF IInv, StepOK

LEMMA IommuUnmapPage ==
    ASSUME IInv, NEW g \in RamPages, relm_iommu_unmap(g)
    PROVE  StepOK
  <1>1. /\ pc = "ready" /\ UNCHANGED <<use, ept>> /\ enabled /\ io[g] # NoFrame
        /\ pages' = pages /\ regions' = regions /\ apic' = apic /\ enabled' = enabled
        /\ io' = [io EXCEPT ![g] = NoFrame] /\ pc' = pc /\ i' = i
        /\ n_mapped' = IF n_mapped >= 1 THEN n_mapped - 1 ELSE 0
    BY Zenon DEF relm_iommu_unmap
  <1>2. /\ Hangs' /\ Shape' /\ StatsExact' /\ n4k' \in 0 .. Cardinality(Gpas) /\ Adds
        /\ pml4' = pml4 /\ use' = use /\ Contents'
        /\ \A q \in Gpas : relm_ept_get_mapping(q)' = relm_ept_get_mapping(q)
    BY Zenon, <1>1, SameTables
  <1>3. Stages' /\ HostView'
    BY <1>1, <1>2, PageFacts DEF IInv, Stages, HostView
  <1>4. /\ \A q \in RamPages : io[q] # NoFrame => io[q] = relm_ept_get_mapping(q)
        /\ n_mapped = Cardinality({q \in RamPages : io[q] # NoFrame})
        /\ io \in [RamPages -> Frames \cup {NoFrame}] /\ n_mapped \in 0 .. Len(Ram)
    BY Zenon, <1>1 DEF IInv, DeviceView, DmaMirrorsEpt, TypeOK
  <1>5. /\ io' \in [RamPages -> Frames \cup {NoFrame}]
        /\ \A q \in RamPages : io'[q] = IF q = g THEN NoFrame ELSE io[q]
    BY Zenon, <1>1, <1>4
  <1>6. n_mapped' = Cardinality({q \in RamPages : io'[q] # NoFrame})
    <2> DEFINE S == {q \in RamPages : io[q] # NoFrame}
    <2>1. S \in SUBSET Gpas /\ g \in S /\ n_mapped = Cardinality(S)
      BY Zenon, <1>1, <1>4, PageFacts
    <2>2. {q \in RamPages : io'[q] # NoFrame} = S \ {g}
      BY Zenon, <1>5
    <2> HIDE DEF S
    <2>3. IsFiniteSet(S)
      BY Zenon, <2>1, FinitePages, FS_Subset
    <2>4. Cardinality(S \ {g}) = Cardinality(S) - 1
      BY Zenon, <2>1, <2>3, FS_RemoveElement
    <2>5. Cardinality(S) \in Nat /\ Cardinality(S) # 0
      BY Zenon, <2>1, <2>3, FS_CardinalityType, FS_EmptySet
    <2>6. n_mapped >= 1
      BY <2>1, <2>5
    <2> QED
      BY Zenon, <1>1, <2>1, <2>2, <2>4, <2>6
  <1>7. n_mapped' \in 0 .. Len(Ram)
    BY <1>1, <1>4, PageFacts
  <1>8. TypeOK'
    BY Zenon, <1>1, <1>2, <1>5, <1>7 DEF IInv, TypeOK, Shape
  <1>9. \A q \in RamPages : io'[q] # NoFrame => io'[q] = relm_ept_get_mapping(q)'
    BY <1>2, <1>4, <1>5, PageFacts
  <1>10. pc' # "add_vcpu" /\ pc' # "iommu_map" /\ pc' \notin {"ram", "ram_failed", "tables", "iommu_init"}
    BY Zenon, <1>1
  <1>11. DmaMirrorsEpt'
    BY Zenon, <1>6, <1>9, <1>10 DEF DmaMirrorsEpt
  <1>12. DeviceView'
    BY Zenon, <1>10, <1>11 DEF DeviceView
  <1> QED
    BY Zenon, <1>2, <1>3, <1>8, <1>12 DEF IInv, StepOK

LEMMA ApicAlloc ==
    ASSUME IInv, relm_apic_alloc
    PROVE  StepOK
  <1>1. PICK f : f = Fresh(Free, 1)
    BY Zenon
  <1>2. /\ pc = "add_vcpu" /\ Free # {} /\ use' = [use EXCEPT ![f] = "apic"] /\ apic' = f
        /\ pc' = "ready" /\ pml4' = pml4 /\ tab' = tab /\ n4k' = n4k /\ UNCHANGED iommu
        /\ pages' = pages /\ regions' = regions /\ i' = i
    BY Zenon, <1>1 DEF relm_apic_alloc, ept
  <1>3. f \in Frames /\ use[f] = "free"
    BY Zenon, <1>1, <1>2, FreshFree
  <1>4. use \in [Frames -> {"free", "table", "ram", "apic"}]
    BY Zenon DEF IInv, TypeOK
  <1>5. /\ use' \in [Frames -> {"free", "table", "ram", "apic"}]
        /\ \A t \in Frames : /\ use'[t] = "table" <=> use[t] = "table"
                             /\ use[t] \in {"ram", "apic"} => use'[t] = use[t]
        /\ use'[f] = "apic"
    BY Zenon, <1>2, <1>3, <1>4
  <1>6. /\ Hangs' /\ Shape' /\ Mapped' = Mapped
        /\ \A g \in Gpas : relm_ept_get_mapping(g)' = relm_ept_get_mapping(g)
    BY Zenon, <1>2, <1>5, TablesKept DEF IInv
  <1>7. apic = NoFrame /\ pml4 # NoFrame
    BY Zenon, <1>2 DEF IInv, Stages
  <1>8. Contents'
    BY Zenon, <1>5, <1>6, <1>7, ContentsKept DEF IInv
  <1>9. Stages' /\ HostView' /\ StatsExact' /\ Adds
    <2>1. StatsExact' /\ Adds
      BY Zenon, <1>2, <1>6 DEF IInv, StatsExact, Adds
    <2>2. Stages'
      BY <1>2, <1>3, <1>5, <1>7 DEF IInv, Stages
    <2>3. HostView'
      BY Zenon, <1>2, <1>6, PageFacts DEF IInv, HostView
    <2> QED
      BY Zenon, <2>1, <2>2, <2>3
  <1>10. DeviceView'
    BY Zenon, <1>2, <1>6, DeviceKept, PageFacts DEF IInv
  <1>11. TypeOK'
    BY Zenon, <1>2, <1>3, <1>6 DEF IInv, TypeOK, Shape, iommu
  <1> QED
    BY <1>6, <1>8, <1>9, <1>10, <1>11 DEF IInv, StepOK

LEMMA ApicMap ==
    ASSUME IInv, relm_apic_ept_setup
    PROVE  StepOK
  <1>1. /\ pc = "ready" /\ Apic \notin Mapped /\ UNCHANGED iommu
        /\ pages' = pages /\ regions' = regions /\ apic' = apic /\ pc' = pc /\ i' = i
    BY Zenon DEF relm_apic_ept_setup
  <1>2. PICK made \in 0 .. Missing(Apic) : MapPage(Apic, apic, "apic", made)
    BY Zenon DEF relm_apic_ept_setup
  <1>3. apic \in Frames /\ use[apic] = "apic" /\ apic # NoFrame /\ pml4 # NoFrame
    BY Zenon, <1>1, FrameFacts DEF IInv, Stages
  <1>4. relm_ept_get_mapping(Apic) = NoFrame /\ Apic \in Gpas
    BY Zenon, <1>1, PageFacts DEF Mapped
  <1>5. \A q \in Gpas : relm_ept_get_mapping(q) # apic
    BY <1>3, <1>4, FrameFacts DEF IInv, Contents, Target
  <1> DEFINE done == made = Missing(Apic)
  <1>6. MapDone(Apic, apic, "apic", done)
    BY Zenon, <1>2, <1>3, <1>4, <1>5, MapStep DEF IInv
  <1> HIDE DEF done
  <1>7. /\ Hangs' /\ Shape' /\ pml4' = pml4
        /\ \A q \in Gpas : relm_ept_get_mapping(q)' =
                            IF q = Apic /\ done THEN apic ELSE relm_ept_get_mapping(q)
        /\ \A f \in Frames : use[f] \in {"ram", "apic"} => use'[f] = use[f]
        /\ n4k = Cardinality(Mapped) => n4k' = Cardinality(Mapped')
    BY Zenon, <1>3, <1>6 DEF MapDone
  <1>8. StatsExact' /\ n4k' \in 0 .. Cardinality(Gpas)
    BY Zenon, <1>3, <1>7, FiniteMappedNext DEF IInv, StatsExact
  <1>9. use'[apic] = "apic"
    BY Zenon, <1>3, <1>7
  <1>10. Contents'
    <2>1. ASSUME NEW g \in Gpas, relm_ept_get_mapping(g)' # relm_ept_get_mapping(g)
          PROVE  relm_ept_get_mapping(g)' = apic /\ Target(g, apic)'
      BY Zenon, <1>1, <1>3, <1>7, <1>9, <2>1 DEF Target
    <2>2. PICK h : h = apic
      BY Zenon
    <2>3. \A g \in Gpas : relm_ept_get_mapping(g)' # relm_ept_get_mapping(g) =>
             relm_ept_get_mapping(g)' = h /\ Target(g, h)'
      BY Zenon, <1>1, <2>1, <2>2 DEF Target
    <2> QED
      BY <1>1, <1>7, <2>3, ContentsKept DEF IInv
  <1>11. \A g \in RamPages : relm_ept_get_mapping(g)' = relm_ept_get_mapping(g)
    BY Zenon, <1>7, PageFacts
  <1>12. Stages' /\ HostView'
    <2>1. Stages'
      BY <1>1, <1>3, <1>7, <1>9, <1>11, PageFacts DEF IInv, Stages
    <2>2. HostView'
      BY <1>1, <1>3, <1>7, <1>9, <1>11, PageFacts DEF IInv, HostView
    <2> QED
      BY Zenon, <2>1, <2>2
  <1>13. DeviceView'
    BY Zenon, <1>1, <1>11, DeviceKept DEF IInv
  <1>14. Adds
    BY Zenon, <1>4, <1>7 DEF Adds
  <1>15. TypeOK'
    BY Zenon, <1>1, <1>7, <1>8 DEF IInv, TypeOK, Shape, iommu
  <1> QED
    BY <1>7, <1>8, <1>10, <1>12, <1>13, <1>14, <1>15 DEF IInv, StepOK

\* Mapping a page of the device, whether or not every table can be had.
LEMMA MapDevice ==
    ASSUME IInv, pc = "mmio", NEW made \in 0 .. Missing(Mmio[i]),
           MapPage(Mmio[i], DevFrame(i), "device", made), apic' = apic
    PROVE  /\ Hangs' /\ Shape' /\ pml4' = pml4 /\ StatsExact' /\ n4k' \in 0 .. Cardinality(Gpas)
           /\ Contents' /\ Adds /\ use'[apic] = "apic"
           /\ \A g \in RamPages : relm_ept_get_mapping(g)' = relm_ept_get_mapping(g)
  <1>1. /\ i \in DOMAIN Mmio /\ pml4 # NoFrame /\ apic \in Frames /\ use[apic] = "apic"
    BY Zenon, PageFacts DEF IInv, Stages
  <1>2. PICK h : h = DevFrame(i)
    BY Zenon
  <1>3. h \in DevFrames /\ h \notin Frames /\ Mmio[i] \in Gpas /\ Mmio[i] \notin RamPages /\ Mmio[i] # Apic
    BY Zenon, <1>1, <1>2, FrameFacts, PageFacts
  <1>4. relm_ept_get_mapping(Mmio[i]) # NoFrame => relm_ept_get_mapping(Mmio[i]) = h
    BY Zenon, <1>1, <1>2, <1>3, PageFacts DEF IInv, Contents, Target
  <1>5. ASSUME NEW q \in Gpas, relm_ept_get_mapping(q) = h PROVE q = Mmio[i]
    BY <1>1, <1>2, <1>3, <1>5, FrameFacts DEF IInv, Contents, Target
  <1>6. \/ relm_ept_get_mapping(Mmio[i]) = h
        \/ relm_ept_get_mapping(Mmio[i]) = NoFrame /\ \A q \in Gpas : relm_ept_get_mapping(q) # h
    BY Zenon, <1>3, <1>4, <1>5, FrameFacts
  <1> DEFINE done == made = Missing(Mmio[i])
  <1>7. MapDone(Mmio[i], h, "device", done)
    BY Zenon, <1>1, <1>2, <1>3, <1>6, MapStep DEF IInv
  <1> HIDE DEF done
  <1>8. /\ Hangs' /\ Shape' /\ pml4' = pml4
        /\ \A q \in Gpas : relm_ept_get_mapping(q)' =
                            IF q = Mmio[i] /\ done THEN h ELSE relm_ept_get_mapping(q)
        /\ \A f \in Frames : use[f] \in {"ram", "apic"} => use'[f] = use[f]
        /\ n4k = Cardinality(Mapped) => n4k' = Cardinality(Mapped')
    BY Zenon, <1>7 DEF MapDone
  <1>9. StatsExact' /\ n4k' \in 0 .. Cardinality(Gpas)
    BY Zenon, <1>1, <1>8, FiniteMappedNext DEF IInv, StatsExact
  <1>10. Contents'
    <2>1. ASSUME NEW g \in Gpas, relm_ept_get_mapping(g)' # relm_ept_get_mapping(g)
          PROVE  relm_ept_get_mapping(g)' = h /\ Target(g, h)'
      BY Zenon, <1>1, <1>2, <1>8, <2>1 DEF Target
    <2> QED
      BY ZenonT(30), <1>8, <2>1, ContentsKept DEF IInv
  <1> QED
    BY <1>1, <1>3, <1>4, <1>8, <1>9, <1>10, PageFacts DEF Adds

LEMMA MmioSteps ==
    ASSUME IInv, MapMmioStart \/ MapMmioPage \/ MapMmioNoTable
    PROVE  StepOK
  <1>1. CASE MapMmioStart
    <2>1. /\ pc = "ready" /\ pc' = "mmio" /\ i' = 1 /\ UNCHANGED <<use, ept>> /\ UNCHANGED iommu
          /\ pages' = pages /\ regions' = regions /\ apic' = apic
      BY Zenon, <1>1 DEF MapMmioStart
    <2>2. /\ Hangs' /\ Shape' /\ StatsExact' /\ n4k' \in 0 .. Cardinality(Gpas) /\ Adds
          /\ pml4' = pml4 /\ use' = use /\ Contents'
          /\ \A g \in Gpas : relm_ept_get_mapping(g)' = relm_ept_get_mapping(g)
      BY Zenon, <2>1, SameTables
    <2>3. i' \in 1 .. Len(Mmio) /\ i' \in 0 .. Len(Ram) + Len(Mmio) + 1
      BY ONLY <2>1, PageFacts
    <2>4. TypeOK'
      BY Zenon, <2>1, <2>2, <2>3 DEF IInv, TypeOK, Shape, iommu
    <2>5. Stages' /\ HostView'
      BY ZenonT(30), <2>1, <2>2, <2>3, PageFacts DEF IInv, Stages, HostView
    <2>6. DeviceView'
      BY Zenon, <2>1, <2>2, DeviceKept, PageFacts DEF IInv
    <2> QED
      BY Zenon, <2>2, <2>4, <2>5, <2>6 DEF IInv, StepOK
  <1> DEFINE Kept ==
        /\ Hangs' /\ Shape' /\ pml4' = pml4 /\ StatsExact' /\ n4k' \in 0 .. Cardinality(Gpas)
        /\ Contents' /\ Adds /\ use'[apic] = "apic"
        /\ \A g \in RamPages : relm_ept_get_mapping(g)' = relm_ept_get_mapping(g)
  <1>2. pc = "mmio" => /\ i \in 1 .. Len(Mmio) /\ apic \in Frames /\ pml4 # NoFrame
                       /\ Missing(Mmio[i]) \in 0 .. 3
    BY Zenon, PageFacts, MissingFacts DEF IInv, Stages, Hangs
  <1>3. CASE MapMmioPage
    <2>1. /\ pc = "mmio" /\ MapPage(Mmio[i], DevFrame(i), "device", Missing(Mmio[i]))
          /\ i' = IF i = Len(Mmio) THEN 0 ELSE i + 1
          /\ pc' = IF i = Len(Mmio) THEN "ready" ELSE "mmio"
          /\ regions' = IF i = Len(Mmio) THEN regions \cup {"mmio"} ELSE regions
          /\ pages' = pages /\ apic' = apic /\ UNCHANGED iommu
      BY Zenon, <1>3 DEF MapMmioPage
    <2>2. Missing(Mmio[i]) \in 0 .. Missing(Mmio[i])
      BY <1>2, <2>1
    <2>3. Kept
      BY Zenon, <2>1, <2>2, MapDevice
    <2>4. i' \in 0 .. Len(Ram) + Len(Mmio) + 1 /\ (i # Len(Mmio) => i' \in 1 .. Len(Mmio))
      BY <1>2, <2>1, PageFacts
    <2>5. TypeOK'
      BY Zenon, <2>1, <2>3, <2>4 DEF IInv, TypeOK, Shape, iommu
    <2>6. Stages' /\ HostView'
      BY Zenon, <1>2, <2>1, <2>3, <2>4 DEF IInv, Stages, HostView
    <2>7. DeviceView'
      BY Zenon, <2>1, <2>3, DeviceKept DEF IInv
    <2> QED
      BY Zenon, <2>3, <2>5, <2>6, <2>7 DEF IInv, StepOK
  <1>4. CASE MapMmioNoTable
    <2>1. /\ pc = "mmio" /\ pc' = "mmio_failed" /\ UNCHANGED iommu
          /\ pages' = pages /\ regions' = regions /\ apic' = apic /\ i' = i
      BY Zenon, <1>4 DEF MapMmioNoTable
    <2>2. PICK made \in 0 .. Missing(Mmio[i]) - 1 : MapPage(Mmio[i], DevFrame(i), "device", made)
      BY Zenon, <1>4 DEF MapMmioNoTable
    <2>3. made \in 0 .. Missing(Mmio[i])
      BY <1>2, <2>1
    <2>4. Kept
      BY Zenon, <2>1, <2>2, <2>3, MapDevice
    <2>5. TypeOK'
      BY Zenon, <2>1, <2>4 DEF IInv, TypeOK, Shape, iommu
    <2>6. Stages' /\ HostView'
      BY Zenon, <1>2, <2>1, <2>4 DEF IInv, Stages, HostView
    <2>7. DeviceView'
      BY Zenon, <2>1, <2>4, DeviceKept DEF IInv
    <2> QED
      BY <2>4, <2>5, <2>6, <2>7 DEF IInv, StepOK
  <1> QED
    BY Zenon, <1>1, <1>3, <1>4

LEMMA MmioCleanup ==
    ASSUME IInv, MapMmioCleanup
    PROVE  StepOK
  <1> DEFINE S == {Mmio[k] : k \in 1 .. i - 1}
  <1>1. /\ pc = "mmio_failed" /\ UnmapPages(S) /\ pc' = "ready" /\ i' = 0
        /\ pages' = pages /\ regions' = regions /\ apic' = apic /\ UNCHANGED iommu
    BY Zenon DEF MapMmioCleanup
  <1>2. i \in 1 .. Len(Mmio) /\ apic \in Frames /\ use[apic] = "apic" /\ pml4 # NoFrame
    BY Zenon, <1>1 DEF IInv, Stages
  <1>3. \A k \in 1 .. i - 1 : k \in DOMAIN Mmio
    BY PageFacts, <1>2
  <1>4. S \in SUBSET Gpas /\ S \cap RamPages = {}
    BY <1>3, PageFacts
  <1> HIDE DEF S
  <1>5. /\ Hangs' /\ Shape'
        /\ \A q \in Gpas : relm_ept_get_mapping(q)' = IF q \in S THEN NoFrame ELSE relm_ept_get_mapping(q)
        /\ n4k = Cardinality(Mapped) => n4k' = Cardinality(Mapped')
    BY Zenon, <1>1, <1>4, UnmapStep DEF IInv
  <1>6. pml4' = pml4 /\ use' = use
    BY Zenon, <1>1 DEF UnmapPages
  <1>7. StatsExact' /\ n4k' \in 0 .. Cardinality(Gpas)
    BY Zenon, <1>2, <1>5, FiniteMappedNext DEF IInv, StatsExact
  <1>8. Contents'
    BY Zenon, <1>1, <1>5, <1>6, ContentsKept DEF IInv
  <1>9. \A g \in RamPages : relm_ept_get_mapping(g)' = relm_ept_get_mapping(g)
    BY Zenon, <1>4, <1>5, PageFacts
  <1>10. Stages' /\ HostView'
    BY Zenon, <1>1, <1>2, <1>6, <1>9 DEF IInv, Stages, HostView
  <1>11. DeviceView'
    BY Zenon, <1>1, <1>9, DeviceKept DEF IInv
  <1>12. i' \in 0 .. Len(Ram) + Len(Mmio) + 1
    BY <1>1, PageFacts
  <1>13. TypeOK'
    BY Zenon, <1>1, <1>5, <1>7, <1>12 DEF IInv, TypeOK, Shape, iommu
  <1>14. Removes
    BY Zenon, <1>5 DEF Removes
  <1> QED
    BY <1>5, <1>7, <1>8, <1>10, <1>11, <1>13, <1>14 DEF IInv, StepOK

LEMMA DestroyVm ==
    ASSUME IInv, relm_destroy_vm
    PROVE  StepOK
  BY Zenon, EndOfVm DEF relm_destroy_vm

LEMMA NoStep ==
    ASSUME IInv, UNCHANGED vars
    PROVE  StepOK
  <1>1. /\ UNCHANGED <<use, ept>> /\ UNCHANGED iommu /\ pc' = pc /\ i' = i
        /\ pages' = pages /\ regions' = regions /\ apic' = apic
        /\ enabled' = enabled /\ io' = io /\ n_mapped' = n_mapped
    BY Zenon DEF vars, iommu
  <1>2. /\ Hangs' /\ Shape' /\ StatsExact' /\ n4k' \in 0 .. Cardinality(Gpas) /\ Adds
        /\ pml4' = pml4 /\ use' = use /\ Contents'
        /\ \A g \in Gpas : relm_ept_get_mapping(g)' = relm_ept_get_mapping(g)
    BY Zenon, <1>1, SameTables
  <1>3. TypeOK'
    BY <1>1, <1>2 DEF IInv, TypeOK, Shape
  <1>4. Stages' /\ HostView'
    <2>1. Stages'
      BY <1>1, <1>2, PageFacts DEF IInv, Stages
    <2>2. HostView'
      BY <1>1, <1>2, PageFacts DEF IInv, HostView
    <2> QED
      BY Zenon, <2>1, <2>2
  <1>5. DeviceView'
    BY ZenonT(30), <1>1, <1>2, PageFacts DEF IInv, DeviceView, DmaMirrorsEpt
  <1> QED
    BY Zenon, <1>2, <1>3, <1>4, <1>5 DEF IInv, StepOK

LEMMA InitInv ==
    ASSUME Init
    PROVE  IInv /\ \A g \in Gpas : relm_ept_get_mapping(g) = NoFrame
  <1>1. Zero \in [Idx -> Entries] /\ \A x \in Idx : Zero[x] = NoFrame
    BY Zenon DEF Zero, Entries
  <1>2. Shape /\ \A f \in Frames, x \in Idx : tab[f][x] = NoFrame
    BY Zenon, <1>1 DEF Init, Shape
  <1>3. \A f \in Frames : use[f] = "table" <=> f = pml4
    BY Zenon, FrameFacts DEF Init
  <1>4. Hangs /\ \A g \in Gpas : relm_ept_get_mapping(g) = NoFrame
    BY <1>2, <1>3, EmptyTree, PageFacts
  <1>5. TypeOK
    <2>1. pages \in [RamPages -> Frames \cup {NoFrame}] /\ io \in [RamPages -> Frames \cup {NoFrame}]
      BY Zenon DEF Init, NoPages
    <2>2. 0 \in 0 .. Len(Ram) /\ 0 \in 0 .. Len(Ram) + Len(Mmio) + 1
      BY PageFacts
    <2>3. 0 \in 0 .. Cardinality(Gpas)
      BY FinitePages, FS_CardinalityType
    <2> QED
      BY Zenon, <1>2, <2>1, <2>2, <2>3 DEF Init, TypeOK, Shape
  <1>6. Contents /\ Stages /\ HostView /\ StatsExact /\ DeviceView
    BY Zenon, <1>4 DEF Init, Contents, Stages, HostView, StatsExact, DeviceView, DmaMirrorsEpt
  <1> QED
    BY Zenon, <1>4, <1>5, <1>6 DEF IInv

LEMMA StepInv ==
    ASSUME IInv, [Next]_vars
    PROVE  StepOK
  <1>1. CASE UNCHANGED vars
    BY Zenon, <1>1, NoStep
  <1>2. CASE \E g \in RamPages : relm_iommu_unmap(g)
    BY Zenon, <1>2, IommuUnmapPage
  <1>3. CASE \/ relm_create_vm \/ AllocRamPage \/ AllocRamFails \/ CleanupRam \/ CreateGuestTables
    BY Zenon, <1>3, CreateVm, AllocatePage, FailAndClean, GuestTables
  <1>4. CASE relm_iommu_init \/ relm_iommu_map_guest_ram \/ relm_apic_alloc \/ relm_apic_ept_setup
    BY Zenon, <1>4, IommuInit, IommuMapPage, ApicAlloc, ApicMap
  <1>5. CASE MapMmioStart \/ MapMmioPage \/ MapMmioNoTable \/ MapMmioCleanup \/ relm_destroy_vm
    BY Zenon, <1>5, MmioSteps, MmioCleanup, DestroyVm
  <1> QED
    BY Zenon, <1>1, <1>2, <1>3, <1>4, <1>5 DEF Next

LEMMA Invariance == Spec => []IInv
  <1>1. Init => IInv
    BY Zenon, InitInv
  <1>2. IInv /\ [Next]_vars => IInv'
    BY Zenon, StepInv DEF StepOK
  <1> QED
    BY <1>1, <1>2, PTL DEF Spec

----------------------------------------------------------------------------
(* The theorems. *)

\* The type invariant of the VM's memory.
THEOREM MemoryTypes == Spec => []TypeOK
  <1>1. IInv => TypeOK
    BY Zenon DEF IInv
  <1> QED
    BY <1>1, Invariance, PTL

\* The tables relm_ept_context_destroy frees are all the tables there are, each
\* hangs in one entry of one table, and pages_4kb counts the mapped pages.
THEOREM TablesAlwaysOwned == Spec => []TablesOwned
  <1>1. IInv => TablesOwned
    <2> SUFFICES ASSUME IInv PROVE TablesOwned
      BY Zenon
    <2> DEFINE tables == {f \in Frames : use[f] = "table"}
               parents(f) == {e \in tables \X Idx : tab[e[1]][e[2]] = f}
    <2>1. PICK lvl : Tree(lvl)
      BY Zenon DEF IInv, Hangs
    <2>2. tables = IF pml4 = NoFrame THEN {} ELSE Reachable
      BY Zenon, <2>1, TablesReached
    <2>3. ASSUME NEW f \in tables \ {pml4} PROVE Cardinality(parents(f)) = 1
      <3>1. f \in Frames /\ lvl[f] \in 2 .. 4 /\ f # NoFrame
        BY <2>1, FrameFacts DEF Tree, Levels
      <3>2. PICK t \in Frames, x \in Idx : tab[t][x] = f /\ lvl[t] \in 1 .. 3
        BY <2>1, <3>1, Parent
      <3>3. t \in tables
        BY <2>1, <3>2 DEF Tree, Levels
      <3>4. \A u \in Frames, y \in Idx : tab[u][y] = f => u = t /\ y = x
        BY <2>1, <3>1, <3>2 DEF Tree, Single
      <3>5. parents(f) = {<<t, x>>}
        BY <3>2, <3>3, <3>4
      <3> QED
        BY ZenonT(30), <3>5, FS_Singleton
    <2>4. pml4 # NoFrame => n4k = Cardinality(Mapped)
      BY Zenon DEF IInv, StatsExact
    <2> QED
      BY Zenon, <2>2, <2>3, <2>4 DEF TablesOwned
  <1> QED
    BY <1>1, Invariance, PTL

\* The guest reaches its own RAM, APIC page and device, and nothing else; no
\* frame is reached from two pages.
THEOREM GuestIsolated == Spec => []Isolation
  <1>1. IInv => Isolation
    BY ONLY FrameFacts, PageFacts, OneFramePerPage DEF IInv, Contents, Target, Mapped, Isolation
  <1> QED
    BY <1>1, Invariance, PTL

\* Host, guest and device see the same frame at every page of RAM.
THEOREM ViewsAlwaysAgree == Spec => []ViewsAgree
  <1>1. IInv => ViewsAgree
    BY Zenon DEF IInv, Stages, HostView, DeviceView, ViewsAgree, HostSeesGuestRam
  <1> QED
    BY <1>1, Invariance, PTL

\* The four-level tables implement the abstract map of the guest.
THEOREM TablesImplementMap == Spec => ImplementsGuestMap
  <1> DEFINE m == [g \in Gpas |-> relm_ept_get_mapping(g)]
  <1>1. Init => GM!Init
    BY Zenon, InitInv DEF GM!Init, GM!Empty
  <1>2. IInv /\ [Next]_vars => [GM!Next]_m
    <2> SUFFICES ASSUME IInv, [Next]_vars PROVE GM!Next
      BY Zenon
    <2>1. IInv' /\ (Adds \/ Removes)
      BY Zenon, StepInv DEF StepOK
    <2>2. \A g \in Gpas : m[g] = relm_ept_get_mapping(g) /\ m'[g] = relm_ept_get_mapping(g)'
      BY Zenon
    <2>3. CASE Adds
      <3>1. (Hangs => /\ \A g \in Gpas : relm_ept_get_mapping(g) \in Entries
                      /\ \A g, q \in Gpas :
                            relm_ept_get_mapping(g) # NoFrame /\ relm_ept_get_mapping(g) = relm_ept_get_mapping(q)
                            => g = q)'
        BY OneFramePerPage, PTL
      <3>2. Hangs'
        BY Zenon, <2>1 DEF IInv
      <3>3. \A g \in Gpas : relm_ept_get_mapping(g)' \in Frames \cup DevFrames \cup {NoFrame}
        BY Zenon, <3>1, <3>2 DEF Entries
      <3>4. GM!Map
        BY Zenon, <2>3, <3>1, <3>2, <3>3 DEF GM!Map, Adds
      <3> QED
        BY Zenon, <3>4 DEF GM!Next
    <2>4. CASE Removes
      BY Zenon, <2>4 DEF GM!Unmap, Removes, GM!Next
    <2> QED
      BY Zenon, <2>1, <2>3, <2>4
  <1> QED
    BY <1>1, <1>2, Invariance, PTL DEF Spec, ImplementsGuestMap, GM!Spec
=============================================================================
