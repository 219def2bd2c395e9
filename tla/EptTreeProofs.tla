--------------------------- MODULE EptTreeProofs ---------------------------
(***************************************************************************)
(* The tables that translate a guest's memory (Ept) as a tree: what a walk *)
(* reads, and what mapping a page adds to it, for every set of frames,     *)
(* size of the tables and layout of RAM, devices and APIC page that meets  *)
(* MemAssumption.                                                          *)
(***************************************************************************)
EXTENDS Ept, FiniteSetTheorems, TLAPS

----------------------------------------------------------------------------
(* The layout. *)

LEMMA FrameFacts ==
    /\ IsFiniteSet(Frames) /\ Frames \subseteq Nat /\ NoFrame \notin Frames
    /\ NoFrame \notin DevFrames /\ Frames \cap DevFrames = {}
    /\ \A k \in DOMAIN Mmio : DevFrame(k) \in DevFrames
    /\ \A j, k \in DOMAIN Mmio : DevFrame(j) = DevFrame(k) => j = k
  <1>1. /\ IsFiniteSet(Frames) /\ Frames \subseteq Nat \ {0} /\ DevBase \in Nat \ {0}
        /\ DevFrames \cap Frames = {} /\ Mmio \in Seq(Pages)
    BY Zenon, MemAssumption
  <1>2. \A k \in DOMAIN Mmio : k \in Nat /\ k >= 1
    BY <1>1
  <1> QED
    BY <1>1, <1>2 DEF NoFrame, DevFrame, DevFrames

LEMMA PageFacts ==
    /\ DOMAIN Ram = 1 .. Len(Ram) /\ Len(Ram) \in Nat \ {0}
    /\ DOMAIN Mmio = 1 .. Len(Mmio) /\ Len(Mmio) \in Nat \ {0}
    /\ \A k \in DOMAIN Ram : Ram[k] \in RamPages /\ Ram[k] \in Gpas
    /\ \A k \in DOMAIN Mmio : Mmio[k] \in Gpas /\ Mmio[k] \notin RamPages /\ Mmio[k] # Apic
    /\ \A j, k \in DOMAIN Ram : Ram[j] = Ram[k] => j = k
    /\ \A j, k \in DOMAIN Mmio : Mmio[j] = Mmio[k] => j = k
    /\ RamPages \subseteq Gpas /\ Gpas \subseteq Pages
    /\ Apic \in Gpas /\ Apic \notin RamPages
    /\ \A g \in Gpas : g \in RamPages \/ g = Apic \/ \E k \in DOMAIN Mmio : g = Mmio[k]
  <1>1. /\ Ram \in Seq(Pages) /\ Ram # <<>> /\ Mmio \in Seq(Pages) /\ Mmio # <<>> /\ Apic \in Pages
        /\ \A j, k \in DOMAIN Ram : Ram[j] = Ram[k] => j = k
        /\ \A j, k \in DOMAIN Mmio : Mmio[j] = Mmio[k] => j = k
        /\ \A j \in DOMAIN Ram, k \in DOMAIN Mmio : Ram[j] # Mmio[k] /\ Ram[j] # Apic /\ Mmio[k] # Apic
    BY Zenon, MemAssumption
  <1>2. /\ DOMAIN Ram = 1 .. Len(Ram) /\ Len(Ram) \in Nat \ {0}
        /\ DOMAIN Mmio = 1 .. Len(Mmio) /\ Len(Mmio) \in Nat \ {0}
        /\ \A k \in DOMAIN Ram : Ram[k] \in Pages
        /\ \A k \in DOMAIN Mmio : Mmio[k] \in Pages
    BY <1>1
  <1>3. 1 \in DOMAIN Ram /\ 1 \in DOMAIN Mmio
    BY <1>2
  <1> QED
    BY <1>1, <1>2, <1>3 DEF Gpas, RamPages

LEMMA FinitePages ==
    IsFiniteSet(RamPages) /\ IsFiniteSet(Gpas)
  <1>1. ASSUME NEW s \in Seq(Pages)
        PROVE  IsFiniteSet({s[k] : k \in DOMAIN s})
    <2>1. IsFiniteSet(1 .. Len(s)) /\ DOMAIN s = 1 .. Len(s)
      BY FS_Interval
    <2>2. s \in Surjection(1 .. Len(s), {s[k] : k \in DOMAIN s})
      BY <2>1 DEF Surjection
    <2> QED
      BY Zenon, <2>1, <2>2, FS_Surjection
  <1>2. Ram \in Seq(Pages) /\ Mmio \in Seq(Pages)
    BY Zenon, MemAssumption
  <1> DEFINE M == {Mmio[k] : k \in DOMAIN Mmio}
  <1>3. IsFiniteSet(RamPages) /\ IsFiniteSet(M)
    BY Zenon, <1>1, <1>2 DEF RamPages
  <1>4. Gpas = (RamPages \cup M) \cup {Apic}
    BY Zenon DEF Gpas, RamPages
  <1> HIDE DEF M
  <1>5. IsFiniteSet(RamPages \cup M)
    BY Zenon, <1>3, FS_Union
  <1> QED
    BY Zenon, <1>3, <1>4, <1>5, FS_AddElement

----------------------------------------------------------------------------
(* The allocator. *)

LEMMA LeastNat ==
    ASSUME NEW T \in SUBSET Nat, T # {}
    PROVE  \E m \in T : \A n \in T : m <= n
  <1>1. PICK m \in T : \A n \in T : ~ (<<n, m>> \in OpToRel(<, Nat))
    BY Zenon, NatLessThanWellFounded, WFMin
  <1>2. \A n \in T : ~ (n < m)
    BY Zenon, <1>1 DEF OpToRel
  <1> QED
    BY <1>2

\* A finite set of numbers has an upper bound.
LEMMA Bounded ==
    ASSUME NEW P \in SUBSET Nat, IsFiniteSet(P)
    PROVE  \E b \in Nat : \A x \in P : x <= b
  <1> DEFINE Unbounded(S) == \A b \in Nat : \E x \in S : x > b
             T == {n \in Nat : \E S \in SUBSET P : Cardinality(S) = n /\ Unbounded(S)}
  <1>1. SUFFICES ASSUME T # {} PROVE FALSE
    <2>1. Cardinality(P) \in Nat
      BY Zenon, FS_CardinalityType
    <2> QED
      BY <1>1, <2>1
  <1>2. PICK n \in T : \A m \in T : n <= m
    BY Zenon, <1>1, LeastNat
  <1>3. PICK S \in SUBSET P : Cardinality(S) = n /\ Unbounded(S)
    BY Zenon, <1>2
  <1>4. IsFiniteSet(S)
    BY Zenon, FS_Subset
  <1>5. PICK e \in S : TRUE
    BY Zenon, <1>3
  <1>6. Cardinality(S \ {e}) = n - 1 /\ n - 1 \in Nat
    <2>1. Cardinality(S \ {e}) = n - 1 /\ IsFiniteSet(S \ {e})
      BY Zenon, <1>3, <1>4, <1>5, FS_RemoveElement
    <2> QED
      BY Zenon, <2>1, FS_CardinalityType
  <1>7. Unbounded(S \ {e})
    BY <1>5, <1>3
  <1>8. n - 1 \in T
    BY Zenon, <1>6, <1>7
  <1> QED
    BY <1>2, <1>8

\* The allocator has as many frames to give as are free, all different.
LEMMA FreshFacts ==
    ASSUME NEW pool \in SUBSET Frames, NEW k \in Nat \ {0}, k <= Cardinality(pool)
    PROVE  /\ Fresh(pool, k) \in pool
           /\ Cardinality({x \in pool : x <= Fresh(pool, k)}) = k
  <1>1. IsFiniteSet(pool) /\ pool \in SUBSET Nat
    BY Zenon, FrameFacts, FS_Subset
  <1>2. \A x \in pool : x \in Nat
    BY Zenon, <1>1
  <1> DEFINE Upto(v) == {x \in pool : x <= v}
             T == {v \in Nat : Cardinality(Upto(v)) >= k}
  <1>3. \A v : IsFiniteSet(Upto(v)) /\ Cardinality(Upto(v)) \in Nat
    BY Zenon, <1>1, FS_Subset, FS_CardinalityType
  <1>4. T # {}
    BY <1>1, Bounded, Zenon
  <1>5. PICK f \in Nat : Cardinality(Upto(f)) >= k /\ \A v \in T : f <= v
    BY <1>4, LeastNat, Zenon
  <1>6. Cardinality(Upto(f)) >= k
    BY Zenon, <1>5
  <1> DEFINE less == {x \in pool : x < f}
  <1>7. Cardinality(less) < k /\ IsFiniteSet(less) /\ Cardinality(less) \in Nat
    <2>1. IsFiniteSet(less) /\ Cardinality(less) \in Nat
      BY Zenon, <1>1, FS_Subset, FS_CardinalityType
    <2>2. CASE f = 0
      BY <1>2, <2>2, <2>1, FS_EmptySet
    <2>3. CASE f # 0
      <3>1. f - 1 \in Nat /\ less = Upto(f - 1)
        BY <1>2, <2>3
      <3>2. ~ (Cardinality(Upto(f - 1)) >= k)
        BY <1>5, <3>1
      <3> HIDE DEF Upto, less
      <3> QED
        BY <2>1, <3>1, <3>2
    <2> QED
      BY Zenon, <2>2, <2>3
  <1>8. f \in pool
    BY <1>2, <1>3, <1>6, <1>7
  <1>9. Cardinality(Upto(f)) = k
    <2>1. f <= f /\ ~ (f < f) /\ \A x \in pool : x <= f <=> x < f \/ x = f
      BY <1>2
    <2>2. f \notin less /\ Upto(f) = less \cup {f}
      BY Zenon, <1>8, <2>1
    <2> HIDE DEF Upto, less
    <2>3. Cardinality(less \cup {f}) = Cardinality(less) + 1
      BY Zenon, <1>7, <2>2, FS_AddElement
    <2> QED
      BY <1>6, <1>7, <2>2, <2>3
  <1> QED
    BY Zenon, <1>8, <1>9 DEF Fresh

----------------------------------------------------------------------------
(* The tables as a tree. *)

Shape ==
    /\ use \in [Frames -> {"free", "table", "ram", "apic"}]
    /\ pml4 \in Frames \cup {NoFrame} /\ tab \in [Frames -> [Idx -> Entries]]

\* Every table has its level, 1 for the PML4; the others hang in a table.
Levels(lvl) ==
    /\ lvl \in [Frames -> 0 .. 4]
    /\ \A f \in Frames : (lvl[f] # 0 <=> use[f] = "table") /\ (lvl[f] = 1 <=> f = pml4)
    /\ \A f \in Frames : lvl[f] \in 2 .. 4 => \E t \in Frames, x \in Idx : tab[t][x] = f

\* Entries are in tables; they lead one level down, or to RAM, the APIC page
\* or a device.
Links(lvl) ==
    \A t \in Frames, x \in Idx : tab[t][x] # NoFrame =>
        /\ lvl[t] # 0
        /\ lvl[t] # 4 => tab[t][x] \in Frames /\ lvl[tab[t][x]] = lvl[t] + 1
        /\ lvl[t] = 4 => (tab[t][x] \in Frames => use[tab[t][x]] \in {"ram", "apic"})

\* No two entries lead to the same frame.
Single ==
    \A t, u \in Frames, x, y \in Idx :
        tab[t][x] # NoFrame /\ tab[t][x] = tab[u][y] => t = u /\ x = y

Tree(lvl) == Shape /\ Levels(lvl) /\ Links(lvl) /\ Single

\* The walk of a page: its tables and what its leaf holds.
Walk(g) == [k \in 1 .. 5 |-> IF k = 5 THEN relm_ept_get_mapping(g) ELSE Tables(g)[k]]

LEMMA PageIndices ==
    ASSUME NEW g \in Pages
    PROVE  /\ \A k \in 1 .. 4 : g[k] \in Idx
           /\ \A q \in Pages : (\A k \in 1 .. 4 : g[k] = q[k]) => g = q
  <1>1. /\ g = <<g[1], g[2], g[3], g[4]>>
        /\ g[1] \in Idx /\ g[2] \in Idx /\ g[3] \in Idx /\ g[4] \in Idx
    BY DEF Pages
  <1>2. \A k \in 1 .. 4 : k = 1 \/ k = 2 \/ k = 3 \/ k = 4
    OBVIOUS
  <1>3. \A q \in Pages : q = <<q[1], q[2], q[3], q[4]>>
    BY DEF Pages
  <1>4. \A k \in 1 .. 4 : g[k] \in Idx
    BY Zenon, <1>1, <1>2
  <1>5. ASSUME NEW q \in Pages, \A k \in 1 .. 4 : g[k] = q[k]
        PROVE  g = q
    BY <1>5, <1>1, <1>3
  <1> QED
    BY Zenon, <1>4, <1>5

LEMMA WalkSteps ==
    ASSUME NEW g \in Pages
    PROVE  /\ Walk(g)[1] = pml4 /\ Walk(g)[5] = relm_ept_get_mapping(g)
           /\ \A k \in 1 .. 4 : Walk(g)[k] = Tables(g)[k]
           /\ \A k \in 1 .. 4 : Walk(g)[k + 1] = Entry(Walk(g)[k], g[k])
  <1>1. /\ Tables(g)[1] = pml4
        /\ Tables(g)[2] = Entry(Tables(g)[1], g[1])
        /\ Tables(g)[3] = Entry(Tables(g)[2], g[2])
        /\ Tables(g)[4] = Entry(Tables(g)[3], g[3])
        /\ relm_ept_get_mapping(g) = Entry(Tables(g)[4], g[4])
    BY Zenon DEF Tables, relm_ept_get_mapping
  <1>2. /\ Walk(g)[1] = Tables(g)[1] /\ Walk(g)[2] = Tables(g)[2] /\ Walk(g)[3] = Tables(g)[3]
        /\ Walk(g)[4] = Tables(g)[4] /\ Walk(g)[5] = relm_ept_get_mapping(g)
    BY DEF Walk
  <1>3. \A k \in 1 .. 4 : k = 1 \/ k = 2 \/ k = 3 \/ k = 4
    OBVIOUS
  <1> QED
    BY <1>1, <1>2, <1>3

\* The tables of a walk are at their levels; it ends at the first empty entry.
LEMMA WalkFacts ==
    ASSUME NEW lvl, Tree(lvl), NEW g \in Pages
    PROVE  /\ Walk(g) \in [1 .. 5 -> Entries]
           /\ \A k \in 1 .. 4 :
                 /\ Walk(g)[k] \in Frames \cup {NoFrame}
                 /\ Walk(g)[k] # NoFrame => lvl[Walk(g)[k]] = k /\ Walk(g)[k + 1] = tab[Walk(g)[k]][g[k]]
                 /\ Walk(g)[k] = NoFrame => Walk(g)[k + 1] = NoFrame
  <1> DEFINE w == Walk(g)
             Good(k) == /\ w[k] \in Frames \cup {NoFrame}
                        /\ w[k] # NoFrame => lvl[w[k]] = k
  <1>1. /\ w[1] = pml4
        /\ \A k \in 1 .. 4 : w[k + 1] = Entry(w[k], g[k]) /\ g[k] \in Idx
    BY Zenon, WalkSteps, PageIndices
  <1>2. NoFrame \notin Frames
    BY Zenon, FrameFacts
  <1>3. DOMAIN w = 1 .. 5
    BY Zenon DEF Walk
  <1> HIDE DEF w
  <1>4. Good(1)
    BY Zenon, <1>1 DEF Tree, Shape, Levels
  <1>5. ASSUME NEW k \in 1 .. 3, Good(k)
        PROVE  Good(k + 1)
    BY <1>1, <1>2, <1>5 DEF Entry, Tree, Links
  <1>6. Good(1) /\ Good(2) /\ Good(3) /\ Good(4)
    BY <1>4, <1>5
  <1>7. \A k \in 1 .. 4 : Good(k)
    BY <1>6
  <1>8. \A k \in 1 .. 4 :
          /\ w[k] # NoFrame => w[k + 1] = tab[w[k]][g[k]]
          /\ w[k] = NoFrame => w[k + 1] = NoFrame
    BY Zenon, <1>1, <1>2, <1>7 DEF Entry
  <1>9. \A k \in 1 .. 5 : w[k] \in Entries
    BY <1>7, <1>1 DEF Entries, Entry, Tree, Shape
  <1>10. w \in [1 .. 5 -> Entries]
    BY Zenon, <1>3, <1>9 DEF w, Walk
  <1> QED
    BY Zenon, <1>7, <1>8, <1>10 DEF w

\* Two walks that meet below the PML4 came the same way.
LEMMA WalksMeet ==
    ASSUME NEW lvl, Tree(lvl), NEW g \in Pages, NEW q \in Pages, NEW k \in 1 .. 4,
           Walk(g)[k + 1] # NoFrame, Walk(g)[k + 1] = Walk(q)[k + 1]
    PROVE  Walk(g)[k] = Walk(q)[k] /\ g[k] = q[k] /\ Walk(g)[k] # NoFrame
  <1>1. /\ Walk(g)[k] \in Frames /\ Walk(g)[k + 1] = tab[Walk(g)[k]][g[k]]
        /\ Walk(q)[k] \in Frames /\ Walk(q)[k + 1] = tab[Walk(q)[k]][q[k]]
    BY WalkFacts
  <1>2. g[k] \in Idx /\ q[k] \in Idx
    BY Zenon, PageIndices
  <1>3. \A t, u \in Frames, x, y \in Idx :
          tab[t][x] # NoFrame /\ tab[t][x] = tab[u][y] => t = u /\ x = y
    BY Zenon DEF Tree, Single
  <1>4. Walk(g)[k] = Walk(q)[k] /\ g[k] = q[k]
    <2> DEFINE t == Walk(g)[k]
               u == Walk(q)[k]
               x == g[k]
               y == q[k]
    <2>1. t \in Frames /\ u \in Frames /\ x \in Idx /\ y \in Idx
      BY Zenon, <1>1, <1>2
    <2>2. tab[t][x] # NoFrame /\ tab[t][x] = tab[u][y]
      BY Zenon, <1>1
    <2> HIDE DEF t, u, x, y
    <2>3. t = u /\ x = y
      BY <1>3, <2>1, <2>2
    <2> QED
      BY Zenon, <2>3 DEF t, u, x, y
  <1> QED
    BY Zenon, <1>1, <1>4, FrameFacts

LEMMA OneLeafPerPage ==
    ASSUME NEW lvl, Tree(lvl), NEW g \in Pages, NEW q \in Pages,
           \/ Walk(g)[5] # NoFrame /\ Walk(g)[5] = Walk(q)[5]
           \/ Walk(g)[4] # NoFrame /\ Walk(g)[4] = Walk(q)[4] /\ g[4] = q[4]
    PROVE  g = q
  <1>1. Walk(g)[4] # NoFrame /\ Walk(g)[4] = Walk(q)[4] /\ g[4] = q[4]
    BY WalksMeet
  <1>2. Walk(g)[3] # NoFrame /\ Walk(g)[3] = Walk(q)[3] /\ g[3] = q[3]
    BY <1>1, WalksMeet
  <1>3. Walk(g)[2] # NoFrame /\ Walk(g)[2] = Walk(q)[2] /\ g[2] = q[2]
    BY <1>2, WalksMeet
  <1>4. g[1] = q[1]
    BY <1>3, WalksMeet
  <1>5. \A k \in 1 .. 4 : g[k] = q[k]
    BY <1>1, <1>2, <1>3, <1>4
  <1> QED
    BY Zenon, <1>5, PageIndices

LEMMA SmallSets ==
    Cardinality({4}) = 1 /\ Cardinality({3, 4}) = 2 /\ Cardinality({2, 3, 4}) = 3
  <1>1. IsFiniteSet({4}) /\ Cardinality({4}) = 1
    BY Zenon, FS_Singleton
  <1>2. {4} \cup {3} = {3, 4} /\ {3, 4} \cup {2} = {2, 3, 4} /\ 3 \notin {4} /\ 2 \notin {3, 4}
    OBVIOUS
  <1>3. IsFiniteSet({4} \cup {3}) /\ Cardinality({4} \cup {3}) = 2
    BY <1>1, <1>2, FS_AddElement
  <1>4. Cardinality({3, 4} \cup {2}) = 3
    BY <1>2, <1>3, FS_AddElement
  <1> QED
    BY Zenon, <1>1, <1>2, <1>3, <1>4

\* The tables a walk has are the first ones.
LEMMA MissingFacts ==
    ASSUME NEW lvl, Tree(lvl), NEW g \in Pages, pml4 # NoFrame
    PROVE  /\ Missing(g) \in 0 .. 3
           /\ \A k \in 1 .. 4 : Walk(g)[k] # NoFrame <=> k <= 4 - Missing(g)
  <1> DEFINE w == Walk(g)
             S == {k \in 2 .. 4 : w[k] = NoFrame}
  <1>1. w[1] # NoFrame /\ \A k \in 1 .. 4 : w[k] = Tables(g)[k]
    BY Zenon, WalkSteps
  <1>2. (w[2] = NoFrame => w[3] = NoFrame) /\ (w[3] = NoFrame => w[4] = NoFrame)
    BY WalkFacts
  <1>3. Missing(g) = Cardinality(S)
    BY <1>1 DEF Missing
  <1> HIDE DEF w
  <1>4. /\ \A k \in 1 .. 4 : k = 1 \/ k = 2 \/ k = 3 \/ k = 4
        /\ \A k \in 2 .. 4 : k = 2 \/ k = 3 \/ k = 4
    OBVIOUS
  <1>5. CASE w[2] = NoFrame
    BY <1>2, <1>4, <1>5, <1>3, SmallSets, <1>1 DEF w
  <1>6. CASE w[2] # NoFrame /\ w[3] = NoFrame
    BY <1>2, <1>4, <1>6, <1>3, SmallSets, <1>1 DEF w
  <1>7. CASE w[2] # NoFrame /\ w[3] # NoFrame /\ w[4] = NoFrame
    BY <1>2, <1>4, <1>7, <1>3, SmallSets, <1>1 DEF w
  <1>8. CASE w[2] # NoFrame /\ w[3] # NoFrame /\ w[4] # NoFrame
    BY <1>4, <1>8, <1>3, FS_EmptySet, <1>1 DEF w
  <1> QED
    BY Zenon, <1>5, <1>6, <1>7, <1>8

\* What WalkSteps, WalkFacts and PageIndices say of every page, to be used in
\* the state after a step.
WalkInTree(lvl, q) ==
    /\ Walk(q)[1] = pml4 /\ Walk(q)[5] = relm_ept_get_mapping(q)
    /\ \A k \in 1 .. 4 : Walk(q)[k] = Tables(q)[k]
    /\ Walk(q) \in [1 .. 5 -> Entries]
    /\ \A k \in 1 .. 4 :
          /\ q[k] \in Idx /\ Walk(q)[k] \in Frames \cup {NoFrame}
          /\ Walk(q)[k] # NoFrame => lvl[Walk(q)[k]] = k /\ Walk(q)[k + 1] = tab[Walk(q)[k]][q[k]]
          /\ Walk(q)[k] = NoFrame => Walk(q)[k + 1] = NoFrame

LEMMA WalksInTree ==
    \A lvl : Tree(lvl) => \A q \in Pages : WalkInTree(lvl, q)
  <1> SUFFICES ASSUME NEW lvl, Tree(lvl), NEW q \in Pages PROVE WalkInTree(lvl, q)
    BY Zenon
  <1>1. /\ Walk(q)[1] = pml4 /\ Walk(q)[5] = relm_ept_get_mapping(q)
        /\ \A k \in 1 .. 4 : Walk(q)[k] = Tables(q)[k]
    BY Zenon, WalkSteps
  <1>2. /\ Walk(q) \in [1 .. 5 -> Entries]
        /\ \A k \in 1 .. 4 :
              /\ Walk(q)[k] \in Frames \cup {NoFrame}
              /\ Walk(q)[k] # NoFrame => lvl[Walk(q)[k]] = k /\ Walk(q)[k + 1] = tab[Walk(q)[k]][q[k]]
              /\ Walk(q)[k] = NoFrame => Walk(q)[k + 1] = NoFrame
    BY Zenon, WalkFacts
  <1>3. \A k \in 1 .. 4 : q[k] \in Idx
    BY Zenon, PageIndices
  <1> QED
    BY Zenon, <1>1, <1>2, <1>3 DEF WalkInTree

----------------------------------------------------------------------------
(* Mapping a page. *)

\* The path relm_ept_map_page follows for page g: tables of the tree, then new
\* ones, then the frame h when every table could be had.
PathOK(path, lvl, g, h, done) ==
    /\ path \in [1 .. 5 -> Entries] /\ path[1] = pml4
    /\ \A k \in 1 .. 4 : path[k] \in Frames \cup {NoFrame}
    /\ \A k \in 1 .. 4 : path[k] = NoFrame => path[k + 1] = NoFrame
    /\ \A k \in 1 .. 4 : path[k] # NoFrame =>
          lvl[path[k]] = k \/ (k # 1 /\ use[path[k]] = "free" /\ path[k] # h)
    /\ \A j, k \in 1 .. 4 : path[k] # NoFrame /\ path[k] = path[j] => j = k
    /\ \A k \in 1 .. 3 : path[k + 1] # NoFrame =>
          \/ tab[path[k]][g[k]] = path[k + 1]
          \/ tab[path[k]][g[k]] = NoFrame /\ use[path[k + 1]] = "free"
    /\ path[5] = (IF done THEN h ELSE NoFrame)
    /\ done => path[4] # NoFrame
    /\ path[4] # NoFrame => tab[path[4]][g[4]] = relm_ept_get_mapping(g)

\* What mapping along a path does to the tables and the frames.
Mapping(path, g, h, kind, done) ==
    /\ tab' = [t \in Frames |-> [x \in Idx |->
                 IF Written(path, g, t, x) = {} THEN tab[t][x]
                 ELSE CHOOSE e \in Written(path, g, t, x) : TRUE]]
    /\ use' = [f \in Frames |-> IF \E k \in 2 .. 4 : path[k] = f THEN "table"
                                ELSE IF f = h /\ done THEN kind ELSE use[f]]
    /\ n4k' = IF done /\ g \notin Mapped THEN n4k + 1 ELSE n4k
    /\ pml4' = pml4

LEMMA FreeIsEmpty ==
    ASSUME NEW lvl, Tree(lvl), NEW f \in Frames, use[f] # "table"
    PROVE  lvl[f] = 0 /\ \A x \in Idx : tab[f][x] = NoFrame
  BY DEF Tree, Levels, Links

\* The first "have" tables of a walk are those of the tree, the next ones come
\* from the pool.
WalkOK(walk, lvl, g, pool, have, made) ==
    /\ walk \in [1 .. 4 -> Frames \cup {NoFrame}] /\ walk[1] = pml4
    /\ \A k \in 1 .. 4 : walk[k] # NoFrame =>
          \/ k <= have /\ lvl[walk[k]] = k /\ walk[k] = Walk(g)[k]
          \/ k > have /\ walk[k] \in pool
    /\ \A k \in 1 .. 4 : walk[k] # NoFrame <=> k <= have + made
    /\ \A j, k \in 1 .. 4 : walk[k] # NoFrame /\ walk[k] = walk[j] => j = k

\* The walk of relm_ept_map_page after it made some of the missing tables.
LEMMA WalkMade ==
    ASSUME NEW lvl, Tree(lvl), NEW g \in Pages, pml4 # NoFrame, NEW h,
           NEW made \in 0 .. Missing(g), NEW pool, pool = Free \ {h}, made <= Cardinality(pool),
           NEW walk, walk = GetOrCreate(g, pool, made)
    PROVE  WalkOK(walk, lvl, g, pool, 4 - Missing(g), made)
  <1> DEFINE have == 4 - Missing(g)
             Rank(f) == Cardinality({x \in pool : x <= f})
  <1>1. /\ Missing(g) \in 0 .. 3 /\ have \in 1 .. 4
        /\ \A k \in 1 .. 4 : Walk(g)[k] # NoFrame <=> k <= have
    BY MissingFacts
  <1>2. /\ Walk(g)[1] = pml4 /\ NoFrame \notin Frames
        /\ \A k \in 1 .. 4 : /\ Walk(g)[k] = Tables(g)[k] /\ Walk(g)[k] \in Frames \cup {NoFrame}
                             /\ Walk(g)[k] # NoFrame => lvl[Walk(g)[k]] = k
    BY WalkSteps, WalkFacts, FrameFacts
  <1>3. pool \in SUBSET Frames /\ \A f \in pool : use[f] = "free"
    BY Zenon DEF Free
  <1>4. /\ walk \in [1 .. 4 -> {walk[k] : k \in 1 .. 4}]
        /\ \A k \in 1 .. 4 : walk[k] = IF k <= have THEN Walk(g)[k]
                                       ELSE IF k - have <= made THEN Fresh(pool, k - have)
                                       ELSE NoFrame
    BY Zenon, <1>2 DEF GetOrCreate
  <1> HIDE DEF have
  <1>5. ASSUME NEW k \in 1 .. 4, k > have, k - have <= made
        PROVE  /\ Fresh(pool, k - have) \in pool
               /\ Rank(Fresh(pool, k - have)) = k - have
    <2>1. k - have \in Nat \ {0}
      BY <1>1, <1>5
    <2>2. k - have <= Cardinality(pool)
      BY <1>3, FrameFacts, FS_Subset, FS_CardinalityType, <1>1, <1>5
    <2> QED
      BY Zenon, <1>3, <2>1, <2>2, FreshFacts
  <1> HIDE DEF Rank
  <1>6. ASSUME NEW k \in 1 .. 4
        PROVE  \/ k <= have /\ walk[k] = Walk(g)[k] /\ walk[k] \in Frames /\ lvl[walk[k]] = k
               \/ /\ k > have /\ k <= have + made /\ walk[k] \in pool /\ walk[k] \in Frames
                  /\ Rank(walk[k]) = k - have
               \/ k > have + made /\ walk[k] = NoFrame
    BY <1>1, <1>2, <1>4, <1>3, <1>5
  <1>7. walk \in [1 .. 4 -> Frames \cup {NoFrame}] /\ walk[1] = pml4
    BY <1>1, <1>2, <1>4, <1>6
  <1>8. \A k \in 1 .. 4 : walk[k] # NoFrame =>
          \/ k <= have /\ lvl[walk[k]] = k /\ walk[k] = Walk(g)[k]
          \/ k > have /\ walk[k] \in pool
    BY Zenon, <1>6
  <1>9. \A k \in 1 .. 4 : walk[k] # NoFrame <=> k <= have + made
    BY <1>1, <1>2, <1>6
  <1>10. \A j, k \in 1 .. 4 : walk[k] # NoFrame /\ walk[k] = walk[j] => j = k
    BY <1>3, FreeIsEmpty, <1>1, <1>6
  <1> QED
    BY Zenon, <1>7, <1>8, <1>9, <1>10 DEF have, WalkOK

\* Every call of relm_ept_map_page is a mapping along a path.
LEMMA MapPath ==
    ASSUME NEW lvl, Tree(lvl), NEW g \in Pages, pml4 # NoFrame,
           NEW h \in Frames \cup DevFrames, h \in Frames => use[h] # "table",
           NEW kind, NEW made \in 0 .. Missing(g), MapPage(g, h, kind, made)
    PROVE  \E path : /\ PathOK(path, lvl, g, h, made = Missing(g))
                     /\ Mapping(path, g, h, kind, made = Missing(g))
  <1> DEFINE have == 4 - Missing(g)
             done == made = Missing(g)
  <1>1. PICK pool : pool = Free \ {h}
    BY Zenon
  <1>2. PICK walk : walk = GetOrCreate(g, pool, made)
    BY Zenon
  <1>3. PICK e : e = IF done THEN h ELSE NoFrame
    BY Zenon
  <1>4. PICK path : path = [k \in 1 .. 5 |-> IF k <= 4 THEN walk[k] ELSE e]
    BY Zenon
  <1>5. /\ made <= Cardinality(pool)
        /\ tab' = [t \in Frames |-> [x \in Idx |->
                     IF Written(path, g, t, x) = {} THEN tab[t][x]
                     ELSE CHOOSE z \in Written(path, g, t, x) : TRUE]]
        /\ use' = [f \in Frames |-> IF f \in {walk[k] : k \in 2 .. 4} \cap pool THEN "table"
                                    ELSE IF f = h /\ done THEN kind ELSE use[f]]
        /\ n4k' = IF done /\ g \notin Mapped THEN n4k + 1 ELSE n4k
        /\ pml4' = pml4
    BY <1>1, <1>2, <1>3, <1>4 DEF MapPage
  <1>6. /\ walk \in [1 .. 4 -> Frames \cup {NoFrame}] /\ walk[1] = pml4
        /\ \A k \in 1 .. 4 : walk[k] # NoFrame =>
              \/ k <= have /\ lvl[walk[k]] = k /\ walk[k] = Walk(g)[k]
              \/ k > have /\ walk[k] \in pool
        /\ \A k \in 1 .. 4 : walk[k] # NoFrame <=> k <= have + made
        /\ \A j, k \in 1 .. 4 : walk[k] # NoFrame /\ walk[k] = walk[j] => j = k
    <2>1. WalkOK(walk, lvl, g, pool, have, made)
      BY Zenon, <1>1, <1>2, <1>5, WalkMade
    <2> HIDE DEF have
    <2> QED
      BY Zenon, <2>1 DEF WalkOK
  <1>7. /\ path \in [1 .. 5 -> Entries] /\ path[5] = e
        /\ \A k \in 1 .. 4 : path[k] = walk[k]
    BY <1>3, <1>4, <1>6 DEF Entries
  <1>8. /\ Missing(g) \in 0 .. 3 /\ have \in 1 .. 4
        /\ \A k \in 1 .. 4 : Walk(g)[k] # NoFrame <=> k <= have
    BY MissingFacts
  <1>9. /\ pool \subseteq Frames
        /\ \A f \in pool : use[f] = "free" /\ f # h /\ f \in Frames /\ \A x \in Idx : tab[f][x] = NoFrame
    BY Zenon, <1>1, FreeIsEmpty DEF Free
  <1>t. have + made <= 4 /\ (done <=> have + made = 4) /\ made \in 0 .. 3 /\ have \in 1 .. 4
    BY <1>8
  <1>i. g \in Pages /\ \A k \in 1 .. 4 : g[k] \in Idx
    BY Zenon, PageIndices
  <1> HIDE DEF have, done
  <1>10. PathOK(path, lvl, g, h, done)
    <2>1. PICK w : w = Walk(g)
      BY Zenon
    <2>2. /\ w[5] = relm_ept_get_mapping(g)
          /\ \A k \in 1 .. 4 : /\ w[k] # NoFrame => w[k + 1] = tab[w[k]][g[k]]
                               /\ w[k] = NoFrame => w[k + 1] = NoFrame
      <3>1. WalkInTree(lvl, g)
        BY Zenon, WalksInTree
      <3> QED
        BY ONLY Zenon, <2>1, <3>1 DEF WalkInTree
    <2>3. \A k \in 1 .. 4 : w[k] # NoFrame <=> k <= have
      BY ONLY Zenon, <1>8, <2>1
    <2>4. /\ path \in [1 .. 5 -> Entries] /\ path[1] = pml4
          /\ \A k \in 1 .. 4 : path[k] \in Frames \cup {NoFrame}
          /\ \A j, k \in 1 .. 4 : path[k] # NoFrame /\ path[k] = path[j] => j = k
          /\ path[5] = (IF done THEN h ELSE NoFrame)
      BY ONLY <1>3, <1>6, <1>7
    <2>5. /\ \A k \in 1 .. 4 : path[k] = NoFrame => path[k + 1] = NoFrame
          /\ done => path[4] # NoFrame
      BY ONLY <1>3, <1>6, <1>7, <1>t
    <2>6. \A k \in 1 .. 4 : path[k] # NoFrame =>
              lvl[path[k]] = k \/ (k # 1 /\ use[path[k]] = "free" /\ path[k] # h)
      BY ONLY <1>6, <1>7, <1>9, <1>t
    <2>7. ASSUME NEW k \in 1 .. 4, path[k] # NoFrame
          PROVE  tab[path[k]][g[k]] = w[k + 1]
      <3>1. CASE path[k] = w[k] /\ k <= have
        BY ONLY Zenon, <2>2, <2>7, <3>1
      <3>2. CASE path[k] \in pool /\ k > have
        <4>1. tab[path[k]][g[k]] = NoFrame /\ ~(k <= have)
          BY ONLY <1>9, <1>i, <1>t, <2>7, <3>2
        <4> QED
          BY ONLY Zenon, <2>2, <2>3, <2>7, <4>1
      <3> QED
        BY ONLY Zenon, <1>6, <1>7, <2>1, <2>7, <3>1, <3>2
    <2>8. ASSUME NEW k \in 1 .. 3, path[k + 1] # NoFrame
          PROVE  \/ tab[path[k]][g[k]] = path[k + 1]
                 \/ tab[path[k]][g[k]] = NoFrame /\ use[path[k + 1]] = "free"
      <3>1. k \in 1 .. 4 /\ k + 1 \in 1 .. 4 /\ path[k] # NoFrame
        <4>1. k \in 1 .. 4 /\ k + 1 \in 1 .. 4
          BY ONLY <2>8
        <4> QED
          BY ONLY Zenon, <2>5, <2>8, <4>1
      <3>2. tab[path[k]][g[k]] = w[k + 1]
        BY ONLY Zenon, <2>7, <3>1
      <3>3. CASE path[k + 1] = w[k + 1]
        BY ONLY Zenon, <3>2, <3>3
      <3>4. CASE path[k + 1] \in pool /\ k + 1 > have
        <4>1. ~(k + 1 <= have)
          BY ONLY <1>t, <3>1, <3>4
        <4> QED
          BY ONLY Zenon, <1>9, <2>3, <3>1, <3>2, <3>4, <4>1
      <3> QED
        BY ONLY Zenon, <1>6, <1>7, <2>1, <2>8, <3>1, <3>3, <3>4
    <2>9. path[4] # NoFrame => tab[path[4]][g[4]] = relm_ept_get_mapping(g)
      <3>1. 4 \in 1 .. 4 /\ 4 + 1 = 5
        OBVIOUS
      <3> QED
        BY ONLY Zenon, <2>2, <2>7, <3>1
    <2> QED
      BY ONLY Zenon, <2>4, <2>5, <2>6, <2>8, <2>9 DEF PathOK
  <1>11. Mapping(path, g, h, kind, done)
    BY <1>7, FrameFacts, <1>6, <1>5 DEF Tree, Levels, Mapping
  <1> QED
    BY Zenon, <1>10, <1>11 DEF done

\* What the path says of each entry of the tables afterwards.
Filled(path, g) ==
    /\ tab' \in [Frames -> [Idx -> Entries]]
    /\ \A k \in 1 .. 4 : path[k + 1] # NoFrame => tab'[path[k]][g[k]] = path[k + 1]
    /\ \A t \in Frames, x \in Idx :
          \/ tab'[t][x] = tab[t][x]
          \/ \E k \in 1 .. 4 : /\ path[k] = t /\ g[k] = x /\ path[k + 1] # NoFrame
                               /\ tab'[t][x] = path[k + 1]

LEMMA MapFills ==
    ASSUME NEW lvl, Tree(lvl), NEW g \in Pages, NEW h, NEW kind, NEW done, NEW path,
           PathOK(path, lvl, g, h, done), Mapping(path, g, h, kind, done)
    PROVE  Filled(path, g)
  <1>1. /\ path \in [1 .. 5 -> Entries]
        /\ \A k \in 1 .. 4 : path[k] \in Frames \cup {NoFrame}
        /\ \A k \in 1 .. 4 : path[k] = NoFrame => path[k + 1] = NoFrame
        /\ \A j, k \in 1 .. 4 : path[k] # NoFrame /\ path[k] = path[j] => j = k
    BY Zenon DEF PathOK
  <1>2. tab \in [Frames -> [Idx -> Entries]] /\ \A k \in 1 .. 4 : g[k] \in Idx
    BY Zenon, PageIndices DEF Tree, Shape
  <1> DEFINE W(t, x) == Written(path, g, t, x)
  <1>3. ASSUME NEW t \in Frames, NEW x \in Idx
        PROVE  tab'[t][x] = IF W(t, x) = {} THEN tab[t][x] ELSE CHOOSE e \in W(t, x) : TRUE
    BY Zenon DEF Mapping
  <1>4. ASSUME NEW t \in Frames, NEW x \in Idx, NEW k \in 1 .. 4,
               path[k] = t, g[k] = x, path[k + 1] # NoFrame
        PROVE  W(t, x) = {path[k + 1]}
    BY FrameFacts, <1>1, <1>4 DEF Written
  <1>5. ASSUME NEW t \in Frames, NEW x \in Idx,
               ~ \E k \in 1 .. 4 : path[k] = t /\ g[k] = x /\ path[k + 1] # NoFrame
        PROVE  W(t, x) = {}
    BY Zenon, <1>5 DEF Written
  <1> HIDE DEF W
  <1>6. ASSUME NEW k \in 1 .. 4, path[k + 1] # NoFrame
        PROVE  path[k] \in Frames /\ tab'[path[k]][g[k]] = path[k + 1]
    <2>1. path[k] \in Frames /\ g[k] \in Idx
      BY Zenon, <1>1, <1>2, <1>6
    <2>2. W(path[k], g[k]) = {path[k + 1]}
      BY Zenon, <1>4, <1>6, <2>1
    <2> QED
      BY <1>3, <2>1, <2>2
  <1>7. ASSUME NEW t \in Frames, NEW x \in Idx
        PROVE  /\ tab'[t][x] \in Entries
               /\ \/ tab'[t][x] = tab[t][x]
                  \/ \E k \in 1 .. 4 : /\ path[k] = t /\ g[k] = x /\ path[k + 1] # NoFrame
                                       /\ tab'[t][x] = path[k + 1]
    <2>1. CASE \E k \in 1 .. 4 : path[k] = t /\ g[k] = x /\ path[k + 1] # NoFrame
      BY <2>1, <1>6, <1>1
    <2>2. CASE ~ \E k \in 1 .. 4 : path[k] = t /\ g[k] = x /\ path[k + 1] # NoFrame
      <3>1. tab'[t][x] = tab[t][x]
        BY Zenon, <1>3, <1>5, <2>2
      <3> QED
        BY Zenon, <1>2, <3>1
    <2> QED
      BY Zenon, <2>1, <2>2
  <1>8. tab' \in [Frames -> [Idx -> Entries]]
    BY <1>7 DEF Mapping
  <1> QED
    <2>1. \A k \in 1 .. 4 : path[k + 1] # NoFrame => tab'[path[k]][g[k]] = path[k + 1]
      BY ONLY Zenon, <1>6
    <2>2. \A t \in Frames, x \in Idx :
              \/ tab'[t][x] = tab[t][x]
              \/ \E k \in 1 .. 4 : /\ path[k] = t /\ g[k] = x /\ path[k + 1] # NoFrame
                                   /\ tab'[t][x] = path[k + 1]
      BY ONLY <1>7
    <2> QED
      BY ONLY Zenon, <1>8, <2>1, <2>2 DEF Filled

\* The frame is new to the tables, or already where it is mapped.
NewLeaf(g, h) ==
    \/ relm_ept_get_mapping(g) = h
    \/ relm_ept_get_mapping(g) = NoFrame /\ \A t \in Frames, x \in Idx : tab[t][x] # h

\* Only empty entries are filled, with frames that no entry holds.
OnlyFills(path, g) ==
    /\ \A t \in Frames, x \in Idx : tab[t][x] # NoFrame => tab'[t][x] = tab[t][x]
    /\ \A k \in 1 .. 4 : path[k + 1] # NoFrame =>
          \/ tab[path[k]][g[k]] = path[k + 1]
          \/ /\ tab[path[k]][g[k]] = NoFrame
             /\ \A t \in Frames, x \in Idx : tab[t][x] # path[k + 1]

\* Mapping a page does that.
LEMMA MapOnlyFills ==
    ASSUME NEW lvl, Tree(lvl), NEW g \in Pages, NEW h \in Frames \cup DevFrames, NEW done \in BOOLEAN,
           NEW path, PathOK(path, lvl, g, h, done), Filled(path, g), NewLeaf(g, h)
    PROVE  OnlyFills(path, g)
  <1>1. ASSUME NEW f \in Frames, use[f] = "free"
        PROVE  \A t \in Frames, x \in Idx : tab[t][x] # f
    BY <1>1, FrameFacts, FreeIsEmpty DEF Tree, Levels, Links
  <1>2. ASSUME NEW k \in 1 .. 4, path[k + 1] # NoFrame
        PROVE  \/ tab[path[k]][g[k]] = path[k + 1]
               \/ /\ tab[path[k]][g[k]] = NoFrame
                  /\ \A t \in Frames, x \in Idx : tab[t][x] # path[k + 1]
    BY <1>2, <1>1 DEF PathOK, NewLeaf
  <1>3. ASSUME NEW t \in Frames, NEW x \in Idx, tab[t][x] # NoFrame
        PROVE  tab'[t][x] = tab[t][x]
    BY <1>2, <1>3 DEF Filled
  <1> QED
    BY Zenon, <1>2, <1>3 DEF OnlyFills

\* The levels with the new tables.
NewLevels(path, lvl) ==
    [f \in Frames |-> IF \E k \in 2 .. 4 : path[k] = f THEN CHOOSE k \in 2 .. 4 : path[k] = f ELSE lvl[f]]

\* The tables on the path have their levels, and the old ones keep theirs.
LevelsExtend(path, lvl, nl) ==
    /\ nl \in [Frames -> 0 .. 4]
    /\ \A k \in 1 .. 4 : path[k] # NoFrame => nl[path[k]] = k
    /\ \A f \in Frames : lvl[f] # 0 => nl[f] = lvl[f]
    /\ \A f \in Frames : nl[f] # lvl[f] => \E k \in 2 .. 4 : path[k] = f

LEMMA NewLevelFacts ==
    ASSUME NEW lvl, Tree(lvl), NEW g \in Pages, NEW h, NEW done \in BOOLEAN,
           NEW path, PathOK(path, lvl, g, h, done), NEW nl, nl = NewLevels(path, lvl)
    PROVE  LevelsExtend(path, lvl, nl)
  <1>1. lvl \in [Frames -> 0 .. 4] /\ \A f \in Frames : lvl[f] # 0 <=> use[f] = "table"
    BY Zenon DEF Tree, Levels
  <1>2. /\ \A k \in 1 .. 4 : path[k] \in Frames \cup {NoFrame}
        /\ \A k \in 1 .. 4 : path[k] # NoFrame =>
              lvl[path[k]] = k \/ (k # 1 /\ use[path[k]] = "free" /\ path[k] # h)
        /\ \A j, k \in 1 .. 4 : path[k] # NoFrame /\ path[k] = path[j] => j = k
    BY Zenon DEF PathOK
  <1>3. ASSUME NEW k \in 2 .. 4, path[k] # NoFrame
        PROVE  path[k] \in Frames /\ nl[path[k]] = k
    BY <1>2, <1>3 DEF NewLevels
  <1>4. ASSUME NEW f \in Frames, ~ \E k \in 2 .. 4 : path[k] = f
        PROVE  nl[f] = lvl[f]
    BY Zenon, <1>4 DEF NewLevels
  <1>5. ASSUME NEW k \in 1 .. 4, path[k] # NoFrame
        PROVE  nl[path[k]] = k
    BY <1>3, <1>5, <1>2, <1>4
  <1>6. ASSUME NEW f \in Frames, lvl[f] # 0
        PROVE  nl[f] = lvl[f]
    BY FrameFacts, <1>1, <1>2, <1>6, <1>5, <1>4
  <1>7. nl \in [Frames -> 0 .. 4]
    BY <1>3, FrameFacts, <1>1, <1>4 DEF NewLevels
  <1> QED
    BY Zenon, <1>4, <1>5, <1>6, <1>7 DEF LevelsExtend

----------------------------------------------------------------------------
(* Mapping a page keeps the tree. *)

\* The tables are a tree again.
LEMMA MapTree ==
    ASSUME NEW lvl, Tree(lvl), NEW g \in Pages, pml4 # NoFrame,
           NEW h \in Frames \cup DevFrames, h \in Frames => use[h] # "table",
           NEW kind, h \in Frames => kind \in {"ram", "apic"}, NEW done \in BOOLEAN,
           NEW path, PathOK(path, lvl, g, h, done), Mapping(path, g, h, kind, done), NewLeaf(g, h),
           h \in Frames => use[h] \in {"free", kind},
           NEW nl, nl = NewLevels(path, lvl)
    PROVE  Tree(nl)'
  <1>1. /\ nl \in [Frames -> 0 .. 4]
        /\ \A k \in 1 .. 4 : path[k] # NoFrame => nl[path[k]] = k
        /\ \A f \in Frames : lvl[f] # 0 => nl[f] = lvl[f]
        /\ \A f \in Frames : nl[f] # lvl[f] => \E k \in 2 .. 4 : path[k] = f
    <2>1. LevelsExtend(path, lvl, nl)
      BY Zenon, NewLevelFacts
    <2> QED
      BY ONLY Zenon, <2>1 DEF LevelsExtend
  <1>2. /\ tab' \in [Frames -> [Idx -> Entries]]
        /\ \A k \in 1 .. 4 : path[k + 1] # NoFrame => tab'[path[k]][g[k]] = path[k + 1]
        /\ \A t \in Frames, x \in Idx :
              \/ tab'[t][x] = tab[t][x]
              \/ \E k \in 1 .. 4 : /\ path[k] = t /\ g[k] = x /\ path[k + 1] # NoFrame
                                   /\ tab'[t][x] = path[k + 1]
    <2>1. Filled(path, g)
      BY Zenon, MapFills
    <2> QED
      BY Zenon, <2>1 DEF Filled
  <1>3. /\ \A t \in Frames, x \in Idx : tab[t][x] # NoFrame => tab'[t][x] = tab[t][x]
        /\ \A k \in 1 .. 4 : path[k + 1] # NoFrame =>
              \/ tab[path[k]][g[k]] = path[k + 1]
              \/ /\ tab[path[k]][g[k]] = NoFrame
                 /\ \A t \in Frames, x \in Idx : tab[t][x] # path[k + 1]
    <2>1. Filled(path, g)
      BY Zenon, MapFills
    <2>2. OnlyFills(path, g)
      BY Zenon, <2>1, MapOnlyFills
    <2> QED
      BY ONLY Zenon, <2>2 DEF OnlyFills
  <1>4. /\ path \in [1 .. 5 -> Entries] /\ path[1] = pml4
        /\ \A k \in 1 .. 4 : path[k] \in Frames \cup {NoFrame}
        /\ \A k \in 1 .. 4 : path[k] = NoFrame => path[k + 1] = NoFrame
        /\ \A k \in 1 .. 4 : path[k] # NoFrame => lvl[path[k]] = k \/ use[path[k]] = "free"
        /\ \A j, k \in 1 .. 4 : path[k] # NoFrame /\ path[k] = path[j] => j = k
        /\ path[5] = (IF done THEN h ELSE NoFrame)
    BY Zenon DEF PathOK
  <1>5. /\ use' = [f \in Frames |-> IF \E k \in 2 .. 4 : path[k] = f THEN "table"
                                    ELSE IF f = h /\ done THEN kind ELSE use[f]]
        /\ pml4' = pml4
    BY Zenon DEF Mapping
  <1>6. /\ NoFrame \notin Frames /\ NoFrame \notin DevFrames
        /\ \A k \in 1 .. 4 : g[k] \in Idx
        /\ \A k \in 2 .. 4 : k \in 1 .. 4 /\ k - 1 \in 1 .. 4 /\ k - 1 + 1 = k
        /\ \A k \in 1 .. 4 : k = 4 \/ (k # 4 /\ k + 1 \in 1 .. 4 /\ k + 1 \in 2 .. 4)
    BY FrameFacts, PageIndices
  <1>7. /\ lvl \in [Frames -> 0 .. 4] /\ use \in [Frames -> {"free", "table", "ram", "apic"}]
        /\ \A f \in Frames : (lvl[f] # 0 <=> use[f] = "table") /\ (lvl[f] = 1 <=> f = pml4)
        /\ \A f \in Frames : lvl[f] \in 2 .. 4 => \E t \in Frames, x \in Idx : tab[t][x] = f
        /\ pml4 \in Frames
    BY Zenon DEF Tree, Shape, Levels
  <1>8. ASSUME NEW j \in 2 .. 4, path[j] = h, h \in Frames PROVE FALSE
    <2>1. lvl[h] = j \/ (use[h] = "free" /\ h # h)
      BY Zenon, <1>6, <1>8 DEF PathOK
    <2>2. j # 0
      OBVIOUS
    <2> QED
      BY Zenon, <1>7, <1>8, <2>1, <2>2
  <1>9. Shape'
    BY <1>5, <1>7, <1>2 DEF Shape, Entries
  <1>10. Levels(nl)'
    <2>1. ASSUME NEW f \in Frames
          PROVE  nl[f] # 0 <=> use'[f] = "table"
      BY <1>1, <1>6, <1>5, <1>7
    <2>2. ASSUME NEW f \in Frames
          PROVE  nl[f] = 1 <=> f = pml4
      BY <1>1, <1>6, <1>4, <1>7
    <2>3. ASSUME NEW f \in Frames, nl[f] \in 2 .. 4
          PROVE  \E t \in Frames, x \in Idx : tab'[t][x] = f
      <3>1. CASE \E k \in 2 .. 4 : path[k] = f
        BY ONLY <3>1, <1>6, <1>4, <1>2
      <3>2. CASE ~ \E k \in 2 .. 4 : path[k] = f
        BY ONLY <1>1, <1>7, <2>3, <3>2, <1>3, <1>6
      <3> QED
        BY Zenon, <3>1, <3>2
    <2> QED
      BY Zenon, <1>1, <1>5, <2>1, <2>2, <2>3 DEF Levels
  <1>11. Links(nl)'
    <2>1. ASSUME NEW t \in Frames, NEW x \in Idx, tab'[t][x] # NoFrame
          PROVE  /\ nl[t] # 0
                 /\ nl[t] # 4 => tab'[t][x] \in Frames /\ nl[tab'[t][x]] = nl[t] + 1
                 /\ nl[t] = 4 => (tab'[t][x] \in Frames => use'[tab'[t][x]] \in {"ram", "apic"})
      <3>1. CASE tab[t][x] # NoFrame
        <4>1. tab'[t][x] = tab[t][x]
          BY Zenon, <1>3, <3>1
        <4>2. /\ lvl[t] # 0
              /\ lvl[t] # 4 => tab[t][x] \in Frames /\ lvl[tab[t][x]] = lvl[t] + 1
              /\ lvl[t] = 4 => (tab[t][x] \in Frames => use[tab[t][x]] \in {"ram", "apic"})
          BY Zenon, <3>1 DEF Tree, Links
        <4>3. nl[t] = lvl[t] /\ lvl[t] \in 0 .. 4
          BY Zenon, <1>1, <1>7, <4>2
        <4>4. ASSUME lvl[t] # 4
              PROVE  tab[t][x] \in Frames /\ nl[tab[t][x]] = nl[t] + 1
          BY ONLY <1>1, <4>2, <4>3, <4>4
        <4>5. ASSUME NEW f \in Frames, use[f] \in {"ram", "apic"}
              PROVE  use'[f] \in {"ram", "apic"}
          <5>1. use[f] # "free" /\ use[f] # "table" /\ lvl[f] = 0 /\ f # NoFrame
            BY Zenon, <1>6, <1>7, <4>5
          <5>2. ASSUME NEW k \in 2 .. 4, path[k] = f PROVE FALSE
            <6>1. k # 0 /\ k \in 1 .. 4
              BY ONLY <5>2
            <6> QED
              BY ONLY Zenon, <1>4, <5>1, <5>2, <6>1
          <5>3. use'[f] = IF f = h /\ done THEN kind ELSE use[f]
            BY ONLY Zenon, <1>5, <4>5, <5>2
          <5> QED
            BY Zenon, <4>5, <5>3
        <4> QED
          BY Zenon, <4>1, <4>2, <4>3, <4>4, <4>5
      <3>2. CASE tab[t][x] = NoFrame
        <4>0. tab'[t][x] # tab[t][x]
          BY ONLY Zenon, <2>1, <3>2
        <4>1. PICK k \in 1 .. 4 : /\ path[k] = t /\ path[k + 1] # NoFrame
                                  /\ tab'[t][x] = path[k + 1]
          BY ONLY <1>2, <2>1, <4>0
        <4>2. path[k] # NoFrame /\ nl[t] = k
          BY Zenon, <1>1, <1>6, <4>1
        <4>3. CASE k # 4
          <5>1. k + 1 \in 1 .. 4
            BY Zenon, <1>6, <4>3
          <5>2. path[k + 1] \in Frames /\ nl[path[k + 1]] = k + 1
            BY Zenon, <1>1, <1>4, <4>1, <5>1
          <5>3. k # 0
            OBVIOUS
          <5> QED
            BY Zenon, <4>1, <4>2, <4>3, <5>2, <5>3
        <4>4. CASE k = 4
          <5>1. done /\ tab'[t][x] = h
            <6>1. path[k + 1] = path[5]
              BY <4>4
            <6> QED
              BY Zenon, <1>4, <4>1, <6>1
          <5>2. ASSUME h \in Frames PROVE use'[h] \in {"ram", "apic"}
            <6>1. ~ \E j \in 2 .. 4 : path[j] = h
              BY Zenon, <1>8, <5>2
            <6>2. use'[h] = kind
              BY Zenon, <1>5, <5>1, <5>2, <6>1
            <6> QED
              BY Zenon, <5>2, <6>2
          <5>3. nl[t] = 4 /\ 4 # 0
            BY <4>2, <4>4
          <5> QED
            BY Zenon, <5>1, <5>2, <5>3
        <4> QED
          BY Zenon, <4>3, <4>4
      <3> QED
        BY Zenon, <3>1, <3>2
    <2> QED
      BY Zenon, <2>1 DEF Links
  <1>12. Single'
    <2>1. ASSUME NEW t \in Frames, NEW u \in Frames, NEW x \in Idx, NEW y \in Idx,
                 tab'[t][x] # NoFrame, tab'[t][x] = tab'[u][y]
          PROVE  t = u /\ x = y
      <3> DEFINE Via(k, a, z) == path[k] = a /\ g[k] = z /\ tab'[a][z] = path[k + 1]
                 Unused(e) == \A b \in Frames, v \in Idx : tab[b][v] # e
      <3>0. ASSUME NEW a \in Frames, NEW z \in Idx, tab'[a][z] # NoFrame, tab[a][z] = NoFrame
            PROVE  Unused(tab'[a][z]) /\ \E k \in 1 .. 4 : Via(k, a, z)
        <4>1. tab'[a][z] # tab[a][z]
          BY ONLY Zenon, <3>0
        <4>2. PICK k \in 1 .. 4 : Via(k, a, z)
          BY ONLY <1>2, <3>0, <4>1
        <4>3. path[k + 1] # NoFrame /\ tab[path[k]][g[k]] # path[k + 1]
          BY ONLY Zenon, <3>0, <4>2
        <4>4. Unused(path[k + 1])
          BY ONLY Zenon, <1>3, <4>2, <4>3
        <4> QED
          BY ONLY Zenon, <4>2, <4>4
      <3>n. ASSUME NEW a \in Frames, NEW z \in Idx, tab[a][z] # NoFrame
            PROVE  ~ Unused(tab'[a][z])
        <4>1. tab'[a][z] = tab[a][z]
          BY ONLY Zenon, <1>3, <3>n
        <4> QED
          BY ONLY Zenon, <3>n, <4>1
      <3> HIDE DEF Via, Unused
      <3>1. CASE tab[t][x] # NoFrame /\ tab[u][y] # NoFrame
        <4>1. tab'[t][x] = tab[t][x] /\ tab'[u][y] = tab[u][y]
          BY ONLY Zenon, <1>3, <2>1, <3>1
        <4>2. Single
          BY Zenon DEF Tree
        <4>3. tab[t][x] # NoFrame /\ tab[t][x] = tab[u][y]
          BY ONLY Zenon, <2>1, <3>1, <4>1
        <4> QED
          BY ONLY <2>1, <4>2, <4>3 DEF Single
      <3>2. CASE tab[t][x] = NoFrame /\ tab[u][y] # NoFrame
        <4>1. Unused(tab'[t][x]) /\ ~ Unused(tab'[u][y])
          BY ONLY Zenon, <2>1, <3>0, <3>n, <3>2
        <4> QED
          BY ONLY Zenon, <2>1, <4>1
      <3>3. CASE tab[t][x] # NoFrame /\ tab[u][y] = NoFrame
        <4>1. Unused(tab'[u][y]) /\ ~ Unused(tab'[t][x])
          BY ONLY Zenon, <2>1, <3>0, <3>n, <3>3
        <4> QED
          BY ONLY Zenon, <2>1, <4>1
      <3>4. CASE tab[t][x] = NoFrame /\ tab[u][y] = NoFrame
        <4>a. PICK k \in 1 .. 4 : Via(k, t, x)
          BY ONLY Zenon, <2>1, <3>0, <3>4
        <4>1. path[k] = t /\ g[k] = x /\ tab'[t][x] = path[k + 1] /\ k \in 1 .. 4
          BY ONLY Zenon, <4>a DEF Via
        <4>b. PICK j \in 1 .. 4 : Via(j, u, y)
          BY ONLY Zenon, <2>1, <3>0, <3>4
        <4>2. path[j] = u /\ g[j] = y /\ tab'[u][y] = path[j + 1] /\ j \in 1 .. 4
          BY ONLY Zenon, <4>b DEF Via
        <4>3. path[k + 1] # NoFrame /\ path[k + 1] = path[j + 1]
          BY ONLY Zenon, <2>1, <4>1, <4>2
        <4>4. ASSUME NEW a \in 1 .. 4, NEW b \in 1 .. 4, a # 4, b = 4,
                     path[a + 1] # NoFrame, path[a + 1] = path[b + 1]
              PROVE  FALSE
          <5>1. a + 1 \in 1 .. 4 /\ a + 1 \in 2 .. 4 /\ path[b + 1] = path[5]
            BY ONLY <4>4
          <5>2. path[a + 1] \in Frames /\ path[a + 1] = h
            BY ONLY Zenon, <1>4, <4>4, <5>1
          <5> QED
            BY ONLY Zenon, <1>8, <5>1, <5>2
        <4>5. CASE k # 4 /\ j # 4
          <5>1. k + 1 \in 1 .. 4 /\ j + 1 \in 1 .. 4
            BY ONLY <4>1, <4>2, <4>5
          <5>2. k + 1 = j + 1
            BY ONLY Zenon, <1>4, <4>3, <5>1
          <5>3. k = j
            BY ONLY <4>1, <4>2, <5>2
          <5> QED
            BY ONLY Zenon, <4>1, <4>2, <5>3
        <4> QED
          BY ONLY Zenon, <4>1, <4>2, <4>3, <4>4, <4>5
      <3> QED
        BY Zenon, <3>1, <3>2, <3>3, <3>4
    <2> QED
      BY <2>1 DEF Single
  <1> QED
    BY Zenon, <1>9, <1>10, <1>11, <1>12 DEF Tree

\* So too in the state after a step.
LEMMA WalksInNextTree ==
    (\A lvl : Tree(lvl) => \A q \in Pages : WalkInTree(lvl, q))'
  BY WalksInTree, PTL

\* relm_ept_map_page changes the translation of its page, and no other.
LEMMA MapTranslates ==
    ASSUME NEW lvl, Tree(lvl), NEW g \in Pages, pml4 # NoFrame,
           NEW h \in Frames \cup DevFrames, NEW done \in BOOLEAN,
           NEW path, PathOK(path, lvl, g, h, done), Filled(path, g), NewLeaf(g, h), pml4' = pml4,
           NEW nl, nl = NewLevels(path, lvl), Tree(nl)', NEW q \in Pages
    PROVE  relm_ept_get_mapping(q)' = IF q = g /\ done THEN h ELSE relm_ept_get_mapping(q)
  <1>1. WalkInTree(nl, q)' /\ WalkInTree(lvl, q)
    BY Zenon, WalksInTree, WalksInNextTree
  <1>2. PICK w : w = Walk(q)
    BY Zenon
  <1>3. PICK v : v = Walk(q)'
    BY Zenon
  <1>4. /\ w[1] = pml4 /\ w[5] = relm_ept_get_mapping(q)
        /\ \A k \in 1 .. 4 :
              /\ q[k] \in Idx /\ w[k] \in Frames \cup {NoFrame}
              /\ w[k] # NoFrame => lvl[w[k]] = k /\ w[k + 1] = tab[w[k]][q[k]]
              /\ w[k] = NoFrame => w[k + 1] = NoFrame
    BY Zenon, <1>1, <1>2 DEF WalkInTree
  <1>5. /\ v[1] = pml4 /\ v[5] = relm_ept_get_mapping(q)'
        /\ \A k \in 1 .. 4 :
              /\ v[k] \in Frames \cup {NoFrame}
              /\ v[k] # NoFrame => nl[v[k]] = k /\ v[k + 1] = tab'[v[k]][q[k]]
              /\ v[k] = NoFrame => v[k + 1] = NoFrame
    BY Zenon, <1>1, <1>3 DEF WalkInTree
  <1>6. /\ \A k \in 1 .. 4 : path[k] # NoFrame => nl[path[k]] = k
        /\ \A f \in Frames : lvl[f] # 0 => nl[f] = lvl[f]
    <2>1. LevelsExtend(path, lvl, nl)
      BY Zenon, NewLevelFacts
    <2> QED
      BY ONLY Zenon, <2>1 DEF LevelsExtend
  <1>7. /\ \A t \in Frames, x \in Idx : tab[t][x] # NoFrame => tab'[t][x] = tab[t][x]
        /\ \A k \in 1 .. 4 : path[k + 1] # NoFrame => tab'[path[k]][g[k]] = path[k + 1]
        /\ \A t \in Frames, x \in Idx :
              \/ tab'[t][x] = tab[t][x]
              \/ \E k \in 1 .. 4 : /\ path[k] = t /\ g[k] = x /\ path[k + 1] # NoFrame
                                   /\ tab'[t][x] = path[k + 1]
    <2>1. \A t \in Frames, x \in Idx : tab[t][x] # NoFrame => tab'[t][x] = tab[t][x]
      BY Zenon, MapOnlyFills DEF OnlyFills
    <2> QED
      BY Zenon, <2>1 DEF Filled
  <1>8. \A t, u \in Frames, x, y \in Idx :
          tab'[t][x] # NoFrame /\ tab'[t][x] = tab'[u][y] => t = u /\ x = y
    BY Zenon DEF Tree, Single
  <1>9. /\ path[1] = pml4 /\ path[5] = (IF done THEN h ELSE NoFrame)
        /\ done => path[4] # NoFrame
        /\ \A k \in 1 .. 4 : path[k] \in Frames \cup {NoFrame}
        /\ \A k \in 1 .. 4 : path[k] = NoFrame => path[k + 1] = NoFrame
        /\ h # NoFrame /\ NoFrame \notin Frames
        /\ \A k \in 1 .. 4 : g[k] \in Idx
    BY Zenon, FrameFacts, PageIndices DEF PathOK
  <1>10. /\ lvl \in [Frames -> 0 .. 4]
         /\ \A f \in Frames : lvl[f] \in 2 .. 4 => \E t \in Frames, x \in Idx : tab[t][x] = f
         /\ \A t \in Frames, x \in Idx : tab[t][x] # NoFrame => lvl[t] # 0
    BY DEF Tree, Levels, Links
  <1>11. /\ 1 + 1 = 2 /\ 2 + 1 = 3 /\ 3 + 1 = 4 /\ 4 + 1 = 5
         /\ 1 \in 1 .. 4 /\ 2 \in 1 .. 4 /\ 3 \in 1 .. 4 /\ 4 \in 1 .. 4
    OBVIOUS
  \* A walk that was there is still there.
  <1>12. ASSUME NEW k \in 1 .. 4, w[k] # NoFrame => v[k] = w[k], w[k + 1] # NoFrame
         PROVE  v[k + 1] = w[k + 1]
    <2>1. w[k] \in Frames /\ w[k + 1] = tab[w[k]][q[k]] /\ q[k] \in Idx /\ v[k] = w[k] /\ w[k] # NoFrame
      BY Zenon, <1>4, <1>12
    <2> QED
      <3>1. tab'[w[k]][q[k]] = w[k + 1]
        BY ONLY Zenon, <1>7, <1>12, <2>1
      <3>2. v[k + 1] = tab'[v[k]][q[k]]
        BY ONLY Zenon, <1>5, <1>12, <2>1
      <3> QED
        BY ONLY Zenon, <2>1, <3>1, <3>2
  <1>13. w[5] # NoFrame => v[5] = w[5]
    BY ONLY SMTT(30), <1>4, <1>5, <1>11, <1>12
  <1>14. ASSUME NEW k \in 1 .. 3, v[k] # NoFrame /\ lvl[v[k]] # 0 => w[k] = v[k],
                v[k + 1] # NoFrame, lvl[v[k + 1]] # 0
         PROVE  w[k + 1] = v[k + 1]
    <2>1. k \in 1 .. 4 /\ k + 1 \in 1 .. 4 /\ k + 1 \in 2 .. 4
      OBVIOUS
    <2>2. v[k + 1] \in Frames /\ nl[v[k + 1]] = k + 1 /\ v[k] \in Frames /\ v[k] # NoFrame
      BY Zenon, <1>5, <1>14, <2>1
    <2>3. v[k + 1] = tab'[v[k]][q[k]] /\ q[k] \in Idx
      BY Zenon, <1>4, <1>5, <2>1, <2>2
    <2>4. lvl[v[k + 1]] = k + 1
      BY Zenon, <1>6, <1>14, <2>2
    <2>5. PICK t \in Frames, x \in Idx : tab[t][x] = v[k + 1]
      BY Zenon, <1>10, <2>1, <2>2, <2>4
    <2>6. tab'[t][x] = v[k + 1] /\ lvl[t] # 0
      BY Zenon, <1>7, <1>10, <1>14, <2>5
    <2>7. t = v[k] /\ x = q[k]
      <3>1. tab'[t][x] # NoFrame /\ tab'[t][x] = tab'[v[k]][q[k]]
        BY ONLY Zenon, <1>14, <2>3, <2>6
      <3>2. v[k] \in Frames /\ q[k] \in Idx /\ t \in Frames /\ x \in Idx
        BY ONLY Zenon, <2>2, <2>3, <2>5
      <3> QED
        BY ONLY <1>8, <3>1, <3>2
    <2>8. w[k] = v[k]
      BY Zenon, <1>14, <2>2, <2>6, <2>7
    <2> QED
      BY Zenon, <1>4, <2>1, <2>2, <2>5, <2>7, <2>8
  <1>15. v[4] # NoFrame /\ lvl[v[4]] # 0 => w[4] = v[4]
    <2> DEFINE Known(k) == v[k] # NoFrame /\ lvl[v[k]] # 0 => w[k] = v[k]
    <2>1. Known(1)
      BY Zenon, <1>4, <1>5
    <2>2. ASSUME NEW k \in 1 .. 3, Known(k) PROVE Known(k + 1)
      BY Zenon, <1>14, <2>2
    <2>3. 1 \in 1 .. 3 /\ 2 \in 1 .. 3 /\ 3 \in 1 .. 3
      OBVIOUS
    <2> HIDE DEF Known
    <2>4. Known(4)
      BY ONLY <2>1, <2>2, <2>3
    <2> QED
      BY ONLY Zenon, <2>4 DEF Known
  <1>16. ASSUME NEW k \in 1 .. 4, v[k + 1] = path[k + 1], v[k + 1] # NoFrame
         PROVE  v[k] = path[k] /\ q[k] = g[k] /\ v[k] # NoFrame
    <2>1. v[k] \in Frames /\ v[k] # NoFrame /\ v[k + 1] = tab'[v[k]][q[k]] /\ q[k] \in Idx
      BY Zenon, <1>4, <1>5, <1>16
    <2>2. path[k] \in Frames /\ tab'[path[k]][g[k]] = path[k + 1] /\ g[k] \in Idx
      BY Zenon, <1>7, <1>9, <1>16
    <2> QED
      BY ONLY <1>8, <1>16, <2>1, <2>2
  <1>17. ASSUME v[5] = path[5], v[5] # NoFrame
         PROVE  q = g
    BY ONLY <1>11, <1>16, <1>17, PageIndices
  <1>18. v[5] # NoFrame => v[5] = w[5] \/ (q = g /\ done)
    <2> SUFFICES ASSUME v[5] # NoFrame PROVE v[5] = w[5] \/ (q = g /\ done)
      BY Zenon
    <2>1. v[4] \in Frames /\ nl[v[4]] = 4 /\ v[5] = tab'[v[4]][q[4]] /\ q[4] \in Idx /\ v[4] # NoFrame
      BY Zenon, <1>4, <1>5, <1>11
    <2>2. CASE tab'[v[4]][q[4]] = tab[v[4]][q[4]]
      <3>1. lvl[v[4]] # 0
        BY Zenon, <1>10, <2>1, <2>2
      <3>2. w[4] = v[4]
        BY Zenon, <1>15, <2>1, <3>1
      <3> QED
        BY ONLY <1>4, <1>11, <2>1, <2>2, <3>2
    <2>3. CASE tab'[v[4]][q[4]] # tab[v[4]][q[4]]
      <3>1. PICK k \in 1 .. 4 : path[k] = v[4] /\ path[k + 1] # NoFrame /\ v[5] = path[k + 1]
        BY ONLY <1>7, <2>1, <2>3
      <3>2. k = 4
        BY Zenon, <1>6, <2>1, <3>1
      <3> QED
        BY Zenon, <1>9, <1>11, <1>17, <3>1, <3>2
    <2> QED
      BY Zenon, <2>2, <2>3
  <1>19. q = g /\ done => v[5] = h
    BY ONLY <1>5, <1>7, <1>9, <1>11
  <1> QED
    BY ONLY <1>4, <1>5, <1>13, <1>18, <1>19


----------------------------------------------------------------------------
(* The operations on the tables. *)

\* The allocator returns a free frame when there is one.
LEMMA FreshFree ==
    ASSUME Free # {}
    PROVE  Fresh(Free, 1) \in Frames /\ use[Fresh(Free, 1)] = "free"
  <1>1. Free \in SUBSET Frames /\ IsFiniteSet(Free)
    BY Zenon, FrameFacts, FS_Subset DEF Free
  <1>2. Cardinality(Free) \in Nat /\ Cardinality(Free) # 0
    BY Zenon, <1>1, FS_CardinalityType, FS_EmptySet
  <1>3. 1 \in Nat \ {0} /\ 1 <= Cardinality(Free)
    BY <1>2
  <1>4. Fresh(Free, 1) \in Free
    BY Zenon, <1>1, <1>3, FreshFacts
  <1>5. \A f \in Free : f \in Frames /\ use[f] = "free"
    BY Zenon DEF Free
  <1> QED
    BY Zenon, <1>4, <1>5

\* Every leaf is the leaf of a page of the guest.
LeavesKnown(lvl) ==
    \A t \in Frames, x \in Idx : lvl[t] = 4 /\ tab[t][x] # NoFrame =>
        \E g \in Gpas : relm_ept_get_mapping(g) = tab[t][x]

Hangs == \E lvl : Tree(lvl) /\ LeavesKnown(lvl)

LEMMA NotEntered ==
    ASSUME NEW lvl, Tree(lvl), LeavesKnown(lvl), NEW h, h # NoFrame,
           h \in Frames => use[h] # "table",
           \A g \in Gpas : relm_ept_get_mapping(g) # h
    PROVE  \A t \in Frames, x \in Idx : tab[t][x] # h
  <1> SUFFICES ASSUME NEW t \in Frames, NEW x \in Idx, tab[t][x] = h PROVE FALSE
    BY Zenon
  <1>1. lvl \in [Frames -> 0 .. 4] /\ \A f \in Frames : lvl[f] # 0 <=> use[f] = "table"
    BY Zenon DEF Tree, Levels
  <1>2. CASE lvl[t] = 4
    BY Zenon, <1>2 DEF LeavesKnown
  <1>3. CASE lvl[t] # 4
    BY <1>1, <1>3 DEF Tree, Links
  <1> QED
    BY Zenon, <1>2, <1>3

LEMMA FiniteMapped ==
    IsFiniteSet(Mapped) /\ Cardinality(Mapped) \in 0 .. Cardinality(Gpas)
  <1>1. Mapped \in SUBSET Gpas
    BY Zenon DEF Mapped
  <1>2. IsFiniteSet(Mapped) /\ Cardinality(Mapped) <= Cardinality(Gpas)
    BY Zenon, <1>1, FinitePages, FS_Subset
  <1>3. Cardinality(Mapped) \in Nat /\ Cardinality(Gpas) \in Nat
    BY Zenon, <1>2, FinitePages, FS_CardinalityType
  <1> QED
    BY <1>2, <1>3

\* What a call of relm_ept_map_page leaves behind: a tree in which the page
\* leads to h if the call succeeded, and everything else as before.
MapDone(g, h, kind, done) ==
    /\ Hangs' /\ Shape' /\ pml4' = pml4
    /\ \A q \in Gpas : relm_ept_get_mapping(q)' =
                        IF q = g /\ done THEN h ELSE relm_ept_get_mapping(q)
    /\ \A f \in Frames : use[f] \in {"ram", "apic"} => use'[f] = use[f]
    /\ h \in Frames /\ done => use'[h] = kind
    /\ n4k = Cardinality(Mapped) => n4k' = Cardinality(Mapped')

LEMMA MapStep ==
    ASSUME Hangs, pml4 # NoFrame, NEW g \in Gpas, NEW h \in Frames \cup DevFrames, NEW kind,
           h \in Frames => kind \in {"ram", "apic"} /\ use[h] \in {"free", kind},
           \/ relm_ept_get_mapping(g) = h
           \/ relm_ept_get_mapping(g) = NoFrame /\ \A q \in Gpas : relm_ept_get_mapping(q) # h,
           NEW made \in 0 .. Missing(g), MapPage(g, h, kind, made)
    PROVE  MapDone(g, h, kind, made = Missing(g))
  <1> DEFINE done == made = Missing(g)
  <1>1. PICK lvl : Tree(lvl) /\ LeavesKnown(lvl)
    BY Zenon DEF Hangs
  <1>2. g \in Pages /\ Gpas \subseteq Pages /\ NoFrame \notin Frames /\ h # NoFrame /\ done \in BOOLEAN
    BY Zenon, FrameFacts, PageFacts
  <1>3. h \in Frames => use[h] # "table"
    BY Zenon
  <1>4. NewLeaf(g, h)
    BY Zenon, <1>1, <1>2, <1>3, NotEntered DEF NewLeaf
  <1>5. PICK path : PathOK(path, lvl, g, h, done) /\ Mapping(path, g, h, kind, done)
    BY Zenon, <1>1, <1>2, <1>3, MapPath
  <1>6. PICK nl : nl = NewLevels(path, lvl)
    BY Zenon
  <1> HIDE DEF done
  <1>7. Filled(path, g)
    BY Zenon, <1>1, <1>2, <1>5, MapFills
  <1>8. Tree(nl)'
    BY Zenon, <1>1, <1>2, <1>3, <1>4, <1>5, <1>6, MapTree
  <1>9. pml4' = pml4
    BY Zenon, <1>5 DEF Mapping
  <1>10. \A q \in Gpas : relm_ept_get_mapping(q)' =
                         IF q = g /\ done THEN h ELSE relm_ept_get_mapping(q)
    BY <1>1, <1>2, <1>4, <1>5, <1>6, <1>7, <1>8, <1>9, MapTranslates
  <1>l. LevelsExtend(path, lvl, nl)
    BY Zenon, <1>1, <1>2, <1>5, <1>6, NewLevelFacts
  <1>11. LeavesKnown(nl)'
    <2> SUFFICES ASSUME NEW t \in Frames, NEW x \in Idx, nl[t] = 4, tab'[t][x] # NoFrame
                 PROVE  \E q \in Gpas : relm_ept_get_mapping(q)' = tab'[t][x]
      BY Zenon DEF LeavesKnown
    <2>1. CASE tab'[t][x] = tab[t][x]
      <3>1. lvl[t] # 0
        BY Zenon, <1>1, <2>1 DEF Tree, Links
      <3>2. lvl[t] = 4
        <4>1. \A f \in Frames : lvl[f] # 0 => nl[f] = lvl[f]
          BY ONLY Zenon, <1>l DEF LevelsExtend
        <4> QED
          BY Zenon, <3>1, <4>1
      <3>3. PICK q \in Gpas : relm_ept_get_mapping(q) = tab[t][x]
        BY Zenon, <1>1, <2>1, <3>2 DEF LeavesKnown
      <3>4. q = g => relm_ept_get_mapping(q) = h
        BY Zenon, <1>4, <2>1, <3>3 DEF NewLeaf
      <3> QED
        BY Zenon, <1>10, <2>1, <3>3, <3>4
    <2>2. CASE tab'[t][x] # tab[t][x]
      <3>0. \/ tab'[t][x] = tab[t][x]
            \/ \E k \in 1 .. 4 : /\ path[k] = t /\ g[k] = x /\ path[k + 1] # NoFrame
                                 /\ tab'[t][x] = path[k + 1]
        BY Zenon, <1>7 DEF Filled
      <3>1. PICK k \in 1 .. 4 : path[k] = t /\ path[k + 1] # NoFrame /\ tab'[t][x] = path[k + 1]
        BY ONLY <2>2, <3>0
      <3>2. k = 4
        <4>1. \A j \in 1 .. 4 : path[j] # NoFrame => nl[path[j]] = j
          BY ONLY Zenon, <1>l DEF LevelsExtend
        <4> QED
          BY Zenon, <1>2, <3>1, <4>1
      <3>3. tab'[t][x] = h /\ done
        <4>1. path[k + 1] = path[5]
          BY ONLY <3>2
        <4>2. path[5] = IF done THEN h ELSE NoFrame
          BY Zenon, <1>5 DEF PathOK
        <4> QED
          BY ONLY Zenon, <3>1, <4>1, <4>2
      <3> QED
        BY Zenon, <1>10, <3>3
    <2> QED
      BY Zenon, <2>1, <2>2
  <1>12. Hangs' /\ Shape'
    BY Zenon, <1>8, <1>11 DEF Hangs, Tree
  <1>13. /\ \A f \in Frames : use[f] \in {"ram", "apic"} => use'[f] = use[f]
         /\ h \in Frames /\ done => use'[h] = kind
    <2>1. \A f \in Frames : use'[f] = IF \E k \in 2 .. 4 : path[k] = f THEN "table"
                                     ELSE IF f = h /\ done THEN kind ELSE use[f]
      BY Zenon, <1>5 DEF Mapping
    <2>2. ASSUME NEW f \in Frames, NEW k \in 2 .. 4, path[k] = f
          PROVE  use[f] \in {"table", "free"} /\ (f = h => use[f] = "table")
      <3>1. k \in 1 .. 4 /\ f # NoFrame /\ k # 0
        BY <1>2, <2>2
      <3>2. lvl[f] = k \/ (use[f] = "free" /\ f # h)
        BY Zenon, <1>5, <2>2, <3>1 DEF PathOK
      <3> QED
        BY Zenon, <1>1, <3>1, <3>2 DEF Tree, Levels
    <2> QED
      BY <1>3, <2>1, <2>2
  <1>14. n4k = Cardinality(Mapped) => n4k' = Cardinality(Mapped')
    <2> SUFFICES ASSUME n4k = Cardinality(Mapped) PROVE n4k' = Cardinality(Mapped')
      BY Zenon
    <2>1. n4k' = IF done /\ g \notin Mapped THEN n4k + 1 ELSE n4k
      BY Zenon, <1>5 DEF Mapping
    <2>2. Mapped' = IF done THEN Mapped \cup {g} ELSE Mapped
      BY Zenon, <1>2, <1>10 DEF Mapped
    <2>3. Cardinality(Mapped \cup {g}) = IF g \in Mapped THEN Cardinality(Mapped) ELSE Cardinality(Mapped) + 1
      BY Zenon, FiniteMapped, FS_AddElement
    <2>4. g \in Mapped => Mapped \cup {g} = Mapped
      BY Zenon
    <2> QED
      BY Zenon, <2>1, <2>2, <2>3, <2>4
  <1> QED
    BY Zenon, <1>9, <1>10, <1>12, <1>13, <1>14 DEF MapDone, done

\* A table below the PML4 hangs in a table one level up.
LEMMA Parent ==
    ASSUME NEW lvl, Tree(lvl), NEW f \in Frames, lvl[f] \in 2 .. 4
    PROVE  \E t \in Frames, x \in Idx : tab[t][x] = f /\ lvl[t] + 1 = lvl[f] /\ lvl[t] \in 1 .. 3
  <1>1. PICK t \in Frames, x \in Idx : tab[t][x] = f
    BY Zenon DEF Tree, Levels
  <1>2. f # NoFrame /\ lvl[f] # 0 /\ use[f] = "table"
    BY FrameFacts DEF Tree, Levels
  <1>3. lvl[t] # 4 /\ lvl[t] # 0 /\ lvl[f] = lvl[t] + 1
    BY Zenon, <1>1, <1>2 DEF Tree, Links
  <1>4. lvl[t] \in 0 .. 4
    BY Zenon DEF Tree, Levels
  <1> QED
    BY <1>1, <1>3, <1>4
=============================================================================
