----------------------------- MODULE GuestWalk -----------------------------
(***************************************************************************)
(* The software walker of guest page tables (vmx/mmu.c): translating a     *)
(* guest-virtual address in the three paging modes, and reading a range of *)
(* guest-virtual memory that may straddle pages.                           *)
(*                                                                         *)
(* Everything is scaled: a page has PageSize bytes, a table fills a page   *)
(* and has Fan entries at every level.  An entry is [p, ps, frame]; the    *)
(* reserved and permission bits play no part in the walk.  Guest RAM is    *)
(* the frames 0 .. Frames - 1, one region; the guest is stopped while the  *)
(* host reads.                                                             *)
(***************************************************************************)
EXTENDS GuestPages

CONSTANTS
    Fan,         \* entries of a table
    Frames,      \* frames of guest RAM
    TableFrames, \* frames that hold page tables
    Roots,       \* table frames CR3 may point to
    Entries,     \* entries a table may hold
    Modes,       \* paging modes of this instance
    MaxRead,     \* bound on a read
    Width        \* addresses outside long mode have values below Width

ASSUME WalkAssumption ==
    /\ TableFrames \subseteq 0 .. Frames - 1 /\ Roots \subseteq TableFrames /\ Fan \in Nat \ {0}
    /\ Entries \subseteq [p : BOOLEAN, ps : BOOLEAN, frame : Nat]
    /\ Modes \subseteq {"off", "legacy", "pse", "pae", "long", "la57"}

VARIABLES
    pt,       \* the entries in each table frame
    mode,     \* CR0.PG, CR4.PAE/PSE/LA57 and EFER.LMA
    root,     \* frame in CR3
    gva, want,
    copied,   \* bytes read
    dst,      \* the address each byte of the buffer was read from
    answer       \* result: Running, EFAULT, EINVAL or the byte count

walkVars == <<pt, mode, root, gva, want, copied, dst, answer>>

NoByte == -1
Levels == [legacy |-> 2, pse |-> 2, pae |-> 3, long |-> 4]

\* Bytes of address space below one entry of a table of this level.
RECURSIVE Reach(_)
Reach(level) == IF level = 1 THEN PageSize ELSE Fan * Reach(level - 1)
GvaSpan == Fan * Reach(4)

\* Type invariant. The page tables, the request and its progress.
WalkTypeOK ==
    /\ pt \in [TableFrames -> [0 .. Fan - 1 -> Entries]] /\ mode \in Modes
    /\ root \in TableFrames /\ gva \in 0 .. GvaSpan - 1 /\ want \in 1 .. MaxRead
    /\ copied \in 0 .. want /\ answer \in {Running, EFAULT, EINVAL} \cup (1 .. MaxRead)
    /\ dst \in [1 .. want -> NoByte .. (Frames * PageSize - 1)]

WalkInit ==
    /\ pt \in [TableFrames -> [0 .. Fan - 1 -> Entries]] /\ mode \in Modes
    /\ root \in Roots /\ gva \in 0 .. GvaSpan - 1 /\ want \in 1 .. MaxRead
    /\ copied = 0 /\ dst = [k \in 1 .. want |-> NoByte] /\ answer = Running

----------------------------------------------------------------------------
\* mmu_read_entry: an entry outside guest RAM cannot be read; a frame that
\* holds data has, here, nothing present in it.
InRam(frame) == frame < Frames
EntryAt(t, frame, k) ==
    IF frame \in DOMAIN t THEN t[frame][k] ELSE [p |-> FALSE, ps |-> FALSE, frame |-> 0]

\* Mutant: PS is honoured in 32-bit paging without CR4.PSE too.
LargeLeaf_Mut(m, level) == \/ m = "long" /\ level \in {2, 3}
                           \/ m \in {"pae", "pse", "legacy"} /\ level = 2

\* Where a set PS bit makes the entry a leaf, and where it is malformed.
LargeLeaf(m, level) == \/ m = "long" /\ level \in {2, 3}
                       \/ m = "pae" /\ level = 2
                       \/ m = "pse" /\ level = 2
Malformed(m, level) == m = "long" /\ level = 4

\* A leaf at this level: the frame's base with the low bits of the page size
\* cleared, and the low bits of the address.
Leaf(frame, level, a) ==
    LET base == frame * PageSize IN base - (base % Reach(level)) + (a % Reach(level))

\* mmu_walk_long, mmu_walk_pae and mmu_walk_legacy.
RECURSIVE Walk(_, _, _, _, _)
Walk(t, m, frame, level, a) ==
    LET e == EntryAt(t, frame, (a \div Reach(level)) % Fan)
    IN  IF ~InRam(frame) \/ ~e.p THEN EFAULT
        ELSE IF e.ps /\ Malformed(m, level) THEN EFAULT
        ELSE IF level = 1 \/ (e.ps /\ LargeLeaf(m, level)) THEN Leaf(e.frame, level, a)
        ELSE Walk(t, m, e.frame, level - 1, a)

relm_mmu_gva_to_gpa(t, m, r, a) ==
    CASE m = "off"  -> a
      [] m = "la57" -> EINVAL
      [] m = "long" -> Walk(t, m, r, Levels[m], a)
      [] OTHER      -> Walk(t, m, r, Levels[m], a % Width)

\* Bytes of one turn of relm_mmu_copy_from_guest_virt.
ReadChunk == Least({want - copied, PageSize - ((gva + copied) % PageSize)})

\* One turn: translate, then relm_vm_copy_from_guest.
Turn ==
    LET a == relm_mmu_gva_to_gpa(pt, mode, root, (gva + copied) % GvaSpan)
    IN  /\ answer = Running /\ copied < want
        /\ IF a < 0 THEN answer' = a /\ UNCHANGED <<copied, dst>>
           ELSE IF ~InRam(a \div PageSize) THEN answer' = EFAULT /\ UNCHANGED <<copied, dst>>
           ELSE /\ copied' = copied + ReadChunk
                /\ dst' = [k \in DOMAIN dst |->
                            IF /\ k \in copied + 1 .. copied + ReadChunk
                               /\ InRam((a + k - copied - 1) \div PageSize)
                            THEN a + (k - copied - 1) ELSE dst[k]]
                /\ UNCHANGED answer
        /\ UNCHANGED <<pt, mode, root, gva, want>>

ReadReturn ==
    /\ answer = Running /\ copied = want /\ answer' = want
    /\ UNCHANGED <<pt, mode, root, gva, want, copied, dst>>

WalkNext == Turn \/ ReadReturn

WalkSpec == WalkInit /\ [][WalkNext]_walkVars

\* relm_ept_create_guest_page_tables: PML4, PDPT and PD in the last three
\* frames, the PD full of large leaves.
NotPresent == [p |-> FALSE, ps |-> FALSE, frame |-> 0]
BuiltTables ==
    LET link(f) == [k \in 0 .. Fan - 1 |-> IF k = 0 THEN [p |-> TRUE, ps |-> FALSE, frame |-> f]
                                           ELSE NotPresent]
    IN  [f \in Frames - 3 .. Frames - 1 |->
            IF f = Frames - 1
            THEN [k \in 0 .. Fan - 1 |-> [p |-> TRUE, ps |-> TRUE, frame |-> k * Fan]]
            ELSE link(f + 1)]

\* relm_mmu_rip_to_linear outside 64-bit mode, in 64-bit arithmetic.
relm_mmu_rip_to_linear(base, rip) == ((base + rip) * (Width - 1)) % (Width * Width)

----------------------------------------------------------------------------
(* Properties. *)

\* The architecture's definition of a translation, which does not mention the
\* walk.  PageLevels gives the levels at which a mode has pages, of
\* Fan ^ (level - 1) frames each; outside long mode an address has the values
\* below Width, and PS is reserved in the entries of the top table of long mode
\* (in those of PAE the processor refuses it when CR3 is loaded).
PageLevels == [legacy |-> {1}, pse |-> {1, 2}, pae |-> {1, 2}, long |-> {1, 2, 3}]
TopLevel == [legacy |-> 2, pse |-> 2, pae |-> 3, long |-> 4]
Linear(a) == IF mode = "long" THEN a ELSE a % Width

\* tables[l] are the frames of the tables that lead from CR3 to a page of level
\* n: every entry chosen by its own digit of the page number is present, names
\* the next table, and only the last one is a page's.
Leads(tables, n, page) ==
    LET top == TopLevel[mode]
        entry(l) == pt[tables[l]][(page \div Fan ^ (l - 1)) % Fan]
        isPage(l) == l = 1 \/ (entry(l).ps /\ l \in PageLevels[mode])
    IN  /\ tables[top] = root
        /\ \A l \in n .. top : entry(l).p /\ (l = 4 => ~entry(l).ps)
        /\ \A l \in n + 1 .. top : ~isPage(l) /\ tables[l - 1] = entry(l).frame
        /\ isPage(n)

\* The frame of page number "page" inside the page that the last table's entry
\* names, the low digits of which are ignored.
PageFrame(tables, n, page) ==
    LET frame == pt[tables[n]][(page \div Fan ^ (n - 1)) % Fan].frame
    IN  (frame - (frame % Fan ^ (n - 1))) + (page % Fan ^ (n - 1))

\* The guest-physical addresses of a guest-virtual one: one or none.
Physical(a) ==
    IF mode = "off" THEN {a}
    ELSE LET page == Linear(a) \div PageSize
             paths(n) == {t \in [n .. TopLevel[mode] -> TableFrames] : Leads(t, n, page)}
             frames == UNION {{PageFrame(t, n, page) : t \in paths(n)} : n \in PageLevels[mode]}
         IN  {f * PageSize + (a % PageSize) : f \in frames}

Source(k) == {b \in Physical((gva + k - 1) % GvaSpan) : InRam(b \div PageSize)}

\* A read that succeeds filled the whole buffer, each byte from where the
\* guest's own paging puts its address - through tables, large pages and the
\* page boundaries the range straddles - and a read fails only when some byte
\* of the range has no place in guest RAM: the promise instruction fetch
\* across two pages depends on.
EveryByteTranslated ==
    mode # "la57" =>
        /\ answer > 0 => \A k \in 1 .. want : Source(k) = {dst[k]}
        /\ answer < 0 => \E k \in 1 .. want : Source(k) = {}

\* The tables relm_ept_create_guest_page_tables builds, walked as the guest
\* and this walker walk them, map every address below the directory's reach
\* to itself, and no other: the kernel is entered at a physical address.
IdentityMapped ==
    \A a \in {gva, (gva + want) % GvaSpan} :
        relm_mmu_gva_to_gpa(BuiltTables, "long", Frames - 3, a) =
            IF a < Fan * Reach(2) THEN a ELSE EFAULT

\* Five-level paging is refused rather than walked wrongly (mmu.c:218-219).
La57Refused == mode = "la57" => answer \in {Running, EINVAL} /\ copied = 0

\* The walker translates as the processor does, in the modes it knows.
TranslationCorrect == EveryByteTranslated /\ IdentityMapped /\ La57Refused

----------------------------------------------------------------------------
(* Claims of comments and documents that the code does not meet. *)

\* "converts a CS-relative RIP into a guest linear address" (mmu.h:9): outside
\* 64-bit mode that is the sum of base and RIP, truncated to 32 bits.
RipIsLinear ==
    mode # "long" => \A base \in 0 .. gva :
        relm_mmu_rip_to_linear(base, gva - base) = gva % Width
=============================================================================
