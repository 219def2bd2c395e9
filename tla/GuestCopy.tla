----------------------------- MODULE GuestCopy -----------------------------
(***************************************************************************)
(* Host access to guest-physical memory (core/vm.c): the loops of          *)
(* relm_vm_copy_to_guest, relm_vm_copy_from_guest and                      *)
(* relm_vm_zero_guest_memory, which go through a range page by page across *)
(* the VM's list of regions.                                               *)
(*                                                                         *)
(* Each turn of a loop is one step.  Addresses are bytes of scaled-down    *)
(* pages; a byte of guest memory is 0 or the number of the request byte    *)
(* that was stored in it, OLD when it holds what it held before.           *)
(* A region of RAM is only listed once all its pages are allocated, and    *)
(* kmap does not fail, so the loops' tests for a missing page do not       *)
(* appear.  A region of MMIO is listed without an array of pages at all:   *)
(* a loop that reaches one reads through a null pointer and dies there.    *)
(***************************************************************************)
EXTENDS GuestPages

CONSTANTS
    Maps,       \* lists of regions [start, size, pages], in list order
    Span,       \* addresses 0 .. Span - 1 may be asked for
    MaxSize     \* bound on the size of a request

OLD == -1
Oops == -1     \* the result of a call that never returns

\* pages says whether region->pages is an array, as for RAM, or NULL.
Region == [start : 0 .. Span - 1, size : {n \in 1 .. Span : n % PageSize = 0}, pages : BOOLEAN]

\* relm_vm_allocate_guest_ram rounds sizes up to pages, relm_vm_map_mmio_region
\* refuses others; regions do not overlap.
ASSUME CopyAssumption ==
    /\ Span \in Nat \ {0} /\ MaxSize \in Nat
    /\ \A m \in Maps :
        /\ m \in Seq(Region) /\ \A r \in DOMAIN m : m[r].start % PageSize = 0
        /\ \A r, s \in DOMAIN m : r # s =>
            m[r].start + m[r].size <= m[s].start \/ m[s].start + m[s].size <= m[r].start

VARIABLES
    map,     \* mem_regions
    op,      \* which of the three functions
    gpa,     \* first address of the request
    size,    \* its length
    done,    \* copied or zeroed
    region,  \* index of the current region, 0 for none
    mem,     \* the bytes of each region's pages
    buf,     \* the caller's buffer, for copy_from
    ret      \* result, or Running while running

copyVars == <<map, op, gpa, size, done, region, mem, buf, ret>>

Pages(m) == [r \in DOMAIN m |-> [b \in 0 .. m[r].size - 1 |-> OLD]]

\* Type invariant. The request, its progress and the memory.
CopyTypeOK ==
    /\ map \in Maps /\ op \in {"to", "from", "zero"}
    /\ gpa \in 0 .. Span - 1 /\ size \in 0 .. MaxSize /\ done \in 0 .. size
    /\ region \in 0 .. Len(map)
    /\ \A r \in DOMAIN map : mem[r] \in [0 .. map[r].size - 1 -> OLD .. MaxSize]
    /\ buf \in [1 .. size -> (0 .. Span + MaxSize) \cup {OLD}]
    /\ ret \in {Running, EFAULT, EINVAL, Oops} \cup (1 .. MaxSize)

CopyInit ==
    /\ map \in Maps /\ op \in {"to", "from", "zero"}
    /\ gpa \in 0 .. Span - 1 /\ size \in 0 .. MaxSize
    /\ done = 0 /\ region = 0 /\ mem = Pages(map)
    /\ buf = [k \in 1 .. size |-> OLD] /\ ret = Running

----------------------------------------------------------------------------
Contains(r, a) == a \in map[r].start .. map[r].start + map[r].size - 1

\* Mutant: the region at hand is never looked up again.
Lookup_Mut(a) ==
    IF region # 0 THEN region
    ELSE IF \E r \in DOMAIN map : Contains(r, a)
         THEN CHOOSE r \in DOMAIN map : Contains(r, a) /\ \A s \in 1 .. r - 1 : ~Contains(s, a)
         ELSE 0

\* The region of address a: the current one while it holds a, otherwise the
\* first of the list that does.
Lookup(a) ==
    IF region # 0 /\ Contains(region, a) THEN region
    ELSE IF \E r \in DOMAIN map : Contains(r, a)
         THEN CHOOSE r \in DOMAIN map : Contains(r, a) /\ \A s \in 1 .. r - 1 : ~Contains(s, a)
         ELSE 0

\* Mutant: only the page's end bounds the turn.
Chunk_MutEnd(r, off) == PageSize - (off % PageSize)

\* Mutant: the rest of a page is 0 at its start.
Chunk_MutZero(r, off) == Least({(PageSize - off) % PageSize, size - done})

\* Bytes of this turn: up to the page end, the request's end and, when
\* copying, the region's end.
Chunk(r, off) ==
    Least({PageSize - (off % PageSize), size - done}
          \cup (IF op = "zero" THEN {} ELSE {map[r].size - off}))

Return(v) == ret' = v /\ UNCHANGED <<map, op, gpa, size, done, region, mem, buf>>

\* One turn: n bytes at offset off of region r.
CopyTurn(r, off, n) ==
    /\ region' = r /\ done' = done + n
    /\ mem' = IF op = "from" THEN mem
              ELSE [mem EXCEPT ![r] = [b \in DOMAIN @ |->
                      IF b \in off .. off + n - 1
                      THEN IF op = "zero" THEN 0 ELSE done + (b - off) + 1
                      ELSE @[b]]]
    /\ buf' = IF op # "from" THEN buf
              ELSE [k \in DOMAIN buf |->
                      IF k \in done + 1 .. done + n
                      THEN map[r].start + off + (k - done - 1) ELSE buf[k]]
    /\ UNCHANGED <<map, op, gpa, size, ret>>

CopyStep ==
    LET a == gpa + done
        r == Lookup(a)
        off == a - map[r].start
    IN  /\ ret = Running
        /\ IF size = 0 THEN Return(EINVAL)
           ELSE IF done = size THEN Return(done)
           ELSE IF r = 0 THEN Return(IF done > 0 THEN done ELSE EFAULT)
           ELSE IF ~map[r].pages THEN Return(Oops)
           ELSE CopyTurn(r, off, Chunk(r, off))

CopySpec == CopyInit /\ [][CopyStep]_copyVars /\ WF_copyVars(CopyStep)

----------------------------------------------------------------------------
(* Properties. *)

Mapped(a) == \E r \in DOMAIN map : Contains(r, a)
Backed(a) == \E r \in DOMAIN map : Contains(r, a) /\ map[r].pages
ByteAt(a) == LET r == CHOOSE s \in DOMAIN map : Contains(s, a) IN mem[r][a - map[r].start]

\* Bytes of the request before the first address that is not RAM.
Prefix == Cardinality({k \in 1 .. size : \A j \in 1 .. k : Backed(gpa + j - 1)})

\* The result is the number of bytes before the first hole, or an error when
\* the first byte is already in one; a call whose range meets a region of MMIO
\* before a hole dies at its first address, in all three functions alike.
\* Exactly the bytes before that place were moved, each to or from its own
\* address, and no other byte of guest memory changed - however the range lies
\* across pages, regions and the order of the list.
ExactlyThePrefix ==
    ret # Running =>
        /\ ret = IF size = 0 THEN EINVAL
                 ELSE IF Prefix = size THEN size
                 ELSE IF Mapped(gpa + Prefix) THEN Oops
                 ELSE IF Prefix = 0 THEN EFAULT
                 ELSE Prefix
        /\ \A a \in 0 .. Span - 1 : Mapped(a) =>
            ByteAt(a) = IF op # "from" /\ a \in gpa .. gpa + Prefix - 1
                        THEN IF op = "zero" THEN 0 ELSE a - gpa + 1
                        ELSE OLD
        /\ \A k \in 1 .. size : buf[k] = IF op = "from" /\ k <= Prefix THEN gpa + k - 1 ELSE OLD

\* The loop ends, in a result or at a null pointer.
Returns == <>(ret # Running)

----------------------------------------------------------------------------
(* Claims of comments and documents that the code does not meet. *)

\* vm.c:471 reports "NULL page at index %llu in region at GPA 0x%llx" and
\* returns; a region without pages has no array to find the NULL in.
MissingPageReported == ret # Oops
=============================================================================
