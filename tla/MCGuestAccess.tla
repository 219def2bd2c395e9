--------------------------- MODULE MCGuestAccess ---------------------------
(***************************************************************************)
(* The host's accesses to guest memory: by guest-physical address          *)
(* (GuestCopy) and by guest-virtual address (GuestWalk).  An access is one *)
(* of the two, and they share no state.                                    *)
(***************************************************************************)
EXTENDS GuestCopy, GuestWalk

VARIABLE kind

\* One region, two that touch, in either order of the list, two with a hole
\* between them, RAM on both sides of MMIO, and no memory at all.
Ram(s, n) == [start |-> s, size |-> n, pages |-> TRUE]
Mmio(s, n) == [start |-> s, size |-> n, pages |-> FALSE]
MCMaps == {<<>>, <<Ram(0, 6)>>, <<Ram(0, 4), Ram(4, 2)>>, <<Ram(4, 4), Ram(0, 4)>>,
           <<Ram(6, 2), Ram(2, 2)>>, <<Mmio(4, 2), Ram(6, 2), Ram(0, 4)>>}

\* Entries that point to a table, to data, past the end of RAM, and a leaf.
E(ps, f) == [p |-> TRUE, ps |-> ps, frame |-> f]
MCEntries == {NotPresent, E(FALSE, 1), E(FALSE, 3), E(TRUE, 2), E(FALSE, 4)}

\* The other access is one of no interest: a copy of 0 bytes that has been
\* refused, a walk that has not begun.
NoCopy ==
    /\ map = <<>> /\ op = "to" /\ gpa = 0 /\ size = 0 /\ done = 0
    /\ region = 0 /\ mem = Pages(map) /\ buf = <<>> /\ ret = EINVAL
NoWalk ==
    /\ pt = [f \in TableFrames |-> [k \in 0 .. Fan - 1 |-> NotPresent]]
    /\ mode = "off" /\ root = 0 /\ gva = 0 /\ want = 1

MCInit ==
    \/ kind = "physical" /\ CopyInit /\ NoWalk /\ WalkInit
    \/ kind = "virtual" /\ NoCopy /\ WalkInit

MCNext ==
    /\ UNCHANGED kind
    /\ \/ kind = "physical" /\ CopyStep /\ UNCHANGED walkVars
       \/ kind = "virtual" /\ WalkNext /\ UNCHANGED copyVars

MCSpec == MCInit /\ [][MCNext]_<<kind, copyVars, walkVars>> /\ WF_<<kind, copyVars, walkVars>>(MCNext)

\* Type invariant of the two.
TypesOK == CopyTypeOK /\ WalkTypeOK
=============================================================================
