------------------------------ MODULE MCArm64 ------------------------------
(***************************************************************************)
(* The arm64 instance: two components that share no state, so a run moves  *)
(* one or the other.                                                       *)
(*                                                                         *)
(* The stage-2 space has eight pages under a root of two tables.  The      *)
(* first region starts inside a block and ends with one; the last page of  *)
(* the second is an MMIO window that shares a block with RAM.  So a page   *)
(* loop, a block, a block that may not be used and, with map_range on the  *)
(* first region, a block replaced by pages all occur.  Of the four hosts   *)
(* two can hold 39-bit addresses, one with 8-bit and one with 16-bit       *)
(* VMIDs; vm_id 256 fits only the latter.  "geometry" registers all of     *)
(* them in turn and makes and destroys contexts; "tables" maps and unmaps, *)
(* with the one host that can hold the VM.                                 *)
(*                                                                         *)
(* The world switch has one register for each way the code treats one, and *)
(* two values: host and guest each leave all their registers at one of     *)
(* them, so a register that is not switched keeps the other's value.  An   *)
(* interruption writes what an exception writes, or all it may.            *)
(***************************************************************************)
EXTENDS Stage2, WorldSwitch, TLC

MCRegions == {[ipa |-> 1, pa |-> 3, size |-> 3], [ipa |-> 4, pa |-> 6, size |-> 2]}
MCWindows == {5}
MCHost == [el2 |-> 2, granule |-> 15, granule2 |-> 2, pa |-> 6, vmids |-> 2]
MCHostIds == {MCHost,
              [el2 |-> 1, granule |-> 0, granule2 |-> 0, pa |-> 2, vmids |-> 0],
              [el2 |-> 1, granule |-> 0, granule2 |-> 0, pa |-> 1, vmids |-> 0],
              [el2 |-> 1, granule |-> 15, granule2 |-> 0, pa |-> 5, vmids |-> 0]}
MCVmIds == {256}

MCHostHcrs == {{"E2H", "TGE"}, {"RW"}}
MCFeatures == {{}, {"LO", "RAS"}}
MCHostFiles == {[r \in Kept |-> v] : v \in Values}
MCGuestFiles == {[r \in Guest |-> v] : v \in Values}
MCInterruptions == {[r \in S |-> Entry] : S \in {Return \cup Syndrome, Exposed}}

\* The threads are interchangeable.
MCSymmetry == Permutations(Callers)

VARIABLE part   \* the component, and what of it, this behaviour moves

MCInit ==
    /\ Init /\ WsInit /\ part \in {"geometry", "tables", "switch"}
    /\ part # "switch" => hcr = {"RW"} /\ \A r \in Kept : hostv[r] = Zero

GeometryStep ==
    /\ entry' = [s \in Slots |-> Invalid]
    /\ \A c \in Callers : call'[c].op \in {"idle", "setup"}

TablesStep == limits' \in {NoLimits, s2_decode_limits(MCHost)}

MCNext ==
    /\ UNCHANGED part
    /\ \/ part = "geometry" /\ Next /\ GeometryStep /\ UNCHANGED wsVars
       \/ part = "tables" /\ Next /\ TablesStep /\ UNCHANGED wsVars
       \/ part = "switch" /\ WsNext /\ UNCHANGED vars

MCSpec == MCInit /\ [][MCNext]_<<vars, wsVars, part>>

\* Type invariant of both components; the geometry in a context is one that
\* relm_setup_stage2 may choose.
TypesOK == TypeOK /\ Encodable /\ WsTypeOK
=============================================================================
