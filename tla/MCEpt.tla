-------------------------------- MODULE MCEpt --------------------------------
(***************************************************************************)
(* The x86 second-level tables: those of a VM's life (Ept) and the calls   *)
(* for leaves of two sizes (LargePages).  They share no state; a behaviour *)
(* moves one of them.                                                      *)
(*                                                                         *)
(* Ept has three pages of RAM on both sides of a 2 MB boundary (two page   *)
(* tables), a device of two pages and the APIC page elsewhere (six more    *)
(* tables), in a pool that is exhausted when RAM is leaked.                *)
(*                                                                         *)
(* LargePages has two regions: one starts inside a block and goes on with  *)
(* a whole one, the other is a block that ends in an MMIO window.  One     *)
(* table fewer can be had than they need with small pages.                 *)
(***************************************************************************)
EXTENDS Ept, LargePages, TLC

MCRam == <<<<0, 0, 0, 0>>, <<0, 0, 0, 1>>, <<0, 0, 1, 0>>>>
MCMmio == <<<<1, 0, 0, 1>>, <<1, 0, 1, 0>>>>
MCApic == <<1, 1, 0, 0>>
MCFrames == 1 .. 17

MCBanks == {[gpa |-> 1, hpa |-> 3, size |-> 3], [gpa |-> 4, hpa |-> 8, size |-> 2]}
MCWindows == {5}

\* The threads are interchangeable.
MCSymmetry == Permutations(LpCallers)

VARIABLE part   \* the component this behaviour moves

MCInit ==
    /\ part \in {"life", "large"} /\ Init /\ LpInit
    /\ part = "life" => backend = "ept"

MCNext ==
    /\ UNCHANGED part
    /\ \/ part = "life" /\ Next /\ UNCHANGED lpVars
       \/ part = "large" /\ LpNext /\ UNCHANGED vars

MCSpec == MCInit /\ [][MCNext]_<<part, vars, lpVars>>

\* Type invariant of the two.
TypesOK == TypeOK /\ LpTypeOK

\* No table page is lost or freed twice and every leaf is counted, in the
\* tables of a VM's life (TablesOwned) and in those with leaves of two sizes,
\* which also lead where the calls say (TwoSizesExact).
TablesExact == TablesOwned /\ TwoSizesExact
=============================================================================
