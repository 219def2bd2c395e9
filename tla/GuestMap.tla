------------------------------ MODULE GuestMap ------------------------------
(***************************************************************************)
(* What the second-level translation promises the guest: a partial map     *)
(* from guest-physical pages to host frames that never gives one host      *)
(* frame to two guest pages, never moves a guest page to another frame     *)
(* without unmapping it, and never adds and removes pages in one step.     *)
(* Ept.tla shows that the four-level tables of ept.c implement it, and     *)
(* Stage2.tla when the tables of stage2.c do.                              *)
(***************************************************************************)
CONSTANTS Gpas,     \* guest-physical page addresses
          Hpas,     \* host-physical frames
          NoFrame   \* "not mapped"

VARIABLE map        \* the translation the hardware walk yields

Empty == [g \in Gpas |-> NoFrame]

Init == map = Empty

\* Pages that were not mapped, a page or a block of them, get frames nobody
\* else has.
Map ==
    /\ \A g \in Gpas : map'[g] \in Hpas \cup {NoFrame}
    /\ \A g \in Gpas : map[g] # NoFrame => map'[g] = map[g]
    /\ \A g \in Gpas : map'[g] # NoFrame => \A x \in Gpas \ {g} : map'[x] # map'[g]

Unmap == \A g \in Gpas : map'[g] \in {map[g], NoFrame}

Next == Map \/ Unmap

Spec == Init /\ [][Next]_map
=============================================================================
