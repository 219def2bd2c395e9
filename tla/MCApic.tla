------------------------------- MODULE MCApic -------------------------------
(***************************************************************************)
(* The local APICs of a VM (Apic) and the timer of one (ApicTimer).         *)
(* The timer never makes a vector pending and shares no register with the  *)
(* rest, so a behaviour exercises one of them and leaves the other alone:  *)
(* "ipi" one vector and all registers but TPR, "tpr" one vector and TPR,   *)
(* "shadow" all vectors and TPR shadow, "timer" the timer.                 *)
(***************************************************************************)
EXTENDS Apic, ApicTimer

VARIABLE part

OneVector == \A v \in Vcpus : \A x \in irr'[v], y \in Vectors : x <= y

MCInit ==
    /\ part \in {"ipi", "tpr", "shadow", "timer"} /\ Init /\ TimerInit
    /\ tpr_shadow = (part = "shadow")

MCNext ==
    /\ UNCHANGED part
    /\ \/ part = "ipi" /\ Next /\ OneVector /\ tpr' = tpr /\ UNCHANGED timerVars
       \/ part = "tpr" /\ Next /\ OneVector /\ reg' = reg /\ UNCHANGED timerVars
       \/ part = "shadow" /\ Next /\ reg' = reg /\ UNCHANGED timerVars
       \/ part = "timer" /\ TimerNext /\ UNCHANGED vars

MCSpec == MCInit /\ [][MCNext]_<<part, vars, timerVars>>

\* Type invariant of the two.
TypesOK == TypeOK /\ TimerTypeOK
=============================================================================
