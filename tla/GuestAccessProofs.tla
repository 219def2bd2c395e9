-------------------------- MODULE GuestAccessProofs --------------------------
(***************************************************************************)
(* Proofs about the accesses to a VM's local APICs (Apic) and their timer  *)
(* (ApicTimer), for every set of vCPUs, vectors, destinations, task        *)
(* priorities, counts and divide values that meets ApicAssumption and      *)
(* TimerAssumption; and about the host's accesses to guest memory          *)
(* (GuestCopy), for every list of regions that meets CopyAssumption.       *)
(***************************************************************************)
EXTENDS MCApic, GuestCopy, FiniteSetTheorems, TLAPS

Page == [irr : SUBSET Vectors, tmr : SUBSET Vectors, tpr : Priorities, ppr : Classes]
Reg == [id : Dests, ldr : Ldrs \cup {0}, dest : Dests]
Debt == [pending : SUBSET Vectors, level : SUBSET Vectors, asleep : BOOLEAN]

HistoriesOK == told \in [Vcpus -> Reg] /\ owed \in [Vcpus -> Debt]

----------------------------------------------------------------------------
(* The invariant. *)

\* What makes PageMirrorsModel inductive: no code puts a vector in service, so
\* the processor priority is the class of a task priority.
NothingInService == \A v \in Vcpus : isr[v] = {}

IInv == TypeOK /\ PageMirrorsModel /\ NothingInService

LEMMA TypeFacts ==
    ASSUME TypeOK
    PROVE  /\ reg \in [Vcpus -> Reg] /\ page \in [Vcpus -> Page]
           /\ irr \in [Vcpus -> SUBSET Vectors] /\ isr \in [Vcpus -> SUBSET Vectors]
           /\ tmr \in [Vcpus -> SUBSET Vectors]
           /\ tpr \in [Vcpus -> Priorities] /\ ppr \in [Vcpus -> Classes]
           /\ run \in [Vcpus -> {"guest", "exit"}] /\ halted \in [Vcpus -> BOOLEAN]
           /\ last \in [Vcpus -> {"emulated", "failed", "stopped"}]
           /\ HistoriesOK
  BY Zenon DEF TypeOK, Reg, Page, Debt, HistoriesOK

LEMMA PprOfTask ==
    ASSUME NEW p \in Priorities
    PROVE  relm_apic_ppr_update(p, {}) \in Classes
  BY Zenon DEF relm_apic_ppr_update, Classes

LEMMA InitIInv ==
    ASSUME Init
    PROVE  IInv
  <1>1. 0 \in Priorities /\ 0 \in Classes
    <2>1. 0 \in Priorities /\ Class(0) = 0
      BY DEF Priorities, Class
    <2> QED
      BY Zenon, <2>1 DEF Classes
  <1>2. Vcpus \subseteq Dests /\ 0 \in Dests
    BY Zenon, ApicAssumption
  <1>3. reg \in [Vcpus -> Reg] /\ page \in [Vcpus -> Page] /\ HistoriesOK
    BY Zenon, <1>1, <1>2 DEF Init, Reg, Page, Debt, HistoriesOK
  <1>4. TypeOK
    BY Zenon, <1>1, <1>3 DEF Init, TypeOK, Reg, Page, Debt, HistoriesOK
  <1>5. PageMirrorsModel /\ NothingInService
    BY Zenon DEF Init, PageMirrorsModel, NothingInService
  <1> QED
    BY Zenon, <1>4, <1>5 DEF IInv

\* Making a vector pending: the page follows the model, for every vCPU.
LEMMA InjectStep ==
    ASSUME IInv, NEW ts, NEW x \in Vectors, NEW level \in BOOLEAN,
           relm_apic_inject_interrupt(ts, x, level)
    PROVE  /\ irr' \in [Vcpus -> SUBSET Vectors] /\ tmr' \in [Vcpus -> SUBSET Vectors]
           /\ page' \in [Vcpus -> Page] /\ halted' \in [Vcpus -> BOOLEAN]
           /\ \A t \in Vcpus :
                 /\ page'[t].irr = irr'[t] /\ page'[t].tmr = tmr'[t]
                 /\ page'[t].tpr = page[t].tpr /\ page'[t].ppr = page[t].ppr
                 /\ irr[t] \subseteq irr'[t]
  <1>1. /\ page \in [Vcpus -> Page] /\ irr \in [Vcpus -> SUBSET Vectors]
        /\ tmr \in [Vcpus -> SUBSET Vectors] /\ halted \in [Vcpus -> BOOLEAN]
    BY Zenon, TypeFacts DEF IInv
  <1>2. /\ irr' = Pend(ts, x, TRUE, irr) /\ tmr' = Pend(ts, x, level, tmr)
        /\ page' = [t \in Vcpus |-> [page[t] EXCEPT !.irr = irr'[t], !.tmr = tmr'[t]]]
        /\ halted' = [t \in Vcpus |-> halted[t] /\ t \notin ts]
    BY ZenonT(30) DEF relm_apic_inject_interrupt
  <1>3. /\ irr' \in [Vcpus -> SUBSET Vectors] /\ tmr' \in [Vcpus -> SUBSET Vectors]
        /\ \A t \in Vcpus : irr[t] \subseteq irr'[t]
    BY Zenon, <1>1, <1>2 DEF Pend
  <1>4. ASSUME NEW t \in Vcpus
        PROVE  LET new == [page[t] EXCEPT !.irr = irr'[t], !.tmr = tmr'[t]]
               IN  /\ new \in Page /\ new.irr = irr'[t] /\ new.tmr = tmr'[t]
                   /\ new.tpr = page[t].tpr /\ new.ppr = page[t].ppr
    <2>1. page[t] \in Page /\ irr'[t] \in SUBSET Vectors /\ tmr'[t] \in SUBSET Vectors
      BY Zenon, <1>1, <1>3
    <2> QED
      BY Zenon, <2>1 DEF Page
  <1>5. halted' \in [Vcpus -> BOOLEAN]
    BY Zenon, <1>1, <1>2
  <1> QED
    BY Zenon, <1>2, <1>3, <1>4, <1>5

LEMMA InjectIInv ==
    ASSUME IInv, NEW ts, NEW x \in Vectors, NEW level \in BOOLEAN,
           relm_apic_inject_interrupt(ts, x, level),
           UNCHANGED <<reg, isr, tpr, ppr, tpr_shadow>>,
           run' \in [Vcpus -> {"guest", "exit"}],
           last' \in [Vcpus -> {"emulated", "failed", "stopped"}], HistoriesOK'
    PROVE  IInv'
  <1>0. /\ irr' \in [Vcpus -> SUBSET Vectors] /\ tmr' \in [Vcpus -> SUBSET Vectors]
        /\ page' \in [Vcpus -> Page] /\ halted' \in [Vcpus -> BOOLEAN]
    BY Zenon, InjectStep
  <1>1. TypeOK'
    BY Zenon, <1>0 DEF IInv, TypeOK, Page, Reg, Debt, HistoriesOK
  <1>2. PageMirrorsModel'
    BY Zenon, InjectStep DEF IInv, PageMirrorsModel
  <1> QED
    BY Zenon, <1>1, <1>2 DEF IInv, NothingInService

\* What an exit and an entry do to run and last.
LEMMA RunTyped ==
    ASSUME IInv, NEW v \in Vcpus,
           \/ Emulated(v)
           \/ VmEntry(v)
           \/ Exit(v) /\ last' = [last EXCEPT ![v] = "failed"]
           \/ Exit(v) /\ last' = [last EXCEPT ![v] = "stopped"]
    PROVE  /\ run' \in [Vcpus -> {"guest", "exit"}]
           /\ last' \in [Vcpus -> {"emulated", "failed", "stopped"}]
  <1>1. /\ run \in [Vcpus -> {"guest", "exit"}]
        /\ last \in [Vcpus -> {"emulated", "failed", "stopped"}]
    BY Zenon, TypeFacts DEF IInv
  <1> QED
    BY Zenon, <1>1 DEF Emulated, Exit, VmEntry

\* A step that leaves the interrupt state, the priorities and the page alone.
LEMMA QuietIInv ==
    ASSUME IInv, UNCHANGED <<irr, isr, tmr, ppr, page, tpr_shadow>>,
           ~tpr_shadow => \A v \in Vcpus : tpr'[v] = tpr[v],
           tpr' \in [Vcpus -> Priorities],
           reg' \in [Vcpus -> Reg], halted' \in [Vcpus -> BOOLEAN],
           run' \in [Vcpus -> {"guest", "exit"}],
           last' \in [Vcpus -> {"emulated", "failed", "stopped"}], HistoriesOK'
    PROVE  IInv'
  <1>1. TypeOK'
    BY Zenon DEF IInv, TypeOK, Reg, Debt, HistoriesOK
  <1>2. PageMirrorsModel'
    BY Zenon DEF IInv, PageMirrorsModel
  <1> QED
    BY Zenon, <1>1, <1>2 DEF IInv, NothingInService

\* A new priority reaches the page with the model.
LEMMA SetPprIInv ==
    ASSUME IInv, NEW v \in Vcpus, NEW p \in Priorities, SetPpr(v, p, isr[v]),
           \/ ~tpr_shadow /\ tpr' = [tpr EXCEPT ![v] = p]
           \/ p = tpr[v] /\ tpr' = tpr,
           UNCHANGED <<reg, irr, isr, tmr, halted, tpr_shadow>>,
           run' \in [Vcpus -> {"guest", "exit"}],
           last' \in [Vcpus -> {"emulated", "failed", "stopped"}], HistoriesOK'
    PROVE  IInv'
  <1> DEFINE c == relm_apic_ppr_update(p, {})
             new == [[page[v] EXCEPT !.ppr = c] EXCEPT !.tpr = IF tpr_shadow THEN @ ELSE p]
  <1>1. c \in Classes
    BY Zenon, PprOfTask
  <1>2. /\ page \in [Vcpus -> Page] /\ ppr \in [Vcpus -> Classes]
        /\ tpr \in [Vcpus -> Priorities] /\ page[v] \in Page
    BY Zenon, TypeFacts DEF IInv
  <1>3. ppr' = [ppr EXCEPT ![v] = c] /\ ppr'[v] = c
    BY Zenon, <1>2 DEF IInv, NothingInService, SetPpr
  <1>4. page' = [page EXCEPT ![v] = new]
    <2>1. page' = [page EXCEPT ![v].ppr = c, ![v].tpr = IF tpr_shadow THEN @ ELSE p]
      BY Zenon, <1>3 DEF SetPpr
    <2> QED
      BY Zenon, <1>2, <2>1
  <1>5. /\ new \in Page /\ new.irr = page[v].irr /\ new.tmr = page[v].tmr /\ new.ppr = c
        /\ new.tpr = IF tpr_shadow THEN page[v].tpr ELSE p
    BY Zenon, <1>1, <1>2 DEF Page
  <1> HIDE DEF c, new
  <1>6. page' \in [Vcpus -> Page] /\ ppr' \in [Vcpus -> Classes] /\ tpr' \in [Vcpus -> Priorities]
    BY Zenon, <1>1, <1>2, <1>3, <1>4, <1>5
  <1>7. TypeOK'
    BY Zenon, <1>6 DEF IInv, TypeOK, Page, Reg, Debt, HistoriesOK
  <1>8. PageMirrorsModel'
    BY <1>2, <1>3, <1>4, <1>5 DEF IInv, PageMirrorsModel
  <1> QED
    BY Zenon, <1>7, <1>8 DEF IInv, NothingInService

LEMMA StepIInv ==
    ASSUME IInv, NEW v \in Vcpus, Step(v), UNCHANGED tpr_shadow, HistoriesOK'
    PROVE  IInv'
  <1>1. /\ reg \in [Vcpus -> Reg] /\ page \in [Vcpus -> Page]
        /\ tpr \in [Vcpus -> Priorities] /\ halted \in [Vcpus -> BOOLEAN]
    BY Zenon, TypeFacts DEF IInv
  <1>2. ASSUME NEW field \in {"id", "ldr", "dest"}, NEW x, WriteReg(v, field, x),
               x \in IF field = "ldr" THEN Ldrs ELSE Dests
        PROVE  IInv'
    <2>1. [reg[v] EXCEPT ![field] = x] \in Reg
      BY Zenon, <1>1, <1>2 DEF Reg
    <2>2. reg' \in [Vcpus -> Reg]
      BY Zenon, <1>1, <1>2, <2>1 DEF WriteReg
    <2> QED
      BY Zenon, <1>1, <1>2, <2>2, RunTyped, QuietIInv DEF WriteReg
  <1>3. ASSUME NEW sh, NEW lg \in BOOLEAN, NEW x \in Vectors, NEW lv \in BOOLEAN,
               relm_apic_handle_icr_write(v, sh, lg, x, lv)
        PROVE  IInv'
    BY Zenon, <1>3, RunTyped, InjectIInv DEF relm_apic_handle_icr_write
  <1>4. ASSUME NEW p \in Tprs, WriteTpr(v, p)
        PROVE  IInv'
    BY Zenon, <1>4, RunTyped, SetPprIInv DEF WriteTpr, Priorities
  <1>5. ASSUME NEW p \in Tprs, ShadowTpr(v, p)
        PROVE  IInv'
    <2>1. page[v] \in Page /\ p \in Priorities
      BY Zenon, <1>1 DEF Priorities
    <2> DEFINE new == [page[v] EXCEPT !.tpr = p]
    <2>2. page' = [page EXCEPT ![v] = new]
      BY Zenon, <1>1, <1>5 DEF ShadowTpr
    <2>3. /\ new \in Page /\ new.irr = page[v].irr
          /\ new.tmr = page[v].tmr /\ new.ppr = page[v].ppr
      BY Zenon, <2>1 DEF Page
    <2> HIDE DEF new
    <2>4. page' \in [Vcpus -> Page]
      BY Zenon, <1>1, <2>2, <2>3
    <2>5. TypeOK'
      BY Zenon, <1>5, <2>4 DEF ShadowTpr, IInv, TypeOK, Page, Reg, Debt, HistoriesOK
    <2>6. PageMirrorsModel'
      BY <1>1, <1>5, <2>2, <2>3 DEF ShadowTpr, IInv, PageMirrorsModel
    <2> QED
      BY Zenon, <1>5, <2>5, <2>6 DEF ShadowTpr, IInv, NothingInService
  <1>6. CASE ReadTpr(v)
    <2>1. page[v].tpr \in Priorities
      BY Zenon, <1>1 DEF Page
    <2>2. tpr' \in [Vcpus -> Priorities]
      BY Zenon, <1>1, <1>6, <2>1 DEF ReadTpr
    <2>3. ~tpr_shadow => \A w \in Vcpus : tpr'[w] = tpr[w]
      BY Zenon, <1>1, <1>6 DEF ReadTpr, IInv, PageMirrorsModel
    <2> QED
      BY Zenon, <1>1, <1>6, <2>2, <2>3, RunTyped, QuietIInv DEF ReadTpr
  <1>7. CASE ReadPpr(v)
    BY Zenon, <1>1, <1>7, RunTyped, SetPprIInv DEF ReadPpr
  <1>8. CASE relm_apic_eoi(v)
    <2>1. isr[v] = {}
      BY Zenon DEF IInv, NothingInService
    <2> QED
      BY Zenon, <1>1, <1>8, <2>1, RunTyped, QuietIInv DEF relm_apic_eoi
  <1>9. CASE FailedAccess(v)
    BY Zenon, <1>1, <1>9, RunTyped, QuietIInv DEF FailedAccess
  <1>10. CASE FetchAccess(v)
    BY Zenon, <1>1, <1>10, RunTyped, QuietIInv DEF FetchAccess
  <1>11. CASE Hlt(v)
    BY Zenon, <1>1, <1>11, RunTyped, QuietIInv DEF Hlt
  <1>12. CASE VmEntry(v)
    BY Zenon, <1>1, <1>12, RunTyped, QuietIInv DEF VmEntry
  <1> QED
    BY Zenon, <1>2, <1>3, <1>4, <1>5, <1>6, <1>7, <1>8, <1>9, <1>10, <1>11, <1>12 DEF Step

\* The histories keep their types.
LEMMA OweTyped ==
    ASSUME IInv, NEW ts, NEW x \in Vectors, NEW level \in BOOLEAN, Owe(ts, x, level)
    PROVE  owed' \in [Vcpus -> Debt]
  <1>1. owed \in [Vcpus -> Debt]
    BY Zenon, TypeFacts DEF IInv, HistoriesOK
  <1>2. ASSUME NEW t \in Vcpus
        PROVE  [pending |-> owed[t].pending \cup {x},
                level |-> {y \in owed[t].level : y # x} \cup (IF level THEN {x} ELSE {}),
                asleep |-> FALSE] \in Debt
    <2>1. owed[t].pending \in SUBSET Vectors /\ owed[t].level \in SUBSET Vectors
      BY Zenon, <1>1 DEF Debt
    <2>2. owed[t].pending \cup {x} \in SUBSET Vectors
      BY Zenon, <2>1
    <2>3. {y \in owed[t].level : y # x} \cup (IF level THEN {x} ELSE {}) \in SUBSET Vectors
      BY Zenon, <2>1
    <2> QED
      BY Zenon, <2>2, <2>3 DEF Debt
  <1> QED
    BY Zenon, <1>1, <1>2 DEF Owe

LEMMA HistoriesTyped ==
    ASSUME IInv, [Next]_vars
    PROVE  HistoriesOK'
  <1>1. told \in [Vcpus -> Reg] /\ owed \in [Vcpus -> Debt]
    BY Zenon, TypeFacts DEF IInv, HistoriesOK
  <1>2. ASSUME NEW v \in Vcpus, NEW field \in {"id", "ldr", "dest"}, NEW x, WriteReg(v, field, x),
               x \in IF field = "ldr" THEN Ldrs ELSE Dests
        PROVE  HistoriesOK'
    <2>1. [told[v] EXCEPT ![field] = x] \in Reg
      BY Zenon, <1>1, <1>2 DEF Reg
    <2> QED
      BY Zenon, <1>1, <1>2, <2>1 DEF WriteReg, HistoriesOK
  <1>3. ASSUME NEW v \in Vcpus, NEW sh, NEW lg \in BOOLEAN, NEW x \in Vectors, NEW lv \in BOOLEAN,
               relm_apic_handle_icr_write(v, sh, lg, x, lv)
        PROVE  HistoriesOK'
    BY Zenon, <1>1, <1>3, OweTyped DEF relm_apic_handle_icr_write, HistoriesOK
  <1>4. ASSUME NEW v \in Vcpus, NEW x \in Vectors, vmx_inject_irq(v, x)
        PROVE  HistoriesOK'
    BY Zenon, <1>1, <1>4, OweTyped DEF vmx_inject_irq, HistoriesOK
  <1>5. ASSUME NEW v \in Vcpus, Hlt(v)
        PROVE  HistoriesOK'
    <2>1. owed[v] \in Debt
      BY Zenon, <1>1
    <2>2. [owed[v] EXCEPT !.asleep = TRUE] \in Debt
      BY Zenon, <2>1 DEF Debt
    <2>3. owed' = [owed EXCEPT ![v] = [owed[v] EXCEPT !.asleep = TRUE]]
      BY Zenon, <1>1, <1>5 DEF Hlt
    <2> QED
      BY Zenon, <1>1, <1>5, <2>2, <2>3 DEF Hlt, HistoriesOK
  <1>6. CASE UNCHANGED <<told, owed>>
    BY Zenon, <1>1, <1>6 DEF HistoriesOK
  <1>7. ASSUME NEW v \in Vcpus, Step(v)
        PROVE  HistoriesOK'
    BY Zenon, <1>2, <1>3, <1>5, <1>6, <1>7
       DEF Step, WriteTpr, ShadowTpr, ReadTpr, ReadPpr, relm_apic_eoi, FailedAccess, FetchAccess, VmEntry
  <1>8. CASE UNCHANGED vars
    BY Zenon, <1>6, <1>8 DEF vars
  <1> QED
    BY Zenon, <1>4, <1>7, <1>8 DEF Next

LEMMA NextIInv ==
    ASSUME IInv, [Next]_vars
    PROVE  IInv'
  <1>0. HistoriesOK'
    BY Zenon, HistoriesTyped
  <1>1. ASSUME NEW v \in Vcpus, NEW x \in Vectors, vmx_inject_irq(v, x), UNCHANGED tpr_shadow
        PROVE  IInv'
    <2>1. /\ run' \in [Vcpus -> {"guest", "exit"}]
          /\ last' \in [Vcpus -> {"emulated", "failed", "stopped"}]
      BY Zenon, <1>1, TypeFacts DEF IInv, vmx_inject_irq
    <2> QED
      BY Zenon, <1>0, <1>1, <2>1, InjectIInv DEF vmx_inject_irq
  <1>2. CASE UNCHANGED vars
    BY Zenon, <1>2 DEF vars, IInv, TypeOK, PageMirrorsModel, NothingInService
  <1> QED
    BY Zenon, <1>0, <1>1, <1>2, StepIInv DEF Next

\* Whatever the vCPUs of a VM send one another and whichever priorities they
\* set, the page the processor reads for a guest shows the pending vectors,
\* trigger modes and priorities of its APIC.
THEOREM PageAlwaysMirrors == Spec => []PageMirrorsModel
  <1>1. IInv => PageMirrorsModel
    BY Zenon DEF IInv
  <1> QED
    BY <1>1, InitIInv, NextIInv, PTL DEF Spec

----------------------------------------------------------------------------
(* Delivery. *)

\* What makes DeliveryExact inductive: the registers are what the guests wrote.
DInv == told = reg /\ DeliveryExact

Shorthands == {"NONE", "SELF", "ALL_INCL", "ALL_EXCL"}

LEMMA BitIsHasBit ==
    ASSUME NEW n \in 0 .. 3
    PROVE  /\ HasBit(n, 0) <=> 1 \in Bit(n)
           /\ HasBit(n, 1) <=> 2 \in Bit(n)
           /\ Bit(n) \subseteq {1, 2}
  <1>1. n = 0 \/ n = 1 \/ n = 2 \/ n = 3
    OBVIOUS
  <1>2. CASE n = 0
    BY <1>2 DEF HasBit, Bit
  <1>3. CASE n = 1
    BY <1>3 DEF HasBit, Bit
  <1>4. CASE n = 2
    BY <1>4 DEF HasBit, Bit
  <1>5. CASE n = 3
    BY <1>5 DEF HasBit, Bit
  <1> QED
    BY Zenon, <1>1, <1>2, <1>3, <1>4, <1>5

\* The loop over the vCPUs finds those the sender means.
LEMMA TargetsAreMeant ==
    ASSUME IInv, DInv, NEW s \in Vcpus, NEW sh \in Shorthands, NEW lg \in BOOLEAN
    PROVE  Targets(s, sh, lg) = {t \in Vcpus : Means(s, t, sh, lg)}
  <1>1. told = reg /\ reg \in [Vcpus -> Reg]
    BY Zenon, TypeFacts DEF IInv, DInv
  <1>2. CASE sh = "SELF"
    BY Zenon, <1>2 DEF Targets, Means
  <1>3. CASE sh = "ALL_INCL"
    BY Zenon, <1>3 DEF Targets, Means
  <1>4. CASE sh = "ALL_EXCL"
    BY Zenon, <1>4 DEF Targets, Means
  <1>5. CASE sh = "NONE" /\ ~lg
    BY Zenon, <1>1, <1>5 DEF Targets, Means
  <1>6. CASE sh = "NONE" /\ lg
    <2>1. ASSUME NEW t \in Vcpus
          PROVE  Bit(reg[t].ldr) \cap Bit(reg[s].dest) # {} <=> Means(s, t, sh, lg)
      <3> DEFINE m == reg[t].ldr
                 n == reg[s].dest
      <3>1. m \in 0 .. 3 /\ n \in 0 .. 3
        <4>1. m \in Ldrs \cup {0} /\ n \in Dests
          BY Zenon, <1>1 DEF Reg
        <4> QED
          BY <4>1, ApicAssumption
      <3>2. /\ HasBit(m, 0) <=> 1 \in Bit(m)
            /\ HasBit(m, 1) <=> 2 \in Bit(m)
            /\ Bit(m) \subseteq {1, 2}
        BY Zenon, <3>1, BitIsHasBit
      <3>3. /\ HasBit(n, 0) <=> 1 \in Bit(n)
            /\ HasBit(n, 1) <=> 2 \in Bit(n)
            /\ Bit(n) \subseteq {1, 2}
        BY Zenon, <3>1, BitIsHasBit
      <3>4. Means(s, t, sh, lg) <=> \E b \in {0, 1} : HasBit(m, b) /\ HasBit(n, b)
        BY Zenon, <1>1, <1>6 DEF Means
      <3> HIDE DEF m, n
      <3>5. Bit(m) \cap Bit(n) # {} <=> \E b \in {0, 1} : HasBit(m, b) /\ HasBit(n, b)
        BY Zenon, <3>2, <3>3
      <3> QED
        BY Zenon, <3>4, <3>5 DEF m, n
    <2>2. Targets(s, sh, lg) = {t \in Vcpus : Bit(reg[t].ldr) \cap Bit(reg[s].dest) # {}}
      BY Zenon, <1>6 DEF Targets
    <2> QED
      BY Zenon, <2>1, <2>2
  <1> QED
    BY Zenon, <1>2, <1>3, <1>4, <1>5, <1>6 DEF Shorthands

\* What is made pending is what is owed.
LEMMA InjectDelivers ==
    ASSUME IInv, DInv, NEW ts, NEW x \in Vectors, NEW level \in BOOLEAN,
           relm_apic_inject_interrupt(ts, x, level), Owe(ts, x, level)
    PROVE  DeliveryExact'
  <1> SUFFICES ASSUME NEW t \in Vcpus
               PROVE  /\ irr'[t] = owed'[t].pending /\ tmr'[t] = owed'[t].level
                      /\ halted'[t] = owed'[t].asleep
    BY Zenon DEF DeliveryExact
  <1>1. /\ irr[t] = owed[t].pending /\ tmr[t] = owed[t].level /\ halted[t] = owed[t].asleep
        /\ halted \in [Vcpus -> BOOLEAN]
    BY Zenon, TypeFacts DEF IInv, DInv, DeliveryExact
  <1>2. /\ irr'[t] = (IF t \notin ts THEN irr[t] ELSE irr[t] \cup {x})
        /\ tmr'[t] = (IF t \notin ts THEN tmr[t]
                      ELSE IF level THEN tmr[t] \cup {x} ELSE tmr[t] \ {x})
        /\ halted'[t] = (halted[t] /\ t \notin ts)
    BY Zenon DEF relm_apic_inject_interrupt, Pend
  <1>3. CASE t \notin ts
    <2>1. owed'[t] = owed[t]
      BY Zenon, <1>3 DEF Owe
    <2>2. halted'[t] = halted[t]
      BY Zenon, <1>1, <1>2, <1>3
    <2> QED
      BY Zenon, <1>1, <1>2, <1>3, <2>1, <2>2
  <1>4. CASE t \in ts
    <2>1. /\ owed'[t].pending = owed[t].pending \cup {x}
          /\ owed'[t].level = {y \in owed[t].level : y # x} \cup (IF level THEN {x} ELSE {})
          /\ owed'[t].asleep = FALSE
      BY Zenon, <1>4 DEF Owe
    <2>2. tmr'[t] = {y \in owed[t].level : y # x} \cup (IF level THEN {x} ELSE {})
      <3>1. CASE level
        BY Zenon, <1>1, <1>2, <1>4, <3>1
      <3>2. CASE ~level
        BY Zenon, <1>1, <1>2, <1>4, <3>2
      <3> QED
        BY Zenon, <3>1, <3>2
    <2>3. halted'[t] = FALSE
      BY Zenon, <1>2, <1>4
    <2> QED
      BY Zenon, <1>1, <1>2, <1>4, <2>1, <2>2, <2>3
  <1> QED
    BY Zenon, <1>3, <1>4

LEMMA NextDInv ==
    ASSUME IInv, DInv, [Next]_vars
    PROVE  DInv'
  <1>1. ASSUME NEW v \in Vcpus, NEW field, NEW x, WriteReg(v, field, x)
        PROVE  DInv'
    BY Zenon, <1>1 DEF WriteReg, DInv, DeliveryExact
  <1>2. ASSUME NEW v \in Vcpus, NEW sh \in Shorthands, NEW lg \in BOOLEAN, NEW x \in Vectors,
               NEW lv \in BOOLEAN, relm_apic_handle_icr_write(v, sh, lg, x, lv)
        PROVE  DInv'
    <2>1. /\ relm_apic_inject_interrupt(Targets(v, sh, lg), x, lv)
          /\ Owe({t \in Vcpus : Means(v, t, sh, lg)}, x, lv)
          /\ told' = told /\ reg' = reg
      BY Zenon, <1>2 DEF relm_apic_handle_icr_write
    <2>2. Owe(Targets(v, sh, lg), x, lv)
      BY Zenon, <2>1, TargetsAreMeant
    <2>3. DeliveryExact'
      BY Zenon, <2>1, <2>2, InjectDelivers
    <2> QED
      BY Zenon, <2>1, <2>3 DEF DInv
  <1>3. ASSUME NEW v \in Vcpus, NEW x \in Vectors, vmx_inject_irq(v, x)
        PROVE  DInv'
    <2>1. /\ relm_apic_inject_interrupt({v}, x, FALSE) /\ Owe({v}, x, FALSE)
          /\ told' = told /\ reg' = reg
      BY Zenon, <1>3 DEF vmx_inject_irq
    <2>2. DeliveryExact'
      BY Zenon, <2>1, InjectDelivers
    <2> QED
      BY Zenon, <2>1, <2>2 DEF DInv
  <1>4. ASSUME NEW v \in Vcpus, Hlt(v)
        PROVE  DInv'
    <2>1. owed \in [Vcpus -> Debt] /\ halted \in [Vcpus -> BOOLEAN] /\ owed[v] \in Debt
      BY Zenon, TypeFacts DEF IInv, HistoriesOK
    <2>2. owed' = [owed EXCEPT ![v] = [owed[v] EXCEPT !.asleep = TRUE]]
      BY Zenon, <1>4, <2>1 DEF Hlt
    <2>3. /\ owed'[v].pending = owed[v].pending /\ owed'[v].level = owed[v].level
          /\ owed'[v].asleep = TRUE
          /\ \A t \in Vcpus : t # v => owed'[t] = owed[t]
      BY Zenon, <2>1, <2>2 DEF Debt
    <2>4. halted'[v] = TRUE /\ \A t \in Vcpus : t # v => halted'[t] = halted[t]
      BY Zenon, <1>4, <2>1 DEF Hlt
    <2>5. UNCHANGED <<reg, told, irr, tmr>>
      BY Zenon, <1>4 DEF Hlt
    <2> QED
      BY Zenon, <2>3, <2>4, <2>5 DEF DInv, DeliveryExact
  <1>5. CASE UNCHANGED <<reg, told, irr, tmr, halted, owed>>
    BY Zenon, <1>5 DEF DInv, DeliveryExact
  <1>6. ASSUME NEW v \in Vcpus, relm_apic_eoi(v)
        PROVE  DInv'
    <2>1. isr[v] = {}
      BY Zenon DEF IInv, NothingInService
    <2> QED
      BY Zenon, <1>5, <1>6, <2>1 DEF relm_apic_eoi
  <1>7. ASSUME NEW v \in Vcpus, Step(v)
        PROVE  DInv'
    BY Zenon, <1>1, <1>2, <1>4, <1>5, <1>6, <1>7
       DEF Step, WriteTpr, ShadowTpr, ReadTpr, ReadPpr, FailedAccess, FetchAccess, VmEntry, Shorthands
  <1>8. CASE UNCHANGED vars
    BY Zenon, <1>5, <1>8 DEF vars
  <1> QED
    BY Zenon, <1>3, <1>7, <1>8 DEF Next

\* For every number of vCPUs and vectors: whoever writes whichever ID, logical ID
\* and destination when, an IPI reaches the vCPUs its sender means and no other,
\* with its trigger mode, stays pending there, and wakes them.
THEOREM DeliveryIsExact == Spec => []DeliveryExact
  <1> DEFINE Inv == IInv /\ DInv
  <1>1. Init => Inv
    <2> SUFFICES ASSUME Init PROVE DInv
      BY Zenon, InitIInv
    <2>1. told = reg
      BY Zenon DEF Init
    <2>2. /\ irr = [w \in Vcpus |-> {}] /\ tmr = irr /\ halted = [w \in Vcpus |-> FALSE]
          /\ owed = [w \in Vcpus |-> [pending |-> {}, level |-> {}, asleep |-> FALSE]]
      BY Zenon DEF Init
    <2>3. ASSUME NEW v \in Vcpus
          PROVE  /\ irr[v] = owed[v].pending /\ tmr[v] = owed[v].level
                 /\ halted[v] = owed[v].asleep
      <3>1. irr[v] = {} /\ tmr[v] = {} /\ halted[v] = FALSE
        BY Zenon, <2>2
      <3>2. owed[v] = [pending |-> {}, level |-> {}, asleep |-> FALSE]
        BY Zenon, <2>2
      <3>3. owed[v].pending = {} /\ owed[v].level = {} /\ owed[v].asleep = FALSE
        BY ONLY <3>2
      <3> QED
        BY Zenon, <3>1, <3>3
    <2>4. DeliveryExact
      BY Zenon, <2>3 DEF DeliveryExact
    <2> QED
      BY Zenon, <2>1, <2>4 DEF DInv
  <1>2. Inv /\ [Next]_vars => Inv'
    BY Zenon, NextIInv, NextDInv
  <1>3. Inv => DeliveryExact
    BY Zenon DEF DInv
  <1> QED
    BY <1>1, <1>2, <1>3, PTL DEF Spec

----------------------------------------------------------------------------
(* The timer. *)

\* An armed timer has both a count and a time it was armed at.
TimerInv ==
    TimerTypeOK /\ (timer_icr = 0 <=> timer_start = 0)

LEMMA TimerInitInv ==
    ASSUME TimerInit
    PROVE  TimerInv
  BY TimerAssumption DEF TimerInit, TimerInv, TimerTypeOK, Modes

LEMMA TimerNextInv ==
    ASSUME TimerInv, [TimerNext]_timerVars
    PROVE  TimerInv'
  <1>0. timer_icr \in Nat /\ count \in Nat /\ phase \in Nat
    BY TimerAssumption DEF TimerInv, TimerTypeOK
  <1>1. CASE Tick
    <2>1. count' \in Nat /\ phase' \in Nat /\ steady' \in BOOLEAN
      BY <1>0, <1>1 DEF Tick, Run, TimerInv, TimerTypeOK
    <2> QED
      BY <1>1, <2>1, TimerAssumption DEF Tick, TimerInv, TimerTypeOK
  <1>2. ASSUME NEW n \in Counts \cup {0}, WriteTimerIcr(n)
        PROVE  TimerInv'
    BY <1>2, TimerAssumption DEF WriteTimerIcr, Arm, TimerInv, TimerTypeOK
  <1>3. ASSUME NEW d \in Dcrs, WriteTimerDcr(d)
        PROVE  TimerInv'
    <2>1. d \in 0 .. 15 /\ d % 4 \in 0 .. 3
      BY TimerAssumption
    <2>2. timer_dcr' \in {0, 1, 2, 3, 8, 9, 10, 11}
      BY <1>3, <2>1 DEF WriteTimerDcr
    <2>3. count' \in Nat /\ phase' \in Nat /\ steady' \in BOOLEAN
      BY <1>0, <1>3 DEF WriteTimerDcr, Reprogram
    <2> QED
      BY Zenon, <1>3, <2>2, <2>3 DEF WriteTimerDcr, TimerInv, TimerTypeOK
  <1>4. ASSUME NEW m \in Modes, WriteLvtTimer(m)
        PROVE  TimerInv'
    <2>1. count' \in Nat /\ phase' \in Nat /\ steady' \in BOOLEAN
      BY <1>0, <1>4 DEF WriteLvtTimer, Reprogram
    <2> QED
      BY Zenon, <1>4, <2>1 DEF WriteLvtTimer, TimerInv, TimerTypeOK
  <1>5. CASE UNCHANGED timerVars
    BY Zenon, <1>5 DEF timerVars, running, TimerInv, TimerTypeOK
  <1> QED
    BY Zenon, <1>1, <1>2, <1>3, <1>4, <1>5 DEF TimerNext

\* The table of divide values is the encoding of the register.
LEMMA DivisorIsPeriod ==
    ASSUME NEW d \in {0, 1, 2, 3, 8, 9, 10, 11}
    PROVE  divisor(d) = Period(d) /\ Period(d) \in Nat \ {0}
  <1>1. CASE d = 0
    BY <1>1 DEF divisor, Period
  <1>2. CASE d = 1
    BY <1>2 DEF divisor, Period
  <1>3. CASE d = 2
    BY <1>3 DEF divisor, Period
  <1>4. CASE d = 3
    BY <1>4 DEF divisor, Period
  <1>5. CASE d = 8
    BY <1>5 DEF divisor, Period
  <1>6. CASE d = 9
    BY <1>6 DEF divisor, Period
  <1>7. CASE d = 10
    BY <1>7 DEF divisor, Period
  <1>8. CASE d = 11
    BY <1>8 DEF divisor, Period
  <1> QED
    BY Zenon, <1>1, <1>2, <1>3, <1>4, <1>5, <1>6, <1>7, <1>8

\* Division is unique: a quotient and a small remainder that give the number
\* are what \div and % compute.
LEMMA DivUnique ==
    ASSUME NEW p \in Nat \ {0}, NEW q \in Nat, NEW r \in 0 .. (p - 1), NEW t \in Nat,
           t = q * p + r
    PROVE  t \div p = q /\ t % p = r
  <1>1. PICK a \in Nat : a = t \div p
    BY Z3
  <1>2. PICK b \in 0 .. (p - 1) : b = t % p
    BY Z3
  <1>3. t = p * a + b
    BY Z3, <1>1, <1>2
  <1>4. ASSUME NEW x \in Nat, NEW y \in Nat, x < y
        PROVE  x * p + p <= y * p
    <2>1. y - x - 1 \in Nat /\ y = x + 1 + (y - x - 1)
      BY <1>4
    <2>2. PICK m \in Nat : y = x + 1 + m
      BY Zenon, <2>1
    <2>3. y * p = x * p + p + m * p
      BY <2>2
    <2>4. m * p \in Nat /\ x * p \in Nat
      OBVIOUS
    <2> QED
      BY <2>3, <2>4
  <1>5. q * p \in Nat /\ a * p \in Nat /\ p * a = a * p
    OBVIOUS
  <1>6. CASE q < a
    <2>1. q * p + p <= a * p
      BY Zenon, <1>4, <1>6
    <2> QED
      BY <1>3, <1>5, <2>1
  <1>7. CASE a < q
    <2>1. a * p + p <= q * p
      BY Zenon, <1>4, <1>7
    <2> QED
      BY <1>3, <1>5, <2>1
  <1>8. CASE a = q
    BY <1>1, <1>2, <1>3, <1>5, <1>8
  <1> QED
    BY <1>6, <1>7, <1>8

\* A steady timer that still counts: it reloaded k times, and the time since it
\* was armed is that of the counts it made and of the period under way.
Counting(k) ==
    /\ timer_mode # "TSC_DEADLINE" /\ (timer_mode = "ONESHOT" => k = 0)
    /\ count \in 1 .. timer_icr /\ phase \in 0 .. (Period(timer_dcr) - 1)
    /\ now - timer_start = (k * timer_icr + (timer_icr - count)) * Period(timer_dcr) + phase

\* A one-shot timer at the end: at least all its counts have passed.
Expired ==
    /\ timer_mode = "ONESHOT" /\ count = 0 /\ timer_icr # 0
    /\ timer_icr * Period(timer_dcr) <= now - timer_start

SteadyInv ==
    steady => \/ timer_icr = 0 /\ count = 0
              \/ Expired
              \/ \E k \in Nat : Counting(k)

\* One unit of time for a timer that counts.
LEMMA CountingTick ==
    ASSUME TimerInv, TimerInv', NEW k \in Nat, Counting(k), Tick
    PROVE  Expired' \/ \E j \in Nat : Counting(j)'
  <1> DEFINE p == Period(timer_dcr)
             i == timer_icr
             t == now - timer_start
             q == k * i + (i - count)
  <1>1. p \in Nat \ {0}
    BY Zenon, DivisorIsPeriod DEF TimerInv, TimerTypeOK
  <1>2. /\ now \in Nat /\ timer_start \in Nat /\ i \in Nat \ {0} /\ count \in 1 .. i
        /\ phase \in 0 .. (p - 1) /\ timer_start <= now /\ timer_mode \in {"ONESHOT", "PERIODIC"}
    BY TimerAssumption DEF TimerInv, TimerTypeOK, Counting, Modes
  <1>3. /\ now' = now + 1 /\ timer_start' = timer_start /\ timer_icr' = i /\ timer_mode' = timer_mode
        /\ Period(timer_dcr)' = p /\ Period(timer_dcr') = p
    BY Zenon DEF Tick
  <1>4. t \in Nat /\ (now - timer_start)' = t + 1
    BY <1>2, <1>3
  <1>5. k * i \in Nat /\ q \in Nat /\ q * p \in Nat
    BY <1>1, <1>2
  <1>6. t = q * p + phase /\ (timer_mode = "ONESHOT" => k = 0)
    BY Zenon DEF Counting
  <1> HIDE DEF p, t, q
  <1>7. CASE phase + 1 < p
    <2>1. phase' = phase + 1 /\ count' = count
      BY <1>2, <1>7 DEF Tick, Run, p
    <2>2. phase' \in 0 .. (p - 1) /\ t + 1 = q * p + phase'
      BY <1>1, <1>2, <1>4, <1>5, <1>6, <1>7, <2>1
    <2>3. (now - timer_start)' = (k * timer_icr' + (timer_icr' - count')) * p + phase'
      BY <1>3, <1>4, <2>1, <2>2 DEF q
    <2> QED
      BY <1>2, <1>3, <1>6, <2>1, <2>2, <2>3 DEF Counting
  <1>8. CASE ~(phase + 1 < p)
    <2>1. /\ phase' = 0 /\ count' = IF count = 1 /\ timer_mode = "PERIODIC" THEN i ELSE count - 1
      BY <1>2, <1>8 DEF Tick, Run, p
    <2>2. phase + 1 = p /\ (q + 1) * p = q * p + p
      BY <1>1, <1>2, <1>5, <1>8
    <2>3. t + 1 = (q + 1) * p
      BY <1>1, <1>2, <1>4, <1>5, <1>6, <2>2
    <2>4. CASE count # 1
      <3>1. count' = count - 1 /\ count' \in 1 .. i
        BY <1>2, <2>1, <2>4
      <3>2. q + 1 = k * i + (i - count')
        BY <1>2, <1>5, <3>1 DEF q
      <3>3. (now - timer_start)' = (k * timer_icr' + (timer_icr' - count')) * p + phase'
        BY <1>1, <1>3, <1>4, <1>5, <2>1, <2>3, <3>2
      <3> QED
        BY <1>1, <1>2, <1>3, <1>6, <2>1, <3>1, <3>3 DEF Counting
    <2>5. CASE count = 1 /\ timer_mode = "PERIODIC"
      <3>1. q + 1 = (k + 1) * i /\ k + 1 \in Nat
        BY <1>2, <1>5, <2>5 DEF q
      <3>2. (now - timer_start)' = ((k + 1) * timer_icr' + (timer_icr' - count')) * p + phase'
        BY <1>1, <1>2, <1>3, <1>4, <1>5, <2>1, <2>3, <2>5, <3>1
      <3>3. count' = i /\ count' \in 1 .. timer_icr' /\ phase' \in 0 .. (p - 1)
        BY <1>1, <1>2, <1>3, <2>1, <2>5
      <3>4. Counting(k + 1)'
        BY Zenon, <1>3, <2>5, <3>2, <3>3 DEF Counting
      <3> QED
        BY Zenon, <3>1, <3>4
    <2>6. CASE count = 1 /\ timer_mode = "ONESHOT"
      <3>1. q + 1 = i /\ count' = 0
        <4>1. k * i = 0
          BY <1>2, <1>6, <2>6
        <4> QED
          BY <1>2, <2>1, <2>6, <4>1 DEF q
      <3> QED
        BY <1>1, <1>2, <1>3, <1>4, <2>3, <2>6, <3>1 DEF Expired
    <2> QED
      BY <1>2, <2>4, <2>5, <2>6
  <1> QED
    BY <1>7, <1>8

LEMMA SteadyNext ==
    ASSUME TimerInv, TimerInv', SteadyInv, [TimerNext]_timerVars
    PROVE  SteadyInv'
  <1>1. CASE Tick
    <2> SUFFICES ASSUME steady'
                 PROVE  \/ timer_icr' = 0 /\ count' = 0
                        \/ Expired'
                        \/ \E k \in Nat : Counting(k)'
      BY Zenon DEF SteadyInv
    <2>1. steady
      BY Zenon, <1>1 DEF Tick, Run
    <2>2. CASE timer_icr = 0 /\ count = 0
      BY Zenon, <1>1, <2>2 DEF Tick, Run
    <2>3. CASE Expired
      <3>1. count' = 0 /\ timer_mode' = "ONESHOT" /\ timer_icr' # 0
        BY Zenon, <1>1, <2>3 DEF Tick, Run, Expired
      <3>2. timer_icr' * Period(timer_dcr') = timer_icr * Period(timer_dcr)
        BY Zenon, <1>1 DEF Tick
      <3>3. timer_icr * Period(timer_dcr) \in Int
        <4>1. Period(timer_dcr) \in Nat /\ timer_icr \in Nat
          BY DivisorIsPeriod, TimerAssumption DEF TimerInv, TimerTypeOK
        <4> HIDE DEF Period
        <4> QED
          BY <4>1
      <3>4. /\ now \in Nat /\ timer_start \in Nat
            /\ now' = now + 1 /\ timer_start' = timer_start
        BY <1>1, TimerAssumption DEF Tick, TimerInv, TimerTypeOK
      <3>5. timer_icr * Period(timer_dcr) <= now - timer_start
        BY Zenon, <2>3 DEF Expired
      <3>6. timer_icr' * Period(timer_dcr') <= now' - timer_start'
        BY ONLY <3>2, <3>3, <3>4, <3>5
      <3> QED
        BY Zenon, <3>1, <3>6 DEF Expired
    <2>4. CASE \E k \in Nat : Counting(k)
      BY Zenon, <1>1, <2>4, CountingTick
    <2> QED
      BY Zenon, <2>1, <2>2, <2>3, <2>4 DEF SteadyInv
  <1>2. ASSUME NEW n \in Counts \cup {0}, WriteTimerIcr(n)
        PROVE  SteadyInv'
    <2>1. CASE n = 0
      BY Zenon, <1>2, <2>1 DEF WriteTimerIcr, Arm, SteadyInv
    <2>2. CASE timer_mode = "TSC_DEADLINE" /\ n # 0
      BY Zenon, <1>2, <2>2 DEF WriteTimerIcr, Arm, SteadyInv
    <2>3. CASE timer_mode # "TSC_DEADLINE" /\ n # 0
      <3>1. /\ timer_icr' = n /\ count' = n /\ phase' = 0 /\ timer_start' = now /\ now' = now
            /\ timer_mode' = timer_mode /\ Period(timer_dcr') = Period(timer_dcr)
        BY Zenon, <1>2, <2>3 DEF WriteTimerIcr, Arm
      <3>2. Period(timer_dcr) \in Nat \ {0} /\ n \in Nat /\ now \in Nat
        BY DivisorIsPeriod, TimerAssumption DEF TimerInv, TimerTypeOK
      <3>3. (0 * n + (n - n)) * Period(timer_dcr) + 0 = now - now
        <4> HIDE DEF Period
        <4> QED
          BY <3>2
      <3>4. n \in 1 .. n /\ 0 \in 0 .. (Period(timer_dcr) - 1)
        <4> HIDE DEF Period
        <4> QED
          BY <2>3, <3>2
      <3>5. Counting(0)'
        BY Zenon, <2>3, <3>1, <3>3, <3>4 DEF Counting
      <3> QED
        BY Zenon, <3>5 DEF SteadyInv
    <2> QED
      BY Zenon, <2>1, <2>2, <2>3
  <1>3. ASSUME UNCHANGED <<now, timer_icr, timer_start>>, NEW ch, NEW dis, Reprogram(ch, dis),
               ~ch => UNCHANGED <<timer_dcr, timer_mode>> /\ ~dis
        PROVE  SteadyInv'
    <2>1. CASE timer_icr = 0 /\ count = 0
      BY Zenon, <1>3, <2>1 DEF Reprogram, SteadyInv
    <2>2. CASE ~ch
      BY Zenon, <1>3, <2>2 DEF Reprogram, SteadyInv, Expired, Counting
    <2>3. CASE ch /\ timer_icr # 0
      BY Zenon, <1>3, <2>3 DEF Reprogram, SteadyInv
    <2>4. timer_icr = 0 /\ steady => count = 0
      <3>1. ASSUME NEW k \in Nat, Counting(k), timer_icr = 0
            PROVE  FALSE
        BY <3>1 DEF Counting
      <3> QED
        BY Zenon, <3>1 DEF SteadyInv, Expired
    <2> QED
      BY Zenon, <1>3, <2>1, <2>2, <2>3, <2>4 DEF Reprogram, SteadyInv
  <1>4. ASSUME NEW d \in Dcrs, WriteTimerDcr(d)
        PROVE  SteadyInv'
    BY Zenon, <1>3, <1>4 DEF WriteTimerDcr
  <1>5. ASSUME NEW m \in Modes, WriteLvtTimer(m)
        PROVE  SteadyInv'
    BY Zenon, <1>3, <1>5 DEF WriteLvtTimer
  <1>6. CASE UNCHANGED timerVars
    BY Zenon, <1>6 DEF timerVars, running, SteadyInv, Expired, Counting
  <1> QED
    BY Zenon, <1>1, <1>2, <1>4, <1>5, <1>6 DEF TimerNext

\* What the code computes for a steady timer is its count.
LEMMA CountExact ==
    ASSUME TimerInv, SteadyInv
    PROVE  CountIsExact
  <1> SUFFICES ASSUME steady PROVE Ccr = count
    BY Zenon DEF CountIsExact
  <1> DEFINE p == Period(timer_dcr)
             i == timer_icr
             t == now - timer_start
  <1>1. /\ now \in Nat /\ timer_start \in Nat /\ t \in Nat /\ i \in Nat
        /\ i = 0 <=> timer_start = 0
    BY TimerAssumption DEF TimerInv, TimerTypeOK
  <1>2. p \in Nat \ {0} /\ divisor(timer_dcr) = p
    BY Zenon, DivisorIsPeriod DEF TimerInv, TimerTypeOK
  <1>3. Ccr = IF i = 0 THEN 0
              ELSE IF timer_mode = "PERIODIC" THEN i - ((t \div p) % i)
              ELSE IF t \div p >= i THEN 0 ELSE i - (t \div p)
    BY Zenon, <1>1, <1>2 DEF Ccr, relm_apic_get_timer_ccr
  <1>4. CASE timer_icr = 0 /\ count = 0
    BY Zenon, <1>3, <1>4
  <1> HIDE DEF p, t
  <1>5. CASE Expired
    <2>1. /\ i # 0 /\ count = 0 /\ timer_mode = "ONESHOT" /\ i * p <= t
      BY Zenon, <1>5 DEF Expired, p, t
    <2>2. PICK a \in Nat : a = t \div p
      BY Z3, <1>1, <1>2
    <2>3. t < p * a + p
      BY Z3, <1>1, <1>2, <2>2
    <2>4. a >= i
      <3> SUFFICES ASSUME a < i PROVE FALSE
        BY <1>1, <2>2
      <3>1. PICK m \in Nat : i = a + 1 + m
        <4>1. i - a - 1 \in Nat /\ i = a + 1 + (i - a - 1)
          BY <1>1, <2>2
        <4> QED
          BY Zenon, <4>1
      <3>2. i * p = p * a + p + m * p /\ m * p \in Nat /\ p * a \in Nat
        BY <1>2, <2>2, <3>1
      <3> QED
        BY <1>1, <1>2, <2>1, <2>3, <3>2
    <2> QED
      BY Zenon, <1>3, <2>1, <2>2, <2>4
  <1>6. ASSUME NEW k \in Nat, Counting(k)
        PROVE  Ccr = count
    <2>1. /\ timer_mode \in Modes /\ timer_mode # "TSC_DEADLINE"
          /\ timer_mode = "ONESHOT" => k = 0
          /\ count \in 1 .. i /\ phase \in 0 .. (p - 1)
          /\ t = (k * i + (i - count)) * p + phase
      BY Zenon, <1>6 DEF Counting, TimerInv, TimerTypeOK, p, t
    <2>2. i \in Nat \ {0} /\ i - count \in 0 .. (i - 1) /\ k * i \in Nat
      BY <1>1, <2>1
    <2>3. PICK q \in Nat : q = k * i + (i - count)
      BY <1>1, <2>1, <2>2
    <2>4. t \div p = q
      <3>1. t = q * p + phase
        BY Zenon, <2>1, <2>3
      <3> QED
        BY ONLY <1>1, <1>2, <2>1, <3>1, DivUnique
    <2>5. q % i = i - count
      <3>1. PICK r \in 0 .. (i - 1) : r = i - count
        BY Zenon, <2>2
      <3>2. q = k * i + r
        BY Zenon, <2>3, <3>1
      <3>3. /\ i \in Nat \ {0} /\ k \in Nat /\ r \in 0 .. (i - 1) /\ q \in Nat /\ q = k * i + r
        BY Zenon, <2>2, <3>2
      <3>4. q \div i = k /\ q % i = r
        BY ONLY <3>3, DivUnique
      <3> QED
        BY Zenon, <3>1, <3>4
    <2>6. i - (i - count) = count
      BY <1>1, <2>1
    <2>7. CASE timer_mode = "PERIODIC"
      BY Zenon, <1>3, <2>2, <2>4, <2>5, <2>6, <2>7
    <2>8. CASE timer_mode = "ONESHOT"
      <3>1. q = i - count /\ ~(q >= i) /\ i - q = count
        BY <1>1, <2>1, <2>3, <2>8
      <3> QED
        BY <1>3, <2>2, <2>4, <2>8, <3>1
    <2> QED
      BY Zenon, <2>1, <2>7, <2>8 DEF Modes
  <1> QED
    BY Zenon, <1>4, <1>5, <1>6 DEF SteadyInv

\* The current count the guest reads, computed from the clock of the host with
\* the divide table of apic.c, is that of a timer that has run since it was
\* armed, for every initial count and every divider, however late it is read,
\* as long as divider and mode stay what they were.
THEOREM CountAlwaysExact == TimerSpec => []CountIsExact
  <1> DEFINE Inv == TimerInv /\ SteadyInv
  <1>1. TimerInit => Inv
    BY Zenon, TimerInitInv DEF TimerInit, SteadyInv
  <1>2. Inv /\ [TimerNext]_timerVars => Inv'
    BY Zenon, TimerNextInv, SteadyNext
  <1>3. Inv => CountIsExact
    BY Zenon, CountExact
  <1> QED
    BY <1>1, <1>2, <1>3, PTL DEF TimerSpec

\* The APICs and the timer keep their types, in the system TLC checks.
THEOREM TypesCorrect == MCSpec => []TypesOK
  <1> DEFINE Inv == IInv /\ TimerInv
  <1>1. MCInit => Inv
    BY Zenon, InitIInv, TimerInitInv DEF MCInit
  <1>2. Inv /\ [MCNext]_<<part, vars, timerVars>> => Inv'
    <2> SUFFICES ASSUME Inv, [MCNext]_<<part, vars, timerVars>> PROVE Inv'
      BY Zenon
    <2>1. [Next]_vars /\ [TimerNext]_timerVars
      BY Zenon DEF MCNext
    <2> QED
      BY Zenon, <2>1, NextIInv, TimerNextInv
  <1>3. Inv => TypesOK
    BY Zenon DEF IInv, TimerInv, TypesOK
  <1> QED
    BY <1>1, <1>2, <1>3, PTL DEF MCSpec

----------------------------------------------------------------------------
(* The copies. *)

\* The end of the page that holds offset o lies within a region of whole pages.
LEMMA PageEnd ==
    ASSUME NEW p \in Nat \ {0}, NEW s \in Nat, NEW o \in Nat, s % p = 0, o < s
    PROVE  p - (o % p) >= 1 /\ o + (p - (o % p)) <= s
  <1> DEFINE q == o \div p
             t == s \div p
             m == o % p
  <1>1. q \in Nat /\ t \in Nat /\ m \in 0 .. p - 1
    OBVIOUS
  <1>2. o = p * q + m /\ s = p * t
    OBVIOUS
  <1> HIDE DEF q, t, m
  <1>3. q < t
    <2>1. CASE q >= t
      <3>1. p * q >= p * t
        BY <1>1, <2>1
      <3>2. p * q \in Nat /\ p * t \in Nat
        BY <1>1
      <3> QED
        BY <1>1, <1>2, <3>1, <3>2
    <2> QED
      BY <1>1, <2>1
  <1>4. p * (q + 1) <= p * t
    BY <1>1, <1>3
  <1>5. p * (q + 1) = p * q + p /\ p * q \in Nat /\ p * t \in Nat
    BY <1>1
  <1>6. p - m >= 1 /\ o + (p - m) <= s
    BY <1>1, <1>2, <1>4, <1>5
  <1> QED
    BY Zenon, <1>6 DEF m

LEMMA LeastOfTwo ==
    ASSUME NEW x \in Int, NEW y \in Int
    PROVE  Least({x, y}) \in {x, y} /\ Least({x, y}) <= x /\ Least({x, y}) <= y
  BY DEF Least

LEMMA LeastOfThree ==
    ASSUME NEW x \in Int, NEW y \in Int, NEW z \in Int
    PROVE  /\ Least({x, y, z}) \in {x, y, z}
           /\ Least({x, y, z}) <= x /\ Least({x, y, z}) <= y /\ Least({x, y, z}) <= z
  BY DEF Least

LEMMA LeastIndex ==
    ASSUME NEW T \in SUBSET Nat, T # {}
    PROVE  \E m \in T : \A n \in T : m <= n
  <1>1. PICK m \in T : \A n \in T : ~ (<<n, m>> \in OpToRel(<, Nat))
    BY Zenon, NatLessThanWellFounded, WFMin
  <1>2. \A n \in T : ~ (n < m)
    BY Zenon, <1>1 DEF OpToRel
  <1> QED
    BY <1>2

\* The regions of a list.
LEMMA MapFacts ==
    ASSUME NEW m \in Maps
    PROVE  /\ DOMAIN m = 1 .. Len(m) /\ Len(m) \in Nat
           /\ \A r \in DOMAIN m : /\ m[r].start \in Nat /\ m[r].start < Span
                                  /\ m[r].size \in Nat /\ m[r].size % PageSize = 0
           /\ \A r, s \in DOMAIN m : r # s =>
                m[r].start + m[r].size <= m[s].start \/ m[s].start + m[s].size <= m[r].start
  <1>1. /\ m \in Seq(Region) /\ Span \in Nat
        /\ \A r, s \in DOMAIN m : r # s =>
             m[r].start + m[r].size <= m[s].start \/ m[s].start + m[s].size <= m[r].start
    BY Zenon, CopyAssumption
  <1>2. DOMAIN m = 1 .. Len(m) /\ Len(m) \in Nat /\ \A r \in DOMAIN m : m[r] \in Region
    BY <1>1
  <1> QED
    BY <1>1, <1>2 DEF Region

----------------------------------------------------------------------------
(* The loop invariant. *)

\* What byte a of guest memory holds after n bytes of the request.
Moved(a, n) ==
    IF op # "from" /\ a \in gpa .. gpa + n - 1
    THEN IF op = "zero" THEN 0 ELSE a - gpa + 1
    ELSE OLD

\* The request.
Request ==
    /\ map \in Maps /\ op \in {"to", "from", "zero"}
    /\ gpa \in 0 .. Span - 1 /\ size \in 0 .. MaxSize

\* The first bytes of the request, "done" of them, are in the regions, and
\* moved; nothing else has changed.
Progress ==
    /\ done \in 0 .. size /\ region \in 0 .. Len(map)
    /\ \A j \in 1 .. done : Backed(gpa + j - 1)
    /\ mem = [r \in DOMAIN map |-> [b \in 0 .. map[r].size - 1 |-> Moved(map[r].start + b, done)]]
    /\ buf = [k \in 1 .. size |-> IF op = "from" /\ k <= done THEN gpa + k - 1 ELSE OLD]

\* The loop ends at the end of the request, at the first hole or in MMIO.
Ends(v) ==
    \/ size = 0 /\ v = EINVAL
    \/ size # 0 /\ done = size /\ v = done
    \/ size # 0 /\ done # size /\ ~Mapped(gpa + done) /\ v = IF done > 0 THEN done ELSE EFAULT
    \/ size # 0 /\ done # size /\ Mapped(gpa + done) /\ ~Backed(gpa + done) /\ v = Oops

Result == ret # Running => Ends(ret)

CopyInv == Request /\ Progress /\ Result

LEMMA LookupFacts ==
    ASSUME Request, region \in 0 .. Len(map), NEW a \in Nat
    PROVE  \/ Lookup(a) = 0 /\ ~Mapped(a)
           \/ Lookup(a) \in DOMAIN map /\ Lookup(a) # 0 /\ Contains(Lookup(a), a)
  <1>1. DOMAIN map = 1 .. Len(map) /\ Len(map) \in Nat
    BY Zenon, MapFacts DEF Request
  <1>2. CASE region # 0 /\ Contains(region, a)
    BY <1>1, <1>2 DEF Lookup
  <1>3. CASE ~(region # 0 /\ Contains(region, a)) /\ Mapped(a)
    <2> DEFINE T == {r \in DOMAIN map : Contains(r, a)}
    <2>1. T \in SUBSET Nat /\ T # {}
      BY <1>1, <1>3 DEF Mapped
    <2>2. PICK m \in T : \A n \in T : m <= n
      BY Zenon, <2>1, LeastIndex
    <2>3. m \in DOMAIN map /\ Contains(m, a) /\ \A s \in 1 .. m - 1 : ~Contains(s, a)
      BY <1>1, <2>2
    <2>4. Lookup(a) = CHOOSE r \in DOMAIN map : Contains(r, a) /\ \A s \in 1 .. r - 1 : ~Contains(s, a)
      BY Zenon, <1>3 DEF Lookup, Mapped
    <2>5. Lookup(a) \in DOMAIN map /\ Contains(Lookup(a), a)
      BY <2>3, <2>4, Zenon
    <2> QED
      BY <1>1, <2>5
  <1>4. CASE ~(region # 0 /\ Contains(region, a)) /\ ~Mapped(a)
    BY Zenon, <1>4 DEF Lookup, Mapped
  <1> QED
    BY Zenon, <1>2, <1>3, <1>4

\* A turn moves at least one byte, and stays in the request and the region.
LEMMA ChunkFacts ==
    ASSUME Request, done \in 0 .. size, done # size,
           NEW r \in DOMAIN map, NEW off \in Nat, off < map[r].size
    PROVE  Chunk(r, off) \in 1 .. size - done /\ off + Chunk(r, off) <= map[r].size
  <1>1. /\ size \in Nat /\ done \in Nat /\ done < size /\ size - done >= 1
        /\ PageSize \in Nat \ {0} /\ map[r].size \in Nat /\ map[r].size % PageSize = 0
    BY MapFacts, CopyAssumption, PageAssumption DEF Request
  <1> DEFINE e == PageSize - (off % PageSize)
             f == size - done
             g == map[r].size - off
  <1>2. e >= 1 /\ off + e <= map[r].size /\ e \in Int
    BY <1>1, PageEnd
  <1>3. f \in Int /\ f >= 1 /\ g \in Int /\ g >= 1 /\ off + g = map[r].size
    BY <1>1
  <1>4. Chunk(r, off) = IF op = "zero" THEN Least({e, f}) ELSE Least({e, f, g})
    <2>1. {e, f} \cup {g} = {e, f, g} /\ {e, f} \cup {} = {e, f}
      BY Zenon
    <2> QED
      BY Zenon, <2>1 DEF Chunk
  <1> HIDE DEF e, f, g
  <1>5. CASE op = "zero"
    <2>1. Least({e, f}) \in {e, f} /\ Least({e, f}) <= e /\ Least({e, f}) <= f
      BY Zenon, <1>2, <1>3, LeastOfTwo
    <2>2. Chunk(r, off) \in 1 .. f /\ off + Chunk(r, off) <= map[r].size
      BY <1>1, <1>2, <1>3, <1>4, <1>5, <2>1
    <2> QED
      BY Zenon, <2>2 DEF f
  <1>6. CASE op # "zero"
    <2>1. Least({e, f, g}) \in {e, f, g} /\ Least({e, f, g}) <= f /\ Least({e, f, g}) <= g
      BY Zenon, <1>2, <1>3, LeastOfThree
    <2>2. Chunk(r, off) \in 1 .. f /\ off + Chunk(r, off) <= map[r].size
      BY <1>1, <1>2, <1>3, <1>4, <1>6, <2>1
    <2> QED
      BY Zenon, <2>2 DEF f
  <1> QED
    BY Zenon, <1>5, <1>6

----------------------------------------------------------------------------
(* Every step keeps the invariant. *)

LEMMA CopyStart == CopyInit => CopyInv
  <1> SUFFICES ASSUME CopyInit PROVE CopyInv
    BY Zenon
  <1>1. Request
    BY Zenon DEF CopyInit, Request
  <1>2. DOMAIN map = 1 .. Len(map) /\ Len(map) \in Nat /\ \A r \in DOMAIN map : map[r].start \in Nat
    BY Zenon, <1>1, MapFacts DEF Request
  <1>3. \A r \in DOMAIN map : \A b \in 0 .. map[r].size - 1 : Moved(map[r].start + b, 0) = OLD
    BY <1>1, <1>2 DEF Moved, Request
  <1>4. mem = [r \in DOMAIN map |-> [b \in 0 .. map[r].size - 1 |-> Moved(map[r].start + b, done)]]
    BY Zenon, <1>3 DEF CopyInit, Pages
  <1>5. buf = [k \in 1 .. size |-> IF op = "from" /\ k <= done THEN gpa + k - 1 ELSE OLD]
    BY <1>1 DEF CopyInit, Request
  <1> QED
    BY <1>1, <1>2, <1>4, <1>5 DEF CopyInit, CopyInv, Progress, Result, Request

\* The memory after a turn that moves the n bytes from done on to region r.
LEMMA MemoryStep ==
    ASSUME Request, Progress, NEW r \in DOMAIN map, NEW off \in Nat, NEW n \in Nat \ {0},
           gpa + done = map[r].start + off, off + n <= map[r].size,
           done' = done + n, op # "from",
           UNCHANGED <<map, op, gpa>>,
           mem' = [mem EXCEPT ![r] = [b \in DOMAIN @ |->
                      IF b \in off .. off + n - 1
                      THEN IF op = "zero" THEN 0 ELSE done + (b - off) + 1
                      ELSE @[b]]]
    PROVE  mem' = [s \in DOMAIN map |->
                     [b \in 0 .. map[s].size - 1 |-> Moved(map[s].start + b, done + n)]]
  <1>1. /\ done \in Nat /\ gpa \in Nat
        /\ mem = [s \in DOMAIN map |-> [b \in 0 .. map[s].size - 1 |-> Moved(map[s].start + b, done)]]
    BY CopyAssumption DEF Request, Progress
  <1>2. /\ \A s \in DOMAIN map : map[s].start \in Nat /\ map[s].size \in Nat
        /\ \A s \in DOMAIN map : s # r =>
             map[r].start + map[r].size <= map[s].start \/ map[s].start + map[s].size <= map[r].start
    BY Zenon, MapFacts DEF Request
  <1>3. ASSUME NEW b \in 0 .. map[r].size - 1
        PROVE  (IF b \in off .. off + n - 1
                THEN IF op = "zero" THEN 0 ELSE done + (b - off) + 1
                ELSE Moved(map[r].start + b, done)) = Moved(map[r].start + b, done + n)
    <2> DEFINE st == map[r].start
               sz == map[r].size
    <2>1. st \in Nat /\ sz \in Nat /\ gpa + done = st + off /\ off + n <= sz /\ b \in Nat
      BY <1>2
    <2> HIDE DEF st, sz
    <2>2. st + b \in gpa .. gpa + (done + n) - 1
            <=> st + b \in gpa .. gpa + done - 1 \/ b \in off .. off + n - 1
      BY <1>1, <2>1
    <2>3. b \in off .. off + n - 1 => done + (b - off) + 1 = (st + b) - gpa + 1
      BY <1>1, <2>1
    <2> QED
      BY Zenon, <2>2, <2>3 DEF Moved, st
  <1>4. ASSUME NEW s \in DOMAIN map, s # r, NEW b \in 0 .. map[s].size - 1
        PROVE  Moved(map[s].start + b, done) = Moved(map[s].start + b, done + n)
    <2> DEFINE st == map[r].start
               sz == map[r].size
               su == map[s].start
               sv == map[s].size
    <2>1. /\ st \in Nat /\ sz \in Nat /\ gpa + done = st + off /\ off + n <= sz
          /\ su \in Nat /\ sv \in Nat /\ b \in Nat /\ b < sv
          /\ st + sz <= su \/ su + sv <= st
      BY <1>2, <1>4
    <2> HIDE DEF st, sz, su, sv
    <2>2. su + b < st + off \/ su + b >= st + off + n
      BY <2>1
    <2>3. su + b \in gpa .. gpa + (done + n) - 1 <=> su + b \in gpa .. gpa + done - 1
      BY <1>1, <2>1, <2>2
    <2> QED
      BY Zenon, <2>3 DEF Moved, su
  <1>5. DOMAIN mem' = DOMAIN map /\ \A s \in DOMAIN map : s # r => mem'[s] = mem[s]
    BY Zenon, <1>1
  <1>6. mem[r] = [b \in 0 .. map[r].size - 1 |-> Moved(map[r].start + b, done)]
    BY Zenon, <1>1
  <1>7. mem'[r] = [b \in DOMAIN mem[r] |->
                     IF b \in off .. off + n - 1
                     THEN IF op = "zero" THEN 0 ELSE done + (b - off) + 1
                     ELSE mem[r][b]]
    BY Zenon, <1>1
  <1>8. mem'[r] = [b \in 0 .. map[r].size - 1 |-> Moved(map[r].start + b, done + n)]
    <2>1. DOMAIN mem[r] = 0 .. map[r].size - 1
      BY Zenon, <1>6
    <2>2. \A b \in 0 .. map[r].size - 1 : mem[r][b] = Moved(map[r].start + b, done)
      BY Zenon, <1>6
    <2>3. ASSUME NEW b \in 0 .. map[r].size - 1
          PROVE  mem'[r][b] = Moved(map[r].start + b, done + n)
      BY Zenon, <1>3, <1>7, <2>1, <2>2
    <2>4. mem'[r] = [b \in 0 .. map[r].size - 1 |-> mem'[r][b]]
      BY Zenon, <1>7, <2>1
    <2> QED
      BY Zenon, <2>3, <2>4
  <1>9. ASSUME NEW s \in DOMAIN map, s # r
        PROVE  mem'[s] = [b \in 0 .. map[s].size - 1 |-> Moved(map[s].start + b, done + n)]
    BY Zenon, <1>1, <1>4, <1>5, <1>9
  <1>10. mem' = [s \in DOMAIN map |-> mem'[s]]
    BY Zenon, <1>1
  <1> QED
    BY Zenon, <1>8, <1>9, <1>10

\* A region without pages is the only one at its addresses.
LEMMA NotBacked ==
    ASSUME Request, NEW a \in Nat, NEW r \in DOMAIN map, Contains(r, a), ~map[r].pages
    PROVE  Mapped(a) /\ ~Backed(a)
  <1>1. Mapped(a)
    BY Zenon DEF Mapped
  <1>2. ASSUME NEW s \in DOMAIN map, Contains(s, a), map[s].pages PROVE FALSE
    <2> DEFINE ra == map[r].start
               rz == map[r].size
               sa == map[s].start
               sz == map[s].size
    <2>1. r # s
      BY Zenon, <1>2
    <2>2. ra \in Nat /\ rz \in Nat /\ sa \in Nat /\ sz \in Nat
          /\ (ra + rz <= sa \/ sa + sz <= ra)
      BY Zenon, <2>1, MapFacts DEF Request
    <2>3. a \in ra .. ra + rz - 1 /\ a \in sa .. sa + sz - 1
      BY Zenon, <1>2 DEF Contains
    <2> HIDE DEF ra, rz, sa, sz
    <2> QED
      BY ONLY <2>2, <2>3, a \in Nat
  <1> QED
    BY Zenon, <1>1, <1>2 DEF Backed

\* A step returns, or is a turn.
LEMMA ReturnStep ==
    ASSUME CopyInv, ret = Running, NEW v, Return(v), Ends(v)
    PROVE  CopyInv'
  <1>1. UNCHANGED <<map, op, gpa, size, done, region, mem, buf>> /\ ret' = v
    BY Zenon DEF Return
  <1>2. Request'
    BY Zenon, <1>1 DEF CopyInv, Request
  <1>3. (Mapped(gpa + done)' <=> Mapped(gpa + done)) /\ (Backed(gpa + done)' <=> Backed(gpa + done))
    BY Zenon, <1>1 DEF Mapped, Backed, Contains
  <1>4. Progress'
    BY Zenon, <1>1 DEF CopyInv, Progress, Backed, Contains, Moved
  <1>5. Result'
    BY Zenon, <1>1, <1>3 DEF Result, Ends
  <1> QED
    BY Zenon, <1>2, <1>4, <1>5 DEF CopyInv

LEMMA TurnStep ==
    ASSUME CopyInv, ret = Running, NEW r \in DOMAIN map, map[r].pages,
           NEW off \in Nat, off < map[r].size, gpa + done = map[r].start + off,
           NEW n \in Nat, n >= 1, n <= size - done, off + n <= map[r].size,
           CopyTurn(r, off, n)
    PROVE  CopyInv'
  <1>0. /\ region' = r /\ done' = done + n /\ UNCHANGED <<map, op, gpa, size, ret>>
    BY Zenon DEF CopyTurn
  <1>a. Request /\ Progress /\ done \in 0 .. size /\ region \in 0 .. Len(map)
    BY Zenon DEF CopyInv, Progress
  <1>b. gpa \in Nat /\ size \in Nat
    BY <1>a, CopyAssumption DEF Request
  <1>1. /\ Request /\ Progress /\ done \in 0 .. size /\ gpa \in Nat /\ size \in Nat /\ done \in Nat
        /\ region \in 0 .. Len(map)
    BY <1>a, <1>b
  <1> DEFINE st == map[r].start
             sz == map[r].size
  <1>2. /\ st \in Nat /\ sz \in Nat
        /\ DOMAIN map = 1 .. Len(map) /\ Len(map) \in Nat
    BY Zenon, <1>1, MapFacts DEF Request
  <1>3. gpa + done = st + off /\ off + n <= sz
    BY Zenon
  <1> HIDE DEF st, sz
  <1>5. Request'
    BY Zenon, <1>0, <1>1 DEF Request
  <1>6. done' \in 0 .. size' /\ region' \in 0 .. Len(map)' /\ n \in Nat \ {0}
    BY SMTT(30), <1>0, <1>1, <1>2
  <1>7. \A j \in 1 .. done' : Backed(gpa + j - 1)'
    <2> SUFFICES ASSUME NEW j \in 1 .. done + n PROVE Backed(gpa + j - 1)'
      BY Zenon, <1>0
    <2>1. Backed(gpa + j - 1)
      <3>1. CASE j \in 1 .. done
        BY Zenon, <1>1, <3>1 DEF Progress
      <3>2. CASE j > done
        <4>0. gpa \in Nat /\ done \in Nat /\ st \in Nat /\ sz \in Nat
          BY Zenon, <1>1, <1>2
        <4>2. j \in Nat /\ j <= done + n /\ off \in Nat /\ n \in Nat
          BY <4>0
        <4>1. gpa + j - 1 \in st .. st + sz - 1
          BY ONLY <1>3, <3>2, <4>0, <4>2
        <4> QED
          BY Zenon, <4>1 DEF Backed, Contains, st, sz
      <3> QED
        BY <1>1, <1>6, <3>1, <3>2
    <2> QED
      BY Zenon, <1>0, <2>1 DEF Backed, Contains
  <1>8. mem' = [s \in DOMAIN map |->
                  [b \in 0 .. map[s].size - 1 |-> Moved(map[s].start + b, done + n)]]
    <2>1. CASE op # "from"
      BY Zenon, <1>1, <1>6, <2>1, MemoryStep DEF CopyTurn
    <2>2. CASE op = "from"
      BY Zenon, <1>1, <2>2 DEF Progress, Moved, CopyTurn
    <2> QED
      BY Zenon, <2>1, <2>2
  <1>9. (mem = [s \in DOMAIN map |->
                  [b \in 0 .. map[s].size - 1 |-> Moved(map[s].start + b, done)]])'
    BY Zenon, <1>0, <1>8 DEF Moved
  <1>10. buf' = [k \in 1 .. size |-> IF op = "from" /\ k <= done + n THEN gpa + k - 1 ELSE OLD]
    <2>1. buf = [k \in 1 .. size |-> IF op = "from" /\ k <= done THEN gpa + k - 1 ELSE OLD]
      BY Zenon, <1>1 DEF Progress
    <2>2. CASE op = "from"
      <3>1. ASSUME NEW k \in 1 .. size
            PROVE  (IF k \in done + 1 .. done + n THEN st + off + (k - done - 1)
                    ELSE IF k <= done THEN gpa + k - 1 ELSE OLD)
                   = (IF k <= done + n THEN gpa + k - 1 ELSE OLD)
        <4>1. k \in Nat /\ (k \in done + 1 .. done + n <=> k > done /\ k <= done + n)
          BY <1>1, <1>6
        <4>2. st + off + (k - done - 1) = gpa + k - 1
          BY <1>1, <1>2, <1>3, <4>1
        <4>3. k <= done => k <= done + n
          BY <1>1, <1>6, <4>1
        <4> QED
          BY <1>1, <1>6, <4>1, <4>2, <4>3
      <3> QED
        BY Zenon, <2>1, <2>2, <3>1 DEF CopyTurn, st
    <2>3. CASE op # "from"
      BY Zenon, <2>1, <2>3 DEF CopyTurn
    <2> QED
      BY Zenon, <2>2, <2>3
  <1>11. Progress'
    BY Zenon, <1>0, <1>6, <1>7, <1>9, <1>10 DEF Progress
  <1>12. Result'
    BY Zenon, <1>0 DEF Result
  <1> QED
    BY Zenon, <1>5, <1>11, <1>12 DEF CopyInv

LEMMA CopyInvKept == CopyInv /\ [CopyStep]_copyVars => CopyInv'
  <1> SUFFICES ASSUME CopyInv, [CopyStep]_copyVars PROVE CopyInv'
    BY Zenon
  <1>1. CASE UNCHANGED copyVars
    <2>1. UNCHANGED <<map, op, gpa, size, done, region, mem, buf, ret>>
      BY Zenon, <1>1 DEF copyVars
    <2>2. Request' /\ (Mapped(gpa + done)' <=> Mapped(gpa + done))
          /\ (Backed(gpa + done)' <=> Backed(gpa + done))
      BY Zenon, <2>1 DEF CopyInv, Request, Mapped, Backed, Contains
    <2>3. Progress'
      BY Zenon, <2>1 DEF CopyInv, Progress, Backed, Contains, Moved
    <2>4. Result'
      BY Zenon, <2>1, <2>2 DEF CopyInv, Result, Ends
    <2> QED
      BY Zenon, <2>2, <2>3, <2>4 DEF CopyInv
  <1>2. CASE CopyStep
    <2> DEFINE r == Lookup(gpa + done)
               off == (gpa + done) - map[r].start
               n == Chunk(r, off)
    <2>1. ret = Running
      BY Zenon, <1>2 DEF CopyStep
    <2>2. gpa + done \in Nat /\ Request /\ region \in 0 .. Len(map)
      BY CopyAssumption DEF CopyInv, Request, Progress
    <2>3. \/ r = 0 /\ ~Mapped(gpa + done)
          \/ r \in DOMAIN map /\ r # 0 /\ Contains(r, gpa + done)
      BY Zenon, <2>2, LookupFacts
    <2>4. CASE size = 0
      BY Zenon, <1>2, <2>1, <2>4, ReturnStep DEF CopyStep, Ends
    <2>5. CASE size # 0 /\ done = size
      BY Zenon, <1>2, <2>1, <2>5, ReturnStep DEF CopyStep, Ends
    <2>6. CASE size # 0 /\ done # size /\ r = 0
      <3>1. Return(IF done > 0 THEN done ELSE EFAULT)
        BY Zenon, <1>2, <2>6 DEF CopyStep
      <3> QED
        BY Zenon, <2>1, <2>3, <2>6, <3>1, ReturnStep DEF Ends
    <2>7. CASE size # 0 /\ done # size /\ r # 0 /\ ~map[r].pages
      <3>1. Return(Oops)
        BY Zenon, <1>2, <2>7 DEF CopyStep
      <3>2. Mapped(gpa + done) /\ ~Backed(gpa + done)
        BY Zenon, <2>2, <2>3, <2>7, NotBacked
      <3> QED
        BY Zenon, <2>1, <2>7, <3>1, <3>2, ReturnStep DEF Ends
    <2>8. CASE size # 0 /\ done # size /\ r # 0 /\ map[r].pages
      <3>1. CopyTurn(r, off, n)
        BY Zenon, <1>2, <2>8 DEF CopyStep
      <3>2. r \in DOMAIN map /\ map[r].start \in Nat /\ map[r].size \in Nat
        BY Zenon, <2>2, <2>3, <2>8, MapFacts DEF Request
      <3>3. off \in Nat /\ off < map[r].size /\ gpa + done = map[r].start + off
        <4> HIDE DEF r
        <4>1. gpa + done \in map[r].start .. map[r].start + map[r].size - 1
          BY Zenon, <2>3, <2>8 DEF Contains
        <4>2. PICK st, sz : st = map[r].start /\ sz = map[r].size
          BY Zenon
        <4>3. PICK a : a = gpa + done
          BY Zenon
        <4>4. a - st \in Nat /\ a - st < sz /\ a = st + (a - st)
          BY SMTT(30), <2>2, <3>2, <4>1, <4>2, <4>3
        <4> QED
          BY Zenon, <4>2, <4>3, <4>4
      <3>4. n \in 1 .. size - done /\ off + n <= map[r].size
        BY Zenon, <2>2, <2>8, <3>2, <3>3, ChunkFacts DEF CopyInv, Progress
      <3> HIDE DEF r, off, n
      <3>5. n \in Nat /\ n >= 1 /\ n <= size - done
        BY <3>4 DEF CopyInv, Request, Progress
      <3> QED
        BY Zenon, <2>1, <2>8, <3>1, <3>2, <3>3, <3>4, <3>5, TurnStep DEF r
    <2> QED
      BY Zenon, <2>4, <2>5, <2>6, <2>7, <2>8
  <1> QED
    BY Zenon, <1>1, <1>2

LEMMA CopyHolds == CopySpec => []CopyInv
  BY CopyStart, CopyInvKept, PTL DEF CopySpec

\* At the end the bytes that were moved are those before the first
\* address that is not RAM.
LEMMA PrefixMoved ==
    ASSUME CopyInv, ret # Running
    PROVE  Prefix = done
  <1>1. /\ gpa \in Nat /\ size \in Nat /\ done \in 0 .. size
        /\ \A j \in 1 .. done : Backed(gpa + j - 1)
        /\ size = 0 \/ done = size \/ ~Backed(gpa + done)
    <2>1. gpa \in Nat /\ size \in Nat /\ done \in 0 .. size
      BY CopyAssumption DEF CopyInv, Request, Progress
    <2>2. ~Mapped(gpa + done) => ~Backed(gpa + done)
      BY Zenon DEF Mapped, Backed
    <2> QED
      BY Zenon, <2>1, <2>2 DEF CopyInv, Progress, Result, Ends
  <1>2. {k \in 1 .. size : \A j \in 1 .. k : Backed(gpa + j - 1)} = 1 .. done
    <2>1. ASSUME NEW k \in 1 .. size, k > done PROVE \E j \in 1 .. k : ~Backed(gpa + j - 1)
      <3>1. done + 1 \in 1 .. k /\ gpa + (done + 1) - 1 = gpa + done /\ size # 0 /\ done # size
        BY <1>1, <2>1
      <3> QED
        BY Zenon, <1>1, <3>1
    <2>2. \A k \in 1 .. done : k \in 1 .. size /\ \A j \in 1 .. k : j \in 1 .. done
      BY <1>1
    <2>3. \A k \in 1 .. size : k > done \/ k \in 1 .. done
      BY <1>1
    <2> QED
      BY Zenon, <1>1, <2>1, <2>2, <2>3
  <1>3. Cardinality(1 .. done) = done
    <2>1. 1 \in Int /\ done \in Int /\ (1 > done => done = 0) /\ done - 1 + 1 = done
      BY <1>1
    <2> QED
      BY Zenon, <2>1, FS_Interval
  <1> QED
    BY Zenon, <1>2, <1>3 DEF Prefix

\* The functions of vm.c that copy to, copy from and zero guest memory move
\* exactly the bytes before the first address that is not RAM, and return
\* their number or die there in MMIO, for every list of regions and every request.
THEOREM CopiesExactly == CopySpec => []ExactlyThePrefix
  <1>1. ASSUME CopyInv, ret # Running PROVE ExactlyThePrefix
    <2>1. Prefix = done
      BY Zenon, <1>1, PrefixMoved
    <2>2. size \in Nat /\ done \in 0 .. size /\ gpa \in Nat
      BY <1>1, CopyAssumption DEF CopyInv, Request, Progress
    <2>3. ret = IF size = 0 THEN EINVAL ELSE IF done = size THEN size
                ELSE IF Mapped(gpa + done) THEN Oops ELSE IF done = 0 THEN EFAULT ELSE done
      <3>1. Ends(ret)
        BY Zenon, <1>1 DEF CopyInv, Result
      <3>2. done > 0 <=> done # 0
        BY <2>2
      <3> QED
        BY Zenon, <3>1, <3>2 DEF Ends
    <2>4. ASSUME NEW a \in 0 .. Span - 1, Mapped(a) PROVE ByteAt(a) = Moved(a, done)
      <3> DEFINE r == CHOOSE s \in DOMAIN map : Contains(s, a)
      <3>1. r \in DOMAIN map /\ Contains(r, a)
        BY Zenon, <2>4 DEF Mapped
      <3>2. map[r].start \in Nat /\ map[r].size \in Nat
        BY Zenon, <1>1, <3>1, MapFacts DEF CopyInv, Request
      <3>3. a - map[r].start \in 0 .. map[r].size - 1 /\ map[r].start + (a - map[r].start) = a
        BY <3>1, <3>2 DEF Contains
      <3>4. mem[r][a - map[r].start] = Moved(map[r].start + (a - map[r].start), done)
        BY Zenon, <1>1, <3>1, <3>3 DEF CopyInv, Progress
      <3> QED
        BY Zenon, <3>3, <3>4 DEF ByteAt
    <2>5. \A k \in 1 .. size : buf[k] = IF op = "from" /\ k <= done THEN gpa + k - 1 ELSE OLD
      BY Zenon, <1>1 DEF CopyInv, Progress
    <2> QED
      BY Zenon, <2>1, <2>3, <2>4, <2>5 DEF ExactlyThePrefix, Moved
  <1>2. CopyInv => ExactlyThePrefix
    BY Zenon, <1>1 DEF ExactlyThePrefix
  <1> QED
    BY <1>2, CopyHolds, PTL
=============================================================================
