-------------------------------- MODULE Apic --------------------------------
(***************************************************************************)
(* The virtual local APICs of a VM (apic.c): interrupts made pending, IPIs *)
(* through the ICR, task priority, and the copy of the registers in the    *)
(* virtual-APIC page that the processor reads without an exit.             *)
(*                                                                         *)
(* A handler is one action: the only state that another CPU changes is the *)
(* pending state, under apic->lock.  Registers that are only stored and    *)
(* mirrored (DFR, SVR, the LVT entries) are left out; ID, LDR and ICR_HIGH *)
(* stand for them.  A destination is a number, an APIC ID or a bit mask.   *)
(***************************************************************************)
EXTENDS Integers, FiniteSets

CONSTANTS
    Vcpus,      \* vCPUs of the VM: their initial APIC IDs
    Vectors,    \* interrupt vectors
    Dests,      \* values of the destination field of ICR_HIGH
    Ldrs,       \* logical IDs the guest writes
    Tprs        \* task priorities the guest writes

ASSUME ApicAssumption ==
    /\ Vcpus \subseteq Dests /\ 0 \in Dests /\ Dests \subseteq 0 .. 3 /\ Ldrs \subseteq 0 .. 3
    /\ Tprs \subseteq Nat

VARIABLES
    tpr_shadow,  \* the processor keeps TPR in the page, writes do not exit
    reg,     \* [id, ldr, dest] of each APIC: ID, LDR and ICR_HIGH
    irr, isr, tmr,  \* vectors pending, in service, and level triggered
    tpr, ppr,       \* the cached task and processor priority
    page,    \* the virtual-APIC page: irr, tmr, tpr and ppr as the guest reads them
    run,     \* "guest" or "exit": whether the vCPU is in guest code
    halted,  \* vcpu->halted
    last,    \* how the last exit ended: "emulated", "failed", "stopped"
    told,    \* history: the ID, LDR and destination each guest last wrote
    owed     \* history: what reached each vCPU, by what was sent and to whom

vars == <<tpr_shadow, reg, irr, isr, tmr, tpr, ppr, page, run, halted, last, told, owed>>

Priorities == Tprs \cup {0}
Class(n) == (n \div 16) * 16
Classes == {Class(n) : n \in Priorities \cup Vectors}

\* Type invariant. Registers, priorities and pages of the APICs.
TypeOK ==
    /\ tpr_shadow \in BOOLEAN
    /\ reg \in [Vcpus -> [id : Dests, ldr : Ldrs \cup {0}, dest : Dests]]
    /\ {irr, isr, tmr} \subseteq [Vcpus -> SUBSET Vectors]
    /\ tpr \in [Vcpus -> Priorities] /\ ppr \in [Vcpus -> Classes]
    /\ page \in [Vcpus -> [irr : SUBSET Vectors, tmr : SUBSET Vectors,
                           tpr : Priorities, ppr : Classes]]
    /\ run \in [Vcpus -> {"guest", "exit"}]
    /\ halted \in [Vcpus -> BOOLEAN]
    /\ last \in [Vcpus -> {"emulated", "failed", "stopped"}]
    /\ told \in [Vcpus -> [id : Dests, ldr : Ldrs \cup {0}, dest : Dests]]
    /\ owed \in [Vcpus -> [pending : SUBSET Vectors, level : SUBSET Vectors, asleep : BOOLEAN]]

\* relm_apic_init, in the model and in the page.
Init ==
    /\ tpr_shadow \in BOOLEAN
    /\ reg = [v \in Vcpus |-> [id |-> v, ldr |-> 0, dest |-> 0]]
    /\ irr = [v \in Vcpus |-> {}] /\ isr = irr /\ tmr = irr
    /\ tpr = [v \in Vcpus |-> 0] /\ ppr = tpr
    /\ page = [v \in Vcpus |-> [irr |-> {}, tmr |-> {}, tpr |-> 0, ppr |-> 0]]
    /\ run = [v \in Vcpus |-> "exit"] /\ halted = [v \in Vcpus |-> FALSE]
    /\ last = [v \in Vcpus |-> "emulated"]
    /\ told = [v \in Vcpus |-> [id |-> v, ldr |-> 0, dest |-> 0]]
    /\ owed = [v \in Vcpus |-> [pending |-> {}, level |-> {}, asleep |-> FALSE]]

----------------------------------------------------------------------------
(* Whom an interrupt is for, by what the guests wrote: the histories. *)

HasBit(n, b) == (n \div 2^b) % 2 = 1

\* Vcpu s means t when it writes ICR_LOW: by a shorthand, or by the destination
\* it wrote last, which is the ID t wrote last or has a bit of its logical ID.
Means(s, t, shorthand, logical) ==
    \/ shorthand = "SELF" /\ t = s
    \/ shorthand = "ALL_INCL"
    \/ shorthand = "ALL_EXCL" /\ t # s
    \/ shorthand = "NONE" /\ ~logical /\ told[t].id = told[s].dest
    \/ shorthand = "NONE" /\ logical
         /\ \E b \in {0, 1} : HasBit(told[t].ldr, b) /\ HasBit(told[s].dest, b)

\* The vCPUs of ts are owed vector x, edge or level, and wake up.
Owe(ts, x, level) ==
    owed' = [t \in Vcpus |->
               IF t \notin ts THEN owed[t]
               ELSE [pending |-> owed[t].pending \cup {x},
                     level |-> {y \in owed[t].level : y # x} \cup (IF level THEN {x} ELSE {}),
                     asleep |-> FALSE]]

----------------------------------------------------------------------------
(* Making vectors pending. *)

Pend(ts, x, level, bits) ==
    [t \in Vcpus |-> IF t \notin ts THEN bits[t]
                     ELSE IF level THEN bits[t] \cup {x} ELSE bits[t] \ {x}]

\* Mutant: TMR is not copied to the virtual-APIC page.
relm_apic_inject_interrupt_Mut(ts, x, level) ==
    /\ irr' = Pend(ts, x, TRUE, irr)
    /\ tmr' = Pend(ts, x, level, tmr)
    /\ page' = [t \in Vcpus |-> [page[t] EXCEPT !.irr = irr'[t]]]
    /\ halted' = [t \in Vcpus |-> halted[t] /\ t \notin ts]

\* For every APIC of ts: the vector goes to IRR, its trigger mode to TMR, both
\* to the page, and a halted vCPU is woken.
relm_apic_inject_interrupt(ts, x, level) ==
    /\ irr' = Pend(ts, x, TRUE, irr)
    /\ tmr' = Pend(ts, x, level, tmr)
    /\ page' = [t \in Vcpus |-> [page[t] EXCEPT !.irr = irr'[t], !.tmr = tmr'[t]]]
    /\ halted' = [t \in Vcpus |-> halted[t] /\ t \notin ts]

\* vmx_inject_irq, for a device that completed a request.
vmx_inject_irq(v, x) ==
    /\ relm_apic_inject_interrupt({v}, x, FALSE)
    /\ Owe({v}, x, FALSE)
    /\ UNCHANGED <<reg, isr, tpr, ppr, run, last, told>>

Bit(n) == IF n = 0 THEN {} ELSE IF n = 3 THEN {1, 2} ELSE {n}

\* Mutant: "all excluding self" includes the sender.
Targets_Mut(s, shorthand, logical) ==
    CASE shorthand = "SELF" -> {s}
      [] shorthand \in {"ALL_INCL", "ALL_EXCL"} -> Vcpus
      [] OTHER -> {t \in Vcpus : IF logical
                                 THEN Bit(reg[t].ldr) \cap Bit(reg[s].dest) # {}
                                 ELSE reg[t].id = reg[s].dest}

\* relm_apic_ipi_resolve_targets.
Targets(s, shorthand, logical) ==
    CASE shorthand = "SELF" -> {s}
      [] shorthand = "ALL_INCL" -> Vcpus
      [] shorthand = "ALL_EXCL" -> Vcpus \ {s}
      [] OTHER -> {t \in Vcpus : IF logical
                                 THEN Bit(reg[t].ldr) \cap Bit(reg[s].dest) # {}
                                 ELSE reg[t].id = reg[s].dest}

----------------------------------------------------------------------------
(* Exits. *)

\* relm_apic_handle_access went through: RIP moves on, the guest resumes.
Exit(v) == run[v] = "guest" /\ run' = [run EXCEPT ![v] = "exit"]
Emulated(v) == Exit(v) /\ last' = [last EXCEPT ![v] = "emulated"]

\* Mutant: ICR_HIGH keeps the destination of an earlier IPI.
WriteReg_Mut(v, field, x) ==
    /\ Emulated(v)
    /\ reg' = IF field = "dest" THEN reg ELSE [reg EXCEPT ![v] = [@ EXCEPT ![field] = x]]
    /\ told' = [told EXCEPT ![v] = [@ EXCEPT ![field] = x]]
    /\ UNCHANGED <<irr, isr, tmr, tpr, ppr, page, halted, owed>>

WriteReg(v, field, x) ==
    /\ Emulated(v)
    /\ reg' = [reg EXCEPT ![v] = [@ EXCEPT ![field] = x]]
    /\ told' = [told EXCEPT ![v] = [@ EXCEPT ![field] = x]]
    /\ UNCHANGED <<irr, isr, tmr, tpr, ppr, page, halted, owed>>

\* ICR_LOW.  Only fixed delivery does anything.
relm_apic_handle_icr_write(v, shorthand, logical, x, level) ==
    /\ Emulated(v)
    /\ relm_apic_inject_interrupt(Targets(v, shorthand, logical), x, level)
    /\ Owe({t \in Vcpus : Means(v, t, shorthand, logical)}, x, level)
    /\ UNCHANGED <<reg, isr, tpr, ppr, told>>

Highest(s) == CHOOSE x \in s : \A y \in s : y <= x

\* Mutant: the class is not shifted back.
relm_apic_ppr_update_Mut(p, s) ==
    IF s = {} \/ Class(Highest(s)) <= Class(p) THEN p ELSE Class(Highest(s))

\* The priority of APIC v with task priority p and the vectors s in service.
relm_apic_ppr_update(p, s) ==
    IF s = {} \/ Class(Highest(s)) <= Class(p) THEN Class(p) ELSE Class(Highest(s))

SetPpr(v, p, s) ==
    /\ ppr' = [ppr EXCEPT ![v] = relm_apic_ppr_update(p, s)]
    /\ page' = [page EXCEPT ![v].ppr = ppr'[v], ![v].tpr = IF tpr_shadow THEN @ ELSE p]

WriteTpr(v, p) ==
    /\ ~tpr_shadow /\ Emulated(v)
    /\ tpr' = [tpr EXCEPT ![v] = p]
    /\ SetPpr(v, p, isr[v])
    /\ UNCHANGED <<reg, irr, isr, tmr, halted, told, owed>>

\* The processor writes the page, no exit.
ShadowTpr(v, p) ==
    /\ tpr_shadow /\ run[v] = "guest"
    /\ page' = [page EXCEPT ![v].tpr = p]
    /\ UNCHANGED <<reg, irr, isr, tmr, tpr, ppr, run, halted, last, told, owed>>

\* Reads fetch TPR from the page, and recompute PPR from the cached TPR.
ReadTpr(v) ==
    /\ Emulated(v)
    /\ tpr' = [tpr EXCEPT ![v] = page[v].tpr]
    /\ UNCHANGED <<reg, irr, isr, tmr, ppr, page, halted, told, owed>>

ReadPpr(v) ==
    /\ Emulated(v)
    /\ SetPpr(v, tpr[v], isr[v])
    /\ UNCHANGED <<reg, irr, isr, tmr, tpr, halted, told, owed>>

\* Nothing puts a vector in service, so the first case is all there is.
relm_apic_eoi(v) ==
    /\ Emulated(v)
    /\ IF isr[v] = {}
       THEN UNCHANGED <<isr, tmr, ppr, page>>
       ELSE LET x == Highest(isr[v])
            IN  /\ isr' = [isr EXCEPT ![v] = @ \ {x}]
                /\ tmr' = [tmr EXCEPT ![v] = @ \ {x}]
                /\ ppr' = [ppr EXCEPT ![v] = relm_apic_ppr_update(tpr[v], isr'[v])]
                /\ page' = [page EXCEPT ![v].tmr = tmr'[v], ![v].ppr = ppr'[v]]
    /\ UNCHANGED <<reg, irr, tpr, halted, told, owed>>

\* An access that cannot be fetched, decoded or matched with what VMX reports:
\* a negative value is returned and RIP stays.
FailedAccess(v) ==
    /\ Exit(v) /\ last' = [last EXCEPT ![v] = "failed"]
    /\ UNCHANGED <<reg, irr, isr, tmr, tpr, ppr, page, halted, told, owed>>

\* An instruction fetch from the APIC page stops the vCPU.
FetchAccess(v) ==
    /\ Exit(v) /\ last' = [last EXCEPT ![v] = "stopped"]
    /\ UNCHANGED <<reg, irr, isr, tmr, tpr, ppr, page, halted, told, owed>>

Hlt(v) ==
    /\ Emulated(v)
    /\ halted' = [halted EXCEPT ![v] = TRUE]
    /\ owed' = [owed EXCEPT ![v].asleep = TRUE]
    /\ UNCHANGED <<reg, irr, isr, tmr, tpr, ppr, page, told>>

\* The run loop and the exit stub resume whatever is not stopped or halted; no
\* interrupt is put in the entry-information field.
VmEntry(v) ==
    /\ run[v] = "exit" /\ ~halted[v] /\ last[v] # "stopped"
    /\ run' = [run EXCEPT ![v] = "guest"]
    /\ UNCHANGED <<reg, irr, isr, tmr, tpr, ppr, page, halted, last, told, owed>>

Step(v) ==
    \/ \E x \in Dests : WriteReg(v, "id", x) \/ WriteReg(v, "dest", x)
    \/ \E x \in Ldrs : WriteReg(v, "ldr", x)
    \/ \E sh \in {"NONE", "SELF", "ALL_INCL", "ALL_EXCL"}, lg \in BOOLEAN,
          x \in Vectors, lv \in BOOLEAN : relm_apic_handle_icr_write(v, sh, lg, x, lv)
    \/ \E p \in Tprs : WriteTpr(v, p) \/ ShadowTpr(v, p)
    \/ ReadTpr(v) \/ ReadPpr(v) \/ relm_apic_eoi(v)
    \/ FailedAccess(v) \/ FetchAccess(v) \/ Hlt(v) \/ VmEntry(v)

Next ==
    /\ \E v \in Vcpus : Step(v) \/ \E x \in Vectors : vmx_inject_irq(v, x)
    /\ UNCHANGED tpr_shadow

\* A vCPU thread that is neither stopped nor halted keeps entering the guest.
Spec == Init /\ [][Next]_vars /\ \A v \in Vcpus : WF_vars(VmEntry(v) /\ UNCHANGED tpr_shadow)

----------------------------------------------------------------------------
(* Properties. *)

\* The page the processor reads for the guest shows the same pending vectors,
\* trigger modes and processor priority as the model.
PageMirrorsModel ==
    \A v \in Vcpus :
        /\ page[v].irr = irr[v] /\ page[v].tmr = tmr[v] /\ page[v].ppr = ppr[v]
        /\ ~tpr_shadow => page[v].tpr = tpr[v]

\* Every interrupt reaches the vCPUs it was meant for and no other: by the
\* registers as the guests last wrote them, whoever wrote which when, a vCPU has
\* pending exactly the vectors sent to it, level triggered those last sent so,
\* none taken back by a later one, and it is halted only when nothing came since
\* its HLT (relm_apic_ipi_resolve_targets, relm_apic_inject_interrupt).
DeliveryExact ==
    \A v \in Vcpus :
        /\ irr[v] = owed[v].pending /\ tmr[v] = owed[v].level
        /\ halted[v] = owed[v].asleep

----------------------------------------------------------------------------
(* Claims of comments and documents that the code does not meet. *)

\* apic.c:371 "PPR = max(TPR[7:4], ISRV[7:4])": what a read of PPR returns
\* follows from the task priority the guest last wrote.
PprFollowsTpr ==
    [][\A v \in Vcpus : ReadPpr(v) =>
         ppr'[v] = relm_apic_ppr_update(page[v].tpr, isr[v])]_vars

\* vmexit.c:116 "an exit we can't emulate correctly cannot be silently resumed".
FailureNotResumed == [][\A v \in Vcpus : VmEntry(v) => last[v] # "failed"]_vars

\* apic.c:770 "Actual delivery into the guest (IRR -> ISR, vector on VM-entry)
\* happens later in the run loop when priority allows."
EventuallyDelivered ==
    \A v \in Vcpus, x \in Vectors :
        (x \in irr[v]) ~> (x \in isr[v] \/ halted[v] \/ last[v] = "stopped" \/ tpr[v] # 0)
=============================================================================
