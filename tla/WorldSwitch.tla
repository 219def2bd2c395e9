---------------------------- MODULE WorldSwitch ----------------------------
(***************************************************************************)
(* The switch between host and guest of the arm64 backend (arm64.c and     *)
(* entry.S), on the CPU the vCPU thread is pinned to, for a VHE host.      *)
(*                                                                         *)
(* Registers are grouped by how the code treats them; a group is a set of  *)
(* register names.  At EL2 with E2H an EL1 name reaches the register of    *)
(* EL2 (El2, HostTimers) and the _EL12 and _EL02 names that of the guest   *)
(* (El12, GuestTimers).  The source does not compile as it stands: the     *)
(* names ctrls/controls and eli/el1 are read as the one variable that is   *)
(* meant, and "msr sp_el0" as writing the register just loaded.            *)
(***************************************************************************)
EXTENDS Naturals

CONSTANTS
    El2,          \* EL2 registers saved under their EL1 names
    El2Ctls,      \* those the guest's controls overwrite: CPTR_EL2, CNTHCTL_EL2
    Return,       \* those the guest's PC and PSTATE go through: ELR_EL2, SPSR_EL2
    Syndrome,     \* those an exception writes: ESR_EL2, FAR_EL2
    HostTimers,   \* CNTV and CNTP of the host
    Borrowed,     \* loaded and never restored: MDCR, VPIDR, VMPIDR, VTCR, VTTBR
    El12,         \* EL1 registers of the guest
    Shared,       \* plain names: CSSELR, TPIDR_EL1, MDSCR, TPIDR_EL0, PAR, SP_EL1...
    GuestTimers,  \* CNTV_CVAL and CNTP_CVAL of the guest
    TimerCtls,    \* CNTV_CTL and CNTP_CTL of the guest
    Callee,       \* x18 - x30
    Scratch,      \* x2 - x17
    X01,          \* x0 and x1
    SpEl0, Fp,    \* SP_EL0; the vector bank with FPSR and FPCR
    Values, Zero, Entry,  \* register values; what vcpu_init seeds
    HostHcrs,     \* values of HCR_EL2 the host may run with
    Features,     \* sets of the optional features the CPU may have
    HostFiles, GuestFiles, \* register files host and guest may leave behind
    Interruptions \* what an interruption may leave in the registers it writes

Kept == El2 \cup HostTimers \cup Callee \cup {SpEl0}
Banked == El12 \cup Shared \cup GuestTimers \cup TimerCtls
Direct == Callee \cup Scratch \cup X01 \cup {SpEl0, Fp} \cup Return
Guest == Banked \cup Direct
Controls == El2Ctls \cup Borrowed
Registers == Kept \cup Guest \cup Borrowed
Exposed == El2 \cup HostTimers \cup Shared  \* what the host writes in an interruption
Kinds == {"sync", "irq", "fiq", "serror"}
HcrBits == {"E2H", "TGE", "RW", "VM", "AMO", "IMO", "FMO", "TLOR", "TERR"}

ASSUME WorldSwitchAssumption ==
    /\ El2Ctls \subseteq El2 /\ Return \subseteq El2 /\ Syndrome \subseteq El2
    /\ El2Ctls \cap (Return \cup Syndrome) = {} /\ Return \cap Syndrome = {}
    /\ Guest \cap (El2 \cup HostTimers) = Return
    /\ Borrowed \cap (Kept \cup Guest) = {}
    /\ (Callee \cup {SpEl0}) \cap (El2 \cup HostTimers) = {}
    /\ Banked \cap Direct = {} /\ X01 \cap (Callee \cup {SpEl0}) = {}
    /\ Zero \in Values /\ Entry \in Values /\ HostHcrs \subseteq SUBSET HcrBits
    /\ HostFiles \subseteq [Kept -> Values] /\ GuestFiles \subseteq [Guest -> Values]
    /\ Shared \cap TimerCtls = {}
    /\ \A f \in Interruptions : DOMAIN f \subseteq Exposed /\ \A x \in DOMAIN f : f[x] \in Values

VARIABLES
    place,      \* where the vCPU thread is
    hw, hcr, vbar,  \* the registers of the CPU, HCR_EL2 and VBAR_EL2
    saved,      \* this CPU's relm_arm64_host_state
    frame,      \* the stack frame of relm_arm64_vcpu_run_asm
    vcpu,       \* vcpu->arch: registers, controls, syndrome
    code,       \* the exit code in x0, then exit_kind
    masked,     \* PSTATE.DAIF at EL2
    hostv,      \* history: what the host left in the registers it keeps
    guestv,     \* history: what the guest left in its registers
    trap,       \* history: kind and syndrome of the last exit
    stale,      \* history: what the host wrote after it was saved, and not since
    spoilt      \* history: what the host wrote after the guest's value was loaded

wsVars == <<place, hw, hcr, vbar, saved, frame, vcpu, code, masked, hostv, guestv, trap,
            stale, spoilt>>
cpuRegs == <<hw, hcr, vbar>>
history == <<hostv, guestv, trap, stale, spoilt>>

\* f with its values at S taken from g.
Over(f, S, g) == [r \in DOMAIN f |-> IF r \in S THEN g[r] ELSE f[r]]

EntryPlaces == {"save", "stage2", "el1", "shared", "timers", "ctrls", "vectors", "hcr",
             "frame", "load", "gprs"}
ExitPlaces == {"stub", "regs", "ret", "hcr_back", "el1_back", "timers_back", "host_back", "code"}
Places == {"new", "out", "guest", "stuck", "end"} \cup EntryPlaces \cup ExitPlaces

Tracked == stale \subseteq Exposed /\ spoilt \subseteq Exposed

\* Type invariant. Register files, places and histories.
WsTypeOK ==
    /\ place \in Places /\ hw \in [Registers -> Values]
    /\ hcr \subseteq HcrBits /\ vbar \in {"host", "relm"}
    /\ saved \in [regs : [El2 \cup HostTimers -> Values], hcr : SUBSET HcrBits,
                  vbar : {"host", "relm"}]
    /\ frame \in [Callee \cup {SpEl0} \cup X01 -> Values]
    /\ vcpu \in [regs : [Guest \cup Controls \cup Syndrome -> Values], hcr : SUBSET HcrBits]
    /\ code \in Kinds \cup {"none"} /\ masked \in BOOLEAN
    /\ hostv \in [Kept -> Values] /\ guestv \in [Guest -> Values]
    /\ trap \in [kind : Kinds \cup {"none"}, syn : Values] /\ Tracked

WsInit ==
    /\ place = "new" /\ hcr \in HostHcrs /\ vbar = "host" /\ masked = FALSE
    /\ \E f \in HostFiles : hostv = f
    /\ hw = [r \in Registers |-> IF r \in Kept THEN hostv[r] ELSE Zero]
    /\ saved = [regs |-> [r \in El2 \cup HostTimers |-> Zero], hcr |-> {}, vbar |-> "host"]
    /\ frame = [r \in Callee \cup {SpEl0} \cup X01 |-> Zero]
    /\ vcpu = [regs |-> [r \in Guest \cup Controls \cup Syndrome |-> Zero], hcr |-> {}]
    /\ code = "none" /\ trap = [kind |-> "none", syn |-> Zero]
    /\ guestv = [r \in Guest |-> Zero] /\ stale = {} /\ spoilt = {}

----------------------------------------------------------------------------
(* Setup. *)

\* The bits of HCR_EL2 that matter here; TGE is cleared.
relm_setup_guest_ctrls_vhe(features) ==
    {"E2H", "RW", "VM", "AMO", "IMO", "FMO"}
        \cup (IF "LO" \in features THEN {"TLOR"} ELSE {})
        \cup (IF "RAS" \in features THEN {"TERR"} ELSE {})

\* relm_setup_guest_state_aarch64: PC and PSTATE, x0 the device tree; the
\* other registers keep the zeros of the allocation.
relm_setup_guest_state_aarch64(regs) ==
    [r \in DOMAIN regs |-> IF r \in Return \cup X01 THEN Entry ELSE regs[r]]

\* arm64_vcpu_init: a host that is not VHE, or a VM without kernel or device
\* tree, ends the thread.
arm64_vcpu_init ==
    /\ place = "new"
    /\ \/ /\ {"E2H", "TGE"} \subseteq hcr
          /\ \E f \in Features :
                vcpu' = [regs |-> Over(relm_setup_guest_state_aarch64(vcpu.regs), Controls,
                                       [r \in Controls |-> Entry]),
                         hcr |-> relm_setup_guest_ctrls_vhe(f)]
          /\ guestv' = [r \in Guest |-> relm_setup_guest_state_aarch64(vcpu.regs)[r]]
          /\ place' = "out" /\ UNCHANGED <<hostv, trap, stale, spoilt>>
       \/ place' = "end" /\ UNCHANGED <<vcpu, history>>
    /\ UNCHANGED <<cpuRegs, saved, frame, code, masked>>

----------------------------------------------------------------------------
(* relm_arm64_guest_entry. *)

\* The thread goes from one program point to the next and only writes the
\* CPU's registers.
Load(from, to, S, g) ==
    /\ place = from /\ place' = to
    /\ hw' = Over(hw, S, g) /\ spoilt' = spoilt \ S
    /\ UNCHANGED <<hcr, vbar, saved, frame, vcpu, code, masked, hostv, guestv, trap, stale>>

\* arm64_vcpu_run calls the entry, which fails without stage-2 tables.
EntryStart ==
    /\ place = "out" /\ place' \in {"save", "end"}
    /\ UNCHANGED <<cpuRegs, saved, frame, vcpu, code, masked, history>>

\* Mutant: the save area is filled on the first entry only.
SaveHost_Mut ==
    /\ place = "save" /\ place' = "stage2"
    /\ saved' = IF code = "none"
                THEN [regs |-> [r \in El2 \cup HostTimers |-> hw[r]], hcr |-> hcr, vbar |-> vbar]
                ELSE saved
    /\ UNCHANGED <<cpuRegs, frame, vcpu, code, masked, history>>

SaveHost ==
    /\ place = "save" /\ place' = "stage2"
    /\ saved' = [regs |-> [r \in El2 \cup HostTimers |-> hw[r]], hcr |-> hcr, vbar |-> vbar]
    /\ UNCHANGED <<cpuRegs, frame, vcpu, code, masked, history>>

LoadStage2 == Load("stage2", "el1", Borrowed, vcpu.regs)
LoadEl1 == Load("el1", "shared", El12, vcpu.regs)
LoadShared == Load("shared", "timers", Shared, vcpu.regs)
LoadTimers == Load("timers", "ctrls", GuestTimers \cup TimerCtls, vcpu.regs)
LoadControls == Load("ctrls", "vectors", Controls, vcpu.regs)

\* Mutant: HCR_EL2 is written first, the vectors after it.
LoadVectors_Mut ==
    /\ place = "vectors" /\ place' = "hcr"
    /\ hcr' = vcpu.hcr
    /\ UNCHANGED <<hw, vbar, saved, frame, vcpu, code, masked, history>>

LoadVectors ==
    /\ place = "vectors" /\ place' = "hcr"
    /\ vbar' = "relm"
    /\ UNCHANGED <<hw, hcr, saved, frame, vcpu, code, masked, history>>

LoadHcr ==
    /\ place = "hcr" /\ place' = "frame"
    /\ hcr' = vcpu.hcr
    /\ UNCHANGED <<hw, vbar, saved, frame, vcpu, code, masked, history>>

----------------------------------------------------------------------------
(* relm_arm64_vcpu_run_asm and the vectors. *)

PushFrame ==
    /\ place = "frame" /\ place' = "load"
    /\ frame' = Over(frame, Callee \cup {SpEl0}, hw)
    /\ UNCHANGED <<cpuRegs, saved, vcpu, code, masked, history>>

LoadReturn == Load("load", "gprs", {SpEl0, Fp} \cup Return, vcpu.regs)

\* The general registers and eret.
LoadGprs == Load("gprs", "guest", Callee \cup Scratch \cup X01, vcpu.regs)

\* The guest runs until an exception of a kind takes it to relm_hyp_vectors,
\* having left any register file behind; the hardware writes ELR_EL2 and
\* SPSR_EL2 (part of the file), the syndrome, and masks interrupts.
Trap(kind) ==
    /\ place = "guest" /\ place' = "stub"
    /\ \E f \in GuestFiles, v \in Values :
          /\ hw' = Over(Over(hw, Guest, f), Syndrome, [r \in Syndrome |-> v])
          /\ guestv' = f /\ trap' = [kind |-> kind, syn |-> v]
    /\ masked' = TRUE /\ spoilt' = {}
    /\ UNCHANGED <<hcr, vbar, saved, frame, vcpu, code, hostv, stale>>

\* Guest EL0 in AArch32: the vector is a branch to itself.
TrapAarch32 ==
    /\ place = "guest" /\ place' = "stuck" /\ masked' = TRUE
    /\ UNCHANGED <<cpuRegs, saved, frame, vcpu, code, history>>

\* The stub of the vector parks x0 and x1 in the frame.
Stub ==
    /\ place = "stub" /\ place' = "regs"
    /\ frame' = Over(frame, X01, hw)
    /\ hw' = [r \in Registers |-> IF r \in X01 THEN Zero ELSE hw[r]]
    /\ code' = trap.kind
    /\ UNCHANGED <<hcr, vbar, saved, vcpu, masked, history>>

\* Mutant: x0 and x1 are stored like the others, not from the frame.
SaveGuest_Mut ==
    /\ place = "regs" /\ place' = "ret"
    /\ vcpu' = [vcpu EXCEPT !.regs =
           Over(@, Callee \cup Scratch \cup X01 \cup {SpEl0, Fp} \cup Return \cup Syndrome, hw)]
    /\ UNCHANGED <<cpuRegs, saved, frame, code, masked, history>>

\* relm_arm64_guest_exit_common up to the host's registers.
SaveGuest ==
    /\ place = "regs" /\ place' = "ret"
    /\ vcpu' = [vcpu EXCEPT !.regs =
           Over(Over(@, Callee \cup Scratch \cup {SpEl0, Fp} \cup Return \cup Syndrome, hw),
                X01, frame)]
    /\ UNCHANGED <<cpuRegs, saved, frame, code, masked, history>>

PopFrame == Load("ret", "hcr_back", Callee \cup {SpEl0}, frame)

----------------------------------------------------------------------------
(* relm_arm64_guest_exit and the rest of arm64_vcpu_run. *)

RestoreHcr ==
    /\ place = "hcr_back" /\ place' = "el1_back"
    /\ hcr' = saved.hcr
    /\ UNCHANGED <<hw, vbar, saved, frame, vcpu, code, masked, history>>

SaveEl1 ==
    /\ place = "el1_back" /\ place' = "timers_back"
    /\ vcpu' = [vcpu EXCEPT !.regs = Over(@, El12 \cup Shared, hw)]
    /\ UNCHANGED <<cpuRegs, saved, frame, code, masked, history>>

\* The guest's timers are read, then masked.
SaveTimers ==
    /\ place = "timers_back" /\ place' = "host_back"
    /\ vcpu' = [vcpu EXCEPT !.regs = Over(@, GuestTimers \cup TimerCtls, hw)]
    /\ hw' = [r \in Registers |-> IF r \in TimerCtls THEN Zero ELSE hw[r]]
    /\ UNCHANGED <<hcr, vbar, saved, frame, code, masked, history>>

RestoreHost ==
    /\ place = "host_back" /\ place' = "code"
    /\ vbar' = saved.vbar
    /\ hw' = Over(hw, El2 \cup HostTimers, saved.regs)
    /\ UNCHANGED <<hcr, saved, frame, vcpu, code, masked, history>>

\* The stubs return no other code than the four, so -EIO is not reached.
ExitDone ==
    /\ place = "code" /\ place' = IF code \in Kinds THEN "out" ELSE "end"
    /\ UNCHANGED <<cpuRegs, saved, frame, vcpu, code, masked, history>>

\* Between two runs the thread sleeps or is preempted: the scheduler unmasks
\* interrupts, and the host leaves other values in its registers.
HostRuns ==
    /\ place = "out"
    /\ \E f \in HostFiles : hostv' = f /\ hw' = Over(hw, Kept, f)
    /\ masked' = FALSE /\ stale' = {}
    /\ UNCHANGED <<place, hcr, vbar, saved, frame, vcpu, code, guestv, trap, spoilt>>

\* arm64_vcpu_run masks neither interrupts nor preemption.  While the host's
\* vectors are in place an interrupt is served, and other threads may run; the
\* thread comes back with its own x0 - x30 and SP_EL0, and the host has written
\* some of the other registers: the exception ELR, SPSR and ESR, its handler a
\* timer, a context switch TTBR0, CONTEXTIDR, CPACR, TPIDRRO_EL0.
HostPreempts ==
    /\ place \in (EntryPlaces \cup ExitPlaces) /\ ~masked /\ vbar = "host"
    /\ \E f \in Interruptions :
          /\ hw' = Over(hw, DOMAIN f, f) /\ hostv' = Over(hostv, DOMAIN f, f)
          /\ stale' = IF place = "save" THEN stale \ DOMAIN f ELSE stale \cup DOMAIN f
          /\ spoilt' = spoilt \cup DOMAIN f
    /\ UNCHANGED <<place, hcr, vbar, saved, frame, vcpu, code, masked, guestv, trap>>

\* With RELM's vectors in place it ends in a branch to itself.
HostInterrupt ==
    /\ place \in (EntryPlaces \cup ExitPlaces) /\ ~masked /\ vbar = "relm"
    /\ place' = "stuck" /\ masked' = TRUE
    /\ UNCHANGED <<cpuRegs, saved, frame, vcpu, code, history>>

WsNext ==
    \/ arm64_vcpu_init \/ EntryStart \/ SaveHost \/ LoadStage2 \/ LoadEl1 \/ LoadShared
    \/ LoadTimers \/ LoadControls \/ LoadVectors \/ LoadHcr \/ PushFrame \/ LoadReturn
    \/ LoadGprs \/ (\E k \in Kinds : Trap(k)) \/ TrapAarch32 \/ Stub \/ SaveGuest \/ PopFrame
    \/ RestoreHcr \/ SaveEl1 \/ SaveTimers \/ RestoreHost \/ ExitDone
    \/ HostRuns \/ HostPreempts \/ HostInterrupt

WsSpec == WsInit /\ [][WsNext]_wsVars

----------------------------------------------------------------------------
(* Properties. *)

\* Whenever the thread is outside arm64_vcpu_run the host finds what it left:
\* its EL2 registers and timers, the callee-saved registers, SP_EL0 (the
\* kernel's current task), HCR_EL2 and its vectors; and the guest's timers do
\* not fire into it.  The only values it may have lost are those it wrote itself
\* between the save of relm_arm64_guest_entry and the write of VBAR_EL2, and
\* only until it writes them again.
HostRestored ==
    place \in {"new", "out", "end"} =>
        /\ \A r \in Kept \ stale : hw[r] = hostv[r]
        /\ vbar = "host" /\ hcr \in HostHcrs
        /\ \A r \in TimerCtls : hw[r] = Zero

\* When the guest is entered every register it can read holds what it left
\* there at its last exit, but for those the host wrote after they were loaded;
\* and what arm64_vcpu_run reports is that exit, with the syndrome taken before
\* the host's ESR_EL2 and FAR_EL2 are put back.
GuestPreserved ==
    /\ place = "guest" => \A r \in Guest \ spoilt : hw[r] = guestv[r]
    /\ place = "out" /\ trap.kind # "none" =>
          code = trap.kind /\ \A r \in Syndrome : vcpu.regs[r] = trap.syn

\* The guest runs only under its own stage-2 tables and controls (CPTR_EL2 and
\* CNTHCTL_EL2 unless the host wrote them after they were loaded), with physical
\* interrupts routed to EL2; and at no point of the switch are EL1 exceptions
\* routed away from the host while the host's vectors are still, or again, in
\* place.
GuestConfined ==
    /\ "TGE" \notin hcr => vbar = "relm" \/ place \in {"new", "end"}
    /\ place = "guest" =>
          /\ vbar = "relm" /\ {"E2H", "RW", "VM", "AMO", "IMO", "FMO"} \subseteq hcr
          /\ "TGE" \notin hcr
          /\ \A r \in Controls \ spoilt : hw[r] = vcpu.regs[r]

----------------------------------------------------------------------------
(* Comments the code does not meet. *)

\* arm64.c on the last write of relm_arm64_guest_entry: "writing it is what
\* clears TGE and starts routing EL0/EL1 exceptions to relm_hyp_vectors instead
\* of the host".  An interrupt taken at EL2 goes there one write earlier, and
\* its vector never returns.
NeverStuck == place # "stuck"

\* arm64.c:194 "Save host context", entry.S:229 "restore host registers": what
\* is restored is the context as it was saved, also where the host has changed
\* it since.
ContextCurrent == place = "out" => \A r \in Kept : hw[r] = hostv[r]
=============================================================================
