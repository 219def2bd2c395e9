---------------------------- MODULE VmcsContents ----------------------------
(***************************************************************************)
(* What vmx_vcpu_init writes into the VMCS, on a processor that allows     *)
(* some controls and not others: the five words of execution controls, the *)
(* fields those controls make the processor use, and the host state that   *)
(* every VM exit loads.                                                    *)
(*                                                                         *)
(* A word is the set of its bits that are 1; bits relm neither requests    *)
(* nor relies on are left out.  Which bits a processor allows, the checks  *)
(* of VM entry, and the host kernel's choice of page tables for a kthread  *)
(* (those of the process that ran before it) are external.                 *)
(***************************************************************************)
EXTENDS Integers, FiniteSets

CONSTANTS Processors,  \* what the processors' capability MSRs say
          Mms          \* the host's address spaces

Words == {"pin", "primary", "secondary", "entry", "exit"}

\* allowed0 of a processor are the bits that must be 1, allowed1 those that may.
ASSUME ProcessorsAssumption ==
    /\ Mms # {}
    /\ \A p \in Processors :
         /\ \A w \in Words : p.allowed0[w] \subseteq p.allowed1[w]
         /\ "ACTIVATE_SECONDARY" \in p.allowed1["primary"]
         /\ "IA32E_MODE" \in p.allowed1["entry"]
         /\ "ENABLE_EPT" \in p.allowed1["secondary"]
         /\ "VIRTUAL_NMIS" \in p.allowed1["pin"] => "NMI_EXITING" \in p.allowed1["pin"]
         /\ "APIC_REGISTER_VIRT" \in p.allowed1["secondary"] =>
              "TPR_SHADOW" \in p.allowed1["primary"]
         /\ \A w \in Words : p.allowed0[w] \subseteq
              {"CR3_LOAD_EXITING", "CR3_STORE_EXITING", "LOAD_DEBUG", "SAVE_DEBUG"}

VARIABLES
    cpu,       \* the processor
    ctl,       \* the five control fields
    written,   \* the other fields that have been written
    regVirt,   \* apic->apic_reg_virt_supported
    step,      \* where vmx_vcpu_init is, or Run, Guest or Failed
    hostCr3,   \* HOST_CR3
    mm,        \* the page tables the host CPU runs on
    live       \* the host's address spaces that still exist

vmcsVars == <<cpu, ctl, written, regVirt, step, hostCr3, mm, live>>

\* The steps of vmx_vcpu_init that write what is modelled here, in order, and
\* where it ends.
Order == <<"pin", "primary", "secondary", "entry", "exit", "VPID", "bitmaps",
           "apic", "host", "longmode">>
Run == 11
Guest == 12
Failed == 0

At(a) == step \in 1 .. 10 /\ Order[step] = a

\* Type invariant. Processor, controls and the host's address spaces.
VmcsTypeOK ==
    /\ \A w \in Words : cpu.allowed0[w] \cup ctl[w] \subseteq cpu.allowed1[w]
    /\ regVirt \in BOOLEAN /\ step \in 0 .. 12
    /\ hostCr3 \in Mms /\ mm \in Mms /\ live \subseteq Mms

----------------------------------------------------------------------------
(* Controls. *)

_cpu_has_vpid(p) ==
    "ACTIVATE_SECONDARY" \in p.allowed1["primary"] /\ "VPID" \in p.allowed1["secondary"]

relm_init_exec_controls(p) ==
    [w \in Words |->
       CASE w = "pin" -> {"EXTINT_EXITING", "NMI_EXITING", "VIRTUAL_NMIS"}
         [] w = "primary" -> {"USE_MSR_BITMAPS", "ACTIVATE_SECONDARY", "HLT_EXITING",
                              "CR8_LOAD_EXITING", "CR8_STORE_EXITING", "TPR_SHADOW",
                              "UNCOND_IO_EXITING", "USE_IO_BITMAPS"}
         [] w = "secondary" -> {"ENABLE_EPT", "RDTSCP", "ENABLE_INVPCID",
                                "UNRESTRICTED_GUEST", "ENABLE_VMFUNC"}
                               \cup (IF _cpu_has_vpid(p) THEN {"VPID"} ELSE {})
         [] w = "entry" -> {"IA32E_MODE", "LOAD_GUEST_PAT", "LOAD_IA32_EFER", "LOAD_DEBUG"}
         [] OTHER -> {"HOST_ADDR_SPACE_SIZE", "SAVE_IA32_PAT", "LOAD_IA32_PAT",
                      "SAVE_EFER", "LOAD_EFER", "ACK_INTR_ON_EXIT"}]

\* Mutant: the bits that must be 1 are not added.
vmx_adjust_Mut(req, allowed0, allowed1) == req \cap allowed1

vmx_adjust(req, allowed0, allowed1) == (req \cup allowed0) \cap allowed1

VmcsInit ==
    /\ cpu \in Processors
    /\ ctl = [w \in Words |-> {}]
    /\ written = {"EPT_POINTER"} /\ regVirt = FALSE /\ step = 1
    /\ live = Mms /\ mm \in Mms /\ hostCr3 = mm

\* relm_apply_exec_controls, one word.
ApplyControls(w) ==
    /\ At(w)
    /\ ctl' = [ctl EXCEPT ![w] =
                 vmx_adjust(relm_init_exec_controls(cpu)[w], cpu.allowed0[w], cpu.allowed1[w])]
    /\ step' = step + 1
    /\ UNCHANGED <<cpu, written, regVirt, hostCr3, mm, live>>

\* Fields are written and vmx_vcpu_init goes on.
Write(fields) ==
    /\ written' = written \cup fields
    /\ step' = step + 1
    /\ UNCHANGED <<cpu, mm, live>>

WriteVpid ==
    /\ At("VPID")
    /\ Write(IF _cpu_has_vpid(cpu) THEN {"VPID"} ELSE {})
    /\ UNCHANGED <<ctl, regVirt, hostCr3>>

\* The addresses of the bitmaps go with the controls relm asked for, not with
\* those the processor allowed.
WriteBitmaps ==
    /\ At("bitmaps")
    /\ Write({"IO_BITMAP", "MSR_BITMAP"})
    /\ UNCHANGED <<ctl, regVirt, hostCr3>>

\* Mutant: the secondary controls are overwritten, not extended.
relm_apic_vmcs_setup_Mut ==
    /\ At("apic")
    /\ LET new == {"VIRTUALIZE_APIC_ACCESSES", "APIC_REGISTER_VIRT"}
                    \cap cpu.allowed1["secondary"]
       IN  IF "VIRTUALIZE_APIC_ACCESSES" \in new
           THEN ctl' = [ctl EXCEPT !["secondary"] = new] /\ regVirt' = ("APIC_REGISTER_VIRT" \in new)
           ELSE regVirt' = FALSE /\ UNCHANGED ctl
    /\ Write({"VIRTUAL_APIC_PAGE_ADDR", "APIC_ACCESS_ADDR", "TPR_THRESHOLD"})
    /\ UNCHANGED hostCr3

\* Both APIC controls only when accesses can be virtualised, on top of the
\* secondary controls as they are in the VMCS.
relm_apic_vmcs_setup ==
    /\ At("apic")
    /\ LET new == {"VIRTUALIZE_APIC_ACCESSES", "APIC_REGISTER_VIRT"}
                    \cap cpu.allowed1["secondary"]
       IN  IF "VIRTUALIZE_APIC_ACCESSES" \in new
           THEN /\ ctl' = [ctl EXCEPT !["secondary"] = @ \cup new]
                /\ regVirt' = ("APIC_REGISTER_VIRT" \in new)
           ELSE regVirt' = FALSE /\ UNCHANGED ctl
    /\ Write({"VIRTUAL_APIC_PAGE_ADDR", "APIC_ACCESS_ADDR", "TPR_THRESHOLD"})
    /\ UNCHANGED hostCr3

\* Mutant: the PAT of the host is left out.
relm_setup_host_state_Mut ==
    /\ At("host")
    /\ hostCr3' = mm
    /\ Write({"HOST_STATE", "HOST_IA32_EFER"})
    /\ UNCHANGED <<ctl, regVirt>>

\* The host state is what the CPU has at this moment.
relm_setup_host_state ==
    /\ At("host")
    /\ hostCr3' = mm
    /\ Write({"HOST_STATE", "HOST_IA32_EFER", "HOST_IA32_PAT"})
    /\ UNCHANGED <<ctl, regVirt>>

relm_setup_guest_state_longmode ==
    /\ At("longmode")
    /\ ctl' = [ctl EXCEPT !["entry"] = @ \cup {"IA32E_MODE"}]
    /\ Write({"GUEST_STATE", "GUEST_IA32_EFER", "GUEST_IA32_PAT"})
    /\ UNCHANGED <<regVirt, hostCr3>>

\* A VMWRITE or one of the tests of the host and guest state fails.
VmcsFails ==
    /\ step \in 1 .. 10 /\ step' = Failed
    /\ UNCHANGED <<cpu, ctl, written, regVirt, hostCr3, mm, live>>

----------------------------------------------------------------------------
(* The host around the vCPU thread, which is pinned to this CPU. *)

VmcsEntry ==
    /\ step = Run /\ step' = Guest
    /\ UNCHANGED <<cpu, ctl, written, regVirt, hostCr3, mm, live>>

VmcsExit ==
    /\ step = Guest /\ step' = Run /\ mm' = hostCr3
    /\ UNCHANGED <<cpu, ctl, written, regVirt, hostCr3, live>>

\* A process ran in between; the kthread goes on with its page tables.
Scheduled(m) ==
    /\ step # Guest /\ m \in live /\ mm' = m
    /\ UNCHANGED <<cpu, ctl, written, regVirt, step, hostCr3, live>>

\* A process ends; the page tables a CPU runs on are kept.
ProcessEnds(m) ==
    /\ m # mm /\ live' = live \ {m}
    /\ UNCHANGED <<cpu, ctl, written, regVirt, step, hostCr3, mm>>

VmcsNext ==
    \/ \E w \in Words : ApplyControls(w)
    \/ WriteVpid \/ WriteBitmaps \/ relm_apic_vmcs_setup
    \/ relm_setup_host_state \/ relm_setup_guest_state_longmode \/ VmcsFails
    \/ VmcsEntry \/ VmcsExit
    \/ \E m \in Mms : Scheduled(m) \/ ProcessEnds(m)

VmcsSpec == VmcsInit /\ [][VmcsNext]_vmcsVars

----------------------------------------------------------------------------
(* Properties. *)

\* The fields a control makes the processor use.
Uses(bit) ==
    CASE bit = "USE_IO_BITMAPS"           -> {"IO_BITMAP"}
      [] bit = "USE_MSR_BITMAPS"          -> {"MSR_BITMAP"}
      [] bit = "TPR_SHADOW"               -> {"VIRTUAL_APIC_PAGE_ADDR", "TPR_THRESHOLD"}
      [] bit = "VIRTUALIZE_APIC_ACCESSES" -> {"APIC_ACCESS_ADDR"}
      [] bit = "ENABLE_EPT"               -> {"EPT_POINTER"}
      [] bit = "VPID"                     -> {"VPID"}
      [] bit = "LOAD_GUEST_PAT"           -> {"GUEST_IA32_PAT"}
      [] bit = "LOAD_IA32_PAT"            -> {"HOST_IA32_PAT"}
      [] bit = "LOAD_IA32_EFER"           -> {"GUEST_IA32_EFER"}
      [] bit = "LOAD_EFER"                -> {"HOST_IA32_EFER"}
      [] bit = "LOAD_DEBUG"               -> {"GUEST_DR7", "GUEST_IA32_DEBUGCTL"}
      [] bit = "ENABLE_VMFUNC"            -> {"VM_FUNCTION_CONTROLS"}
      [] OTHER                            -> {}

\* The fields in use that vmx_vcpu_init has not written: they hold what the
\* VMCS region held, the zeros relm_setup_vmcs_region allocates it with.
LeftZero == (UNION {Uses(bit) : bit \in UNION {ctl[w] : w \in Words}}) \ written

\* The fields in which zero is a value VM entry accepts and that stands for
\* nothing: no breakpoint, no debug feature, no VM function.
ZeroMeansNone == {"GUEST_DR7", "GUEST_IA32_DEBUGCTL", "VM_FUNCTION_CONTROLS"}

\* Whatever the processor allows, the guest is entered with controls it
\* accepts (none forbidden, none missing, none without the one it needs), with
\* everything relm asked for that it has (the read-modify-writes of
\* relm_apic_vmcs_setup and relm_setup_guest_state_longmode lose nothing), and
\* no control makes the processor use a field left at zero ("If we leave it 0
\* the whole PAT becomes Uncacheable and the host hangs after the first exit")
\* unless zero stands for nothing there.
ControlsLegal ==
    step \in {Run, Guest} =>
        /\ \A w \in Words : /\ cpu.allowed0[w] \subseteq ctl[w]
                            /\ relm_init_exec_controls(cpu)[w] \cap cpu.allowed1[w] \subseteq ctl[w]
                            /\ ctl[w] \subseteq cpu.allowed1[w]
        /\ LeftZero \subseteq ZeroMeansNone
        /\ "VIRTUAL_NMIS" \in ctl["pin"] => "NMI_EXITING" \in ctl["pin"]
        /\ "APIC_REGISTER_VIRT" \in ctl["secondary"] => "TPR_SHADOW" \in ctl["primary"]
        /\ "UNRESTRICTED_GUEST" \in ctl["secondary"] => "ENABLE_EPT" \in ctl["secondary"]
        /\ regVirt <=> "APIC_REGISTER_VIRT" \in ctl["secondary"]

----------------------------------------------------------------------------
(* Claims of comments and documents that the code does not meet. *)

\* docs/vcpu_execution_model.md:381: HOST_CR0, HOST_CR3 and HOST_CR4 are "Live
\* CPU register state".
ExitsToLiveTables == step = Guest => hostCr3 \in live

\* docs/architecure.md:529: VMCS_ENTRY_LOAD_DEBUG is "Load guest DR7 on entry".
\* Nothing writes GUEST_DR7 (nor GUEST_IA32_DEBUGCTL): entry loads zeros.
DebugStateWritten ==
    step \in {Run, Guest} /\ "LOAD_DEBUG" \in ctl["entry"] => "GUEST_DR7" \in written
=============================================================================
