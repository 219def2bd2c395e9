------------------------- MODULE MCControlRegisters -------------------------
(***************************************************************************)
(* What vmx_vcpu_init writes into the VMCS (VmcsContents), and the guest's *)
(* writes of CR0, CR4 and EFER (GuestMode) and of CR3 (Cr3Cache).  The     *)
(* three share no state, so a behaviour exercises one of them and leaves   *)
(* the others as they were set up.                                         *)
(*                                                                         *)
(* A processor has every combination of the controls that not all of them  *)
(* have, and forces CR3-load exiting, as the first ones with VMX did, or   *)
(* not.  Register virtualisation comes with the TPR shadow.                *)
(***************************************************************************)
EXTENDS GuestMode, Cr3Cache, VmcsContents

Common == [pin       |-> {"EXTINT_EXITING", "NMI_EXITING"},
           primary   |-> {"USE_MSR_BITMAPS", "ACTIVATE_SECONDARY", "HLT_EXITING",
                          "CR8_LOAD_EXITING", "CR8_STORE_EXITING", "UNCOND_IO_EXITING",
                          "USE_IO_BITMAPS", "CR3_LOAD_EXITING"},
           secondary |-> {"ENABLE_EPT"},
           entry     |-> {"IA32E_MODE", "LOAD_IA32_EFER", "LOAD_DEBUG"},
           exit      |-> {"HOST_ADDR_SPACE_SIZE", "SAVE_EFER", "LOAD_EFER", "ACK_INTR_ON_EXIT"}]

Optional == [pin       |-> {{}, {"VIRTUAL_NMIS"}},
             primary   |-> {{}, {"TPR_SHADOW"}},
             secondary |-> SUBSET {"VPID", "VIRTUALIZE_APIC_ACCESSES", "UNRESTRICTED_GUEST"}
                           \cup {{"VIRTUALIZE_APIC_ACCESSES", "APIC_REGISTER_VIRT"},
                                 {"APIC_REGISTER_VIRT"}, {"UNRESTRICTED_GUEST", "ENABLE_VMFUNC"}},
             entry     |-> {{}, {"LOAD_GUEST_PAT"}},
             exit      |-> {{}, {"LOAD_IA32_PAT"}}]

Processor(forced, extra) ==
    [allowed0 |-> [w \in Words |-> IF w = "primary" THEN forced ELSE {}],
     allowed1 |-> [w \in Words |-> Common[w] \cup extra[w]]]

MCProcessors ==
    {p \in {Processor(forced, [pin |-> a, primary |-> b, secondary |-> c, entry |-> d, exit |-> e]) :
              forced \in {{}, {"CR3_LOAD_EXITING"}},
              a \in Optional.pin, b \in Optional.primary, c \in Optional.secondary,
              d \in Optional.entry, e \in Optional.exit} :
        "APIC_REGISTER_VIRT" \in p.allowed1.secondary => "TPR_SHADOW" \in p.allowed1.primary}

VARIABLE part   \* the component this behaviour moves

MCInit ==
    /\ part \in {"vmcs", "mode", "cr3"} /\ Init /\ CacheInit /\ VmcsInit
    /\ part # "vmcs" => cpu = Processor({}, [w \in Words |-> {}]) /\ mm = 1

MCNext ==
    /\ UNCHANGED part
    /\ \/ part = "vmcs" /\ VmcsNext /\ UNCHANGED <<vars, cacheVars>>
       \/ part = "mode" /\ Next /\ UNCHANGED <<cacheVars, vmcsVars>>
       \/ part = "cr3" /\ CacheNext /\ UNCHANGED <<vars, vmcsVars>>

MCSpec == MCInit /\ [][MCNext]_<<part, vars, cacheVars, vmcsVars>>

\* Type invariant of the three.
TypesOK == TypeOK /\ CacheTypeOK /\ VmcsTypeOK
=============================================================================
