----------------------------- MODULE VmLifetime -----------------------------
(***************************************************************************)
(* The module and the vCPU of its VM together: ModuleLifecycle with        *)
(* relm_vm_add_vcpu, the vCPU thread and relm_destroy_vm taken apart into  *)
(* the steps of VcpuSetup.  The loading thread allocates the vCPU, the     *)
(* vCPU thread gives the VMCS its contents and runs the guest, the         *)
(* unloading thread frees it; the module may be loaded again.              *)
(***************************************************************************)
EXTENDS ModuleLifecycle, VcpuSetup

lifetimeVars == <<moduleVars, vcpuVars>>

LifetimeInit == ModuleInit /\ VcpuInit

\* Steps of module_init, module_exit and the CPUs that touch no vCPU.
Elsewhere ==
    /\ \/ Insmod \/ AllocHcpu \/ AllocFails \/ AllocDone \/ EnableDone
       \/ \E c \in Cpus, ok \in BOOLEAN : EnableCpu(c, ok)
       \/ RegisterPdev \/ relm_create_vm \/ relm_iommu_init \/ relm_boot_load
       \/ relm_iommu_map_guest_ram \/ relm_run_vm
       \/ Rmmod \/ relm_stop_vm \/ relm_iommu_dump_stats
       \/ UnregisterPdev \/ FreeHcpus
       \/ \E c \in Cpus : DisableCpu(c) \/ CpuOnline(c)
    /\ UNCHANGED vcpuVars

\* A module that is loaded again starts from a new, zeroed vCPU; the MSRs of
\* the CPU are what the last guest left.
NewVcpu ==
    /\ pc = "add_vcpu" /\ life = "gone"
    /\ life' = "create" /\ progress' = 1 /\ early' = FALSE
    /\ exceptions' = {} /\ bitmap' = {}
    /\ entryLoad' = [m \in Listed |-> Zero] /\ exitLoad' = entryLoad'
    /\ exitStore' = entryLoad' /\ guest' = entryLoad'
    /\ seen' = <<MSR_IA32_APIC_BASE, FixedBase>>
    /\ UNCHANGED <<moduleVars, allocated, ptr, current, msr>>

\* relm_vm_add_vcpu, one allocation at a time.
AddVcpu ==
    /\ pc = "add_vcpu"
    /\ \/ Alloc /\ life' = "create" /\ UNCHANGED moduleVars
       \/ Alloc /\ life' = "ready" /\ relm_vm_add_vcpu /\ pc' = "run"
       \/ AllocationFails /\ relm_vm_add_vcpu /\ pc' = "destroy"

\* The vCPU thread: vmx_vcpu_init, then the guest.
VcpuThread ==
    /\ thread = "running" /\ fault = "none"
    /\ \/ MakeCurrent \/ WriteField \/ VmEntry \/ VmExit
       \/ \E m \in Msrs : ReadMsr(m)
       \/ \E m \in Msrs, v \in Writes : WriteMsr(m, v)
    /\ UNCHANGED moduleVars

VcpuThreadEnds == ThreadEnds /\ (InitFails \/ LoopEnds)

\* Mutant: relm_destroy_vm forgets the vCPU that never ran.
DestroyVm_Mut ==
    /\ relm_destroy_vm
    /\ IF life = "ended" THEN relm_vcpu_free ELSE UNCHANGED vcpuVars

\* relm_destroy_vm frees the vCPU if relm_vm_add_vcpu has left one.
DestroyVm ==
    /\ relm_destroy_vm
    /\ IF life \in {"ready", "ended"} THEN relm_vcpu_free ELSE UNCHANGED vcpuVars

LifetimeNext ==
    Elsewhere \/ NewVcpu \/ AddVcpu \/ VcpuThread \/ VcpuThreadEnds \/ DestroyVm

LifetimeSpec == LifetimeInit /\ [][LifetimeNext]_lifetimeVars

----------------------------------------------------------------------------
(* Properties. *)

\* Whatever the VMCS refers to stays allocated while it is current, the VM
\* with its EPT and RAM included, and so does all the vCPU thread uses; the
\* VMCS is current only while that thread runs, with every CPU that has a
\* host_cpu still in VMX operation: no VMXOFF, no free and no relm_destroy_vm
\* comes before vmx_vcpu_destroy.
RunsOnLiveState ==
    /\ VmcsRefersToLiveMemory /\ ThreadUsesOnlyOwned /\ VmxHeldWhileRunning
    /\ current => thread = "running"

\* Loading that fails at any step, and unloading after any run, put everything
\* back: VMX operation on the CPUs, the VM but its two known leaks, and every
\* block of the vCPU, whether it ran, failed to start or was never completed.
EverythingReturned ==
    /\ UnloadRestores /\ NothingLeaked
    /\ pc = "unloaded" => allocated = {}
    /\ "vcpu" \in owned <=> allocated = Blocks
=============================================================================
