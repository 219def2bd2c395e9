-------------------------- MODULE ModuleLifecycle --------------------------
(***************************************************************************)
(* Loading and unloading relm.ko: relm_module_init brings every online CPU *)
(* into VMX operation, creates the VM, its IOMMU domain and its vCPU and   *)
(* starts it; any step may fail and unwinds what came before;              *)
(* relm_module_exit takes everything down again.                           *)
(*                                                                         *)
(* The steps of the loading thread interleave with the per-CPU handlers of *)
(* on_each_cpu, with the vCPU thread and with CPUs that come online.  An   *)
(* invalid access of the kernel (a VMXOFF outside VMX operation, a walk of *)
(* an uninitialised list) is recorded in "fault" and ends the behaviour.   *)
(***************************************************************************)
EXTENDS Integers, FiniteSets

CONSTANT N            \* number of possible CPUs

ASSUME NAssumption == N \in Nat \ {0}

Cpus == 0 .. (N - 1)

VARIABLES
    online,    \* cpu_online_mask
    hcpu,      \* the CPUs whose relm_per_cpu_hcpu is set (VMXON region included)
    vmxe,      \* the CPUs with CR4.VMXE set
    vmxroot,   \* the CPUs in VMX root operation
    ipi,       \* the CPUs that still have to run the handler of on_each_cpu
    failed,    \* work.failed_cpus
    at,        \* cursor of for_each_online_cpu
    owned,     \* the objects allocated and not yet freed
    devices,   \* vm->arch.iommu.devices has been initialised
    thread,    \* the vCPU thread: "none", "running" or "ended"
    pc,        \* where the loading thread is
    fault      \* "none", or the invalid operation that was executed

cpuVars == <<hcpu, vmxe, vmxroot, ipi, failed, at>>
moduleVars == <<online, cpuVars, owned, devices, thread, pc, fault>>

\* What relm_vcpu_create and vmx_vcpu_alloc acquire, in order.
VcpuParts == <<"vcpu", "stack", "apic", "vmcs", "io_bitmap", "msr_bitmap",
               "msr_areas">>
PartSet == {VcpuParts[i] : i \in 1 .. 7}
VmParts == {"vm", "ept", "ram", "vcpus"}
Objects == VmParts \cup PartSet \cup {"pdev", "domain"}

\* The points of relm_module_init and relm_module_exit.
LoadPcs == {"alloc", "enable", "pdev", "create", "iommu", "boot", "iommu_map",
            "add_vcpu", "run"}
UnloadPcs == {"stop", "dump", "destroy", "unregister", "disable"}
Pcs == LoadPcs \cup UnloadPcs \cup {"unloaded", "loaded"}

\* Type invariant. The state of module, VM and CPUs.
ModuleTypeOK ==
    /\ online \in SUBSET Cpus /\ hcpu \in SUBSET Cpus
    /\ vmxe \in SUBSET Cpus /\ vmxroot \in SUBSET Cpus /\ ipi \in SUBSET Cpus
    /\ failed \in 0 .. N /\ at \in 0 .. N
    /\ owned \in SUBSET Objects /\ devices \in BOOLEAN
    /\ thread \in {"none", "running", "ended"}
    /\ pc \in Pcs /\ fault \in {"none", "vmxoff", "list_walk"}

ModuleInit ==
    /\ online \in (SUBSET Cpus) \ {{}}
    /\ hcpu = {} /\ vmxe = {} /\ vmxroot = {} /\ ipi = {}
    /\ failed = 0 /\ at = 0
    /\ owned = {} /\ devices = FALSE /\ thread = "none"
    /\ pc = "unloaded" /\ fault = "none"

\* The loading thread moves on and touches no per-CPU state.
GoOn(from, to) ==
    /\ pc = from /\ pc' = to /\ fault = "none"
    /\ UNCHANGED <<online, cpuVars, fault>>

\* on_each_cpu: every CPU online now has to run the handler.
OnEachCpu(to) ==
    /\ pc' = to /\ ipi' = online /\ failed' = 0
    /\ UNCHANGED <<online, hcpu, vmxe, vmxroot, at, owned, devices, thread,
                   fault>>

-----------------------------------------------------------------------------
(* relm_vmx_enable_on_all_cpus and relm_vmx_disable_on_all_cpus.            *)

\* relm_module_init on a CPU with VMX support; without it nothing happens.
Insmod ==
    /\ pc = "unloaded" /\ fault = "none"
    /\ pc' = "alloc" /\ at' = 0
    /\ UNCHANGED <<online, hcpu, vmxe, vmxroot, ipi, failed, owned, devices,
                   thread, fault>>

\* The CPU for_each_online_cpu visits next.
IsNext(c) == c \in online /\ c >= at /\ \A d \in online : d >= at => c <= d

\* kzalloc and relm_setup_vmxon_region succeed for the next online CPU.
AllocHcpu ==
    /\ pc = "alloc" /\ fault = "none"
    /\ \E c \in online : IsNext(c) /\ hcpu' = hcpu \cup {c} /\ at' = c + 1
    /\ UNCHANGED <<online, vmxe, vmxroot, ipi, failed, owned, devices, thread,
                   pc, fault>>

\* One of them fails: _cleanup.
AllocFails ==
    /\ pc = "alloc" /\ fault = "none"
    /\ \E c \in online : IsNext(c)
    /\ OnEachCpu("disable")

AllocDone ==
    /\ pc = "alloc" /\ fault = "none"
    /\ \A c \in online : c < at
    /\ OnEachCpu("enable")

\* Mutant: relm_vmx_enable_cpu goes on after the feature-control test failed
\* and counts the CPU twice.
EnableCpu_Mut(c, ok) ==
    /\ pc = "enable" /\ fault = "none" /\ c \in ipi
    /\ ipi' = ipi \ {c}
    /\ \/ /\ c \in hcpu /\ ok
          /\ vmxroot' = vmxroot \cup {c} /\ UNCHANGED failed
       \/ /\ ~(c \in hcpu /\ ok)
          /\ failed' = failed + 2 /\ UNCHANGED vmxroot
    /\ vmxe' = vmxe \cup ({c} \cap hcpu)
    /\ UNCHANGED <<online, hcpu, at, owned, devices, thread, pc, fault>>

\* relm_vmx_enable_cpu on CPU c; "ok" is the outcome of the feature-control
\* test and of VMXON.
EnableCpu(c, ok) ==
    /\ pc = "enable" /\ fault = "none" /\ c \in ipi
    /\ ipi' = ipi \ {c}
    /\ \/ /\ c \in hcpu /\ ok
          /\ vmxroot' = vmxroot \cup {c} /\ UNCHANGED failed
       \/ /\ ~(c \in hcpu /\ ok)
          /\ failed' = failed + 1 /\ UNCHANGED vmxroot
    /\ vmxe' = vmxe \cup ({c} \cap hcpu)
    /\ UNCHANGED <<online, hcpu, at, owned, devices, thread, pc, fault>>

\* Mutant: the number of failed CPUs is not looked at.
EnableDone_Mut ==
    /\ ipi = {} /\ GoOn("enable", "pdev")
    /\ UNCHANGED <<owned, devices, thread>>

EnableDone ==
    /\ pc = "enable" /\ fault = "none" /\ ipi = {}
    /\ \/ failed = 0 /\ GoOn("enable", "pdev")
          /\ UNCHANGED <<owned, devices, thread>>
       \/ failed > 0 /\ OnEachCpu("disable")

\* relm_vmx_disable_cpu: VMXOFF runs on every CPU that has a host_cpu; it is
\* an invalid opcode on a CPU that is not in VMX operation.
DisableCpu(c) ==
    /\ pc = "disable" /\ fault = "none" /\ c \in ipi
    /\ ipi' = ipi \ {c}
    /\ vmxroot' = vmxroot \ ({c} \cap hcpu)
    /\ vmxe' = IF c \in hcpu \cap vmxroot THEN vmxe \ {c} ELSE vmxe
    /\ fault' = IF c \in hcpu \ vmxroot THEN "vmxoff" ELSE fault
    /\ UNCHANGED <<online, hcpu, failed, at, owned, devices, thread, pc>>

\* Mutant: the per-CPU pointers keep their values.
FreeHcpus_Mut ==
    /\ pc = "disable" /\ fault = "none" /\ ipi = {}
    /\ pc' = "unloaded"
    /\ UNCHANGED <<online, hcpu, vmxe, vmxroot, ipi, failed, at, owned, devices,
                   thread, fault>>

\* The loop after the handlers frees the regions of the online CPUs.
FreeHcpus ==
    /\ pc = "disable" /\ fault = "none" /\ ipi = {}
    /\ hcpu' = hcpu \ online
    /\ pc' = "unloaded"
    /\ UNCHANGED <<online, vmxe, vmxroot, ipi, failed, at, owned, devices,
                   thread, fault>>

-----------------------------------------------------------------------------
(* The rest of relm_module_init.                                           *)

RegisterPdev ==
    \/ /\ GoOn("pdev", "create")
       /\ owned' = owned \cup {"pdev"}
       /\ UNCHANGED <<devices, thread>>
    \/ pc = "pdev" /\ fault = "none" /\ OnEachCpu("disable")

\* What relm_create_vm leaves allocated when it fails: nothing, except that
\* the guest RAM stays when the guest page tables cannot be built.
CreateLeftover == {{}, {"ram"}}

\* Mutant: the NULL that relm_create_vm returns is not looked at.
relm_create_vm_Mut ==
    /\ GoOn("create", "iommu")
    /\ owned' \in {owned, owned \cup VmParts}
    /\ UNCHANGED <<devices, thread>>

relm_create_vm ==
    \/ GoOn("create", "iommu") /\ owned' = owned \cup VmParts
       /\ UNCHANGED <<devices, thread>>
    \/ GoOn("create", "unregister")
       /\ \E left \in CreateLeftover : owned' = owned \cup left
       /\ UNCHANGED <<devices, thread>>

\* A failure of relm_iommu_init is not fatal.
relm_iommu_init ==
    /\ GoOn("iommu", "boot")
    /\ \/ owned' = owned \cup {"domain"} /\ devices' = TRUE
       \/ UNCHANGED <<owned, devices>>
    /\ UNCHANGED thread

relm_boot_load ==
    /\ \E to \in {"iommu_map", "destroy"} : GoOn("boot", to)
    /\ UNCHANGED <<owned, devices, thread>>

relm_iommu_map_guest_ram ==
    /\ \/ GoOn("iommu_map", "add_vcpu")
       \/ devices /\ GoOn("iommu_map", "destroy")
    /\ UNCHANGED <<owned, devices, thread>>

\* What the labels of vmx_vcpu_alloc and relm_vcpu_create free when the k-th
\* acquisition fails.
Unwound(k) == {VcpuParts[i] : i \in 1 .. (k - 1)}

relm_vm_add_vcpu ==
    \/ GoOn("add_vcpu", "run") /\ owned' = owned \cup PartSet
       /\ UNCHANGED <<devices, thread>>
    \/ GoOn("add_vcpu", "destroy")
       /\ \E k \in 1 .. 7 :
            owned' = (owned \cup {VcpuParts[i] : i \in 1 .. (k - 1)}) \ Unwound(k)
       /\ UNCHANGED <<devices, thread>>

relm_run_vm ==
    \/ GoOn("run", "loaded") /\ thread' = "running"
       /\ UNCHANGED <<owned, devices>>
    \/ GoOn("run", "destroy") /\ UNCHANGED <<owned, devices, thread>>

-----------------------------------------------------------------------------
(* relm_module_exit, and the end of a failed relm_module_init.              *)

Rmmod == GoOn("loaded", "stop") /\ UNCHANGED <<owned, devices, thread>>

\* kthread_stop waits for the thread.
relm_stop_vm ==
    /\ thread # "running"
    /\ GoOn("stop", "dump")
    /\ UNCHANGED <<owned, devices, thread>>

\* list_empty on a list head that was never initialised is false.
relm_iommu_dump_stats ==
    \/ devices /\ GoOn("dump", "destroy") /\ UNCHANGED <<owned, devices, thread>>
    \/ /\ pc = "dump" /\ ~devices /\ fault = "none"
       /\ fault' = "list_walk"
       /\ UNCHANGED <<online, cpuVars, owned, devices, thread, pc>>

\* The vCPU first (after kthread_stop), then the RAM, the EPT and the VM; the
\* IOMMU domain is not touched.
relm_destroy_vm ==
    /\ thread # "running"
    /\ GoOn("destroy", "unregister")
    /\ owned' = owned \ (VmParts \cup
                         IF "vcpu" \in owned THEN PartSet ELSE {})
    /\ devices' = FALSE
    /\ thread' = "none"

UnregisterPdev ==
    /\ pc = "unregister" /\ fault = "none"
    /\ pc' = "disable" /\ ipi' = online /\ failed' = 0
    /\ owned' = owned \ {"pdev"}
    /\ UNCHANGED <<online, hcpu, vmxe, vmxroot, at, devices, thread, fault>>

-----------------------------------------------------------------------------
\* The vCPU thread ends, by itself or because it was told to.
ThreadEnds ==
    /\ thread = "running" /\ fault = "none"
    /\ thread' = "ended"
    /\ UNCHANGED <<online, cpuVars, owned, devices, pc, fault>>

\* A CPU comes online, never between the mask and the handlers of on_each_cpu.
CpuOnline(c) ==
    /\ c \notin online /\ ipi = {} /\ fault = "none"
    /\ online' = online \cup {c}
    /\ UNCHANGED <<cpuVars, owned, devices, thread, pc, fault>>

Loading ==
    \/ AllocHcpu \/ AllocFails \/ AllocDone \/ EnableDone
    \/ \E c \in Cpus, ok \in BOOLEAN : EnableCpu(c, ok)
    \/ RegisterPdev \/ relm_create_vm \/ relm_iommu_init \/ relm_boot_load
    \/ relm_iommu_map_guest_ram \/ relm_vm_add_vcpu \/ relm_run_vm

Unloading ==
    \/ relm_stop_vm \/ relm_iommu_dump_stats \/ relm_destroy_vm
    \/ UnregisterPdev \/ FreeHcpus
    \/ \E c \in Cpus : DisableCpu(c)

ModuleNext ==
    \/ Insmod \/ Rmmod \/ Loading \/ Unloading \/ ThreadEnds
    \/ \E c \in Cpus : CpuOnline(c)

ModuleSpec == ModuleInit /\ [][ModuleNext]_moduleVars

-----------------------------------------------------------------------------
(* Properties.                                                             *)

\* While the vCPU thread runs, the VM and everything the vCPU uses are
\* allocated (relm_stop_vm before relm_destroy_vm).
ThreadUsesOnlyOwned == thread = "running" => (VmParts \cup PartSet) \subseteq owned

\* While the vCPU thread runs, exactly the CPUs that have a host_cpu are in
\* VMX operation, whichever CPUs came online since the module was loaded.
VmxHeldWhileRunning == thread = "running" => hcpu = vmxroot /\ hcpu # {}

\* A module that is not loaded, and that met no fault, has left no CPU in VMX
\* operation, no CR4.VMXE set and no per-CPU region.
CpusRestored ==
    pc = "unloaded" /\ fault = "none" => vmxroot = {} /\ vmxe = {} /\ hcpu = {}

\* Of all that relm_module_init allocates, a failed load or an unload leaves at
\* most the guest RAM and the IOMMU domain behind.
OnlyKnownLeaks == pc = "unloaded" => owned \subseteq {"ram", "domain"}

\* Loading that fails, and unloading, put everything back but these two,
\* whichever step failed and whichever CPU came online in between.
UnloadRestores == CpusRestored /\ OnlyKnownLeaks

----------------------------------------------------------------------------
(* Claims of comments and documents that the code does not meet. *)

\* docs/architecure.md:551: "One `host_cpu` exists per online CPU for the
\* entire lifetime of the module."
HostCpuPerOnlineCpu == pc = "loaded" => hcpu = online

\* docs/architecure.md:406: VMXOFF is used to "Exit VMX root operation".
VmxoffOnlyInVmxRoot == fault # "vmxoff"

\* src/core/relm.c:83, on a failed relm_iommu_init: "Not fatal."
MissingIommuIsNotFatal == fault # "list_walk"

\* FIXES.md:322 calls _out_free_mmu "the correct cleanup at that failure point"
\* of relm_create_vm.
FailedCreateFreesRam == pc = "unloaded" => "ram" \notin owned

\* FIXES.md:335: relm_iommu_destroy no longer leaks the domain.
DomainReleased == pc = "unloaded" => "domain" \notin owned

=============================================================================
