-------------------------- MODULE VmLifetimeProofs --------------------------
(***************************************************************************)
(* Proofs of VmLifetime for any number of CPUs, any MSRs and any values:   *)
(* the composition behaves towards the module as ModuleLifecycle says, the *)
(* guest runs only on live state, exactly the MSR reads relm names exit,   *)
(* and unloading returns everything.                                       *)
(***************************************************************************)
EXTENDS VmLifetime, FiniteSetTheorems, TLAPS

----------------------------------------------------------------------------
(* The module, the VM and the vCPU. *)

\* The points at which every CPU with a host_cpu is in VMX operation.
VmxPcs == (LoadPcs \ {"alloc", "enable"}) \cup (UnloadPcs \ {"disable"}) \cup {"loaded"}

\* The per-CPU state: CR4.VMXE and VMX operation are only on CPUs that have a
\* host_cpu, and how far they are switched on or off at each point.
CpuInv ==
    /\ online # {} /\ online \subseteq Cpus /\ ipi \subseteq online
    /\ hcpu \subseteq online /\ vmxe \subseteq hcpu /\ vmxroot \subseteq vmxe
    /\ failed \in Nat /\ at \in Nat /\ pc \in Pcs
    /\ fault # "none" => pc \in {"disable", "dump"}
    /\ pc = "unloaded" => hcpu = {}
    /\ pc = "alloc" => vmxe = {} /\ (at > 0 => hcpu # {})
    /\ pc = "enable" => hcpu # {} /\ (failed = 0 => hcpu \ ipi \subseteq vmxroot)
    /\ pc \in VmxPcs => hcpu # {} /\ hcpu = vmxroot
    /\ pc = "disable" /\ fault = "none" => vmxe \subseteq ipi

\* What is allocated at each point, and where the vCPU thread can be running.
OwnInv ==
    /\ pc \in Pcs
    /\ thread \in {"none", "running", "ended"}
    /\ thread = "running" => pc \in {"loaded", "stop"}
    /\ pc \in {"unloaded", "alloc", "enable", "pdev", "disable"}
         => owned \subseteq {"ram", "domain"}
    /\ pc \in {"create", "unregister"} => owned \subseteq {"ram", "domain", "pdev"}
    /\ pc \in {"iommu", "boot", "iommu_map", "add_vcpu", "run", "loaded", "stop", "dump"}
         => VmParts \subseteq owned
    /\ pc \in {"run", "loaded", "stop", "dump"} => PartSet \subseteq owned
    /\ pc \in {"iommu", "boot", "iommu_map", "add_vcpu"} => owned \cap PartSet = {}
    /\ "vcpu" \notin owned => owned \cap PartSet = {}
    /\ owned \subseteq Objects

\* The blocks the first k - 1 allocations of Phase 1 return.
Acquired(k) == {Allocations[i] : i \in 1 .. (k - 1)}

\* The vCPU against the module: when it exists, what it has allocated and
\* when its VMCS may be current.
LifeInv ==
    /\ life \in {"create", "ready", "init", "host", "guest", "ended", "gone"}
    /\ life = "create" => /\ progress \in 1 .. 10
                          /\ ptr = Acquired(progress) /\ allocated = Acquired(progress)
    /\ life = "gone" => ptr = {} /\ allocated = {}
    /\ life \notin {"create", "gone"} => ptr = Blocks /\ allocated = Blocks
    /\ current => life \in {"init", "host", "guest"}
    /\ life \in {"init", "host", "guest"} => thread = "running"
    /\ "vcpu" \in owned <=> life \notin {"create", "gone"}
    /\ pc # "add_vcpu" /\ life = "create" => progress = 1

IInv == CpuInv /\ OwnInv /\ LifeInv

----------------------------------------------------------------------------
(* The composition makes only steps of ModuleLifecycle. *)

\* Whatever the vCPU does, the module makes a step of its own or none.
LEMMA LifetimeStepIsModuleStep == [LifetimeNext]_lifetimeVars => [ModuleNext]_moduleVars
<1> SUFFICES ASSUME [LifetimeNext]_lifetimeVars PROVE [ModuleNext]_moduleVars
  BY Zenon
<1>1. CASE Elsewhere
  BY Zenon, <1>1 DEF Elsewhere, ModuleNext, Loading, Unloading
<1>2. CASE NewVcpu
  BY Zenon, <1>2 DEF NewVcpu
<1>3. CASE AddVcpu
  BY Zenon, <1>3 DEF AddVcpu, ModuleNext, Loading
<1>4. CASE VcpuThread
  BY Zenon, <1>4 DEF VcpuThread
<1>5. CASE VcpuThreadEnds
  BY Zenon, <1>5 DEF VcpuThreadEnds, ModuleNext
<1>6. CASE DestroyVm
  BY Zenon, <1>6 DEF DestroyVm, ModuleNext, Unloading
<1>7. CASE UNCHANGED lifetimeVars
  BY Zenon, <1>7 DEF lifetimeVars
<1> QED
  BY Zenon, <1>1, <1>2, <1>3, <1>4, <1>5, <1>6, <1>7 DEF LifetimeNext

\* VmLifetime implements ModuleLifecycle: taking relm_vm_add_vcpu, the vCPU
\* thread and relm_destroy_vm apart adds no behaviour of the module.
THEOREM ImplementsModule == LifetimeSpec => ModuleSpec
<1>1. LifetimeInit => ModuleInit
  BY SMTT(30) DEF LifetimeInit
<1> QED
  BY <1>1, LifetimeStepIsModuleStep, PTL DEF LifetimeSpec, ModuleSpec

----------------------------------------------------------------------------
(* The module. *)

\* Each step of the loading thread, of a per-CPU handler or of a CPU coming
\* online keeps the per-CPU state in order.
LEMMA CpuStep == CpuInv /\ [ModuleNext]_moduleVars => CpuInv'
<1> SUFFICES ASSUME CpuInv, [ModuleNext]_moduleVars PROVE CpuInv'
  BY Zenon
<1> USE DEF CpuInv, Pcs, LoadPcs, UnloadPcs, VmxPcs
<1>1. CASE Insmod
  BY <1>1 DEF Insmod
<1>2. CASE AllocHcpu
  <2> PICK c \in online : hcpu' = hcpu \cup {c} /\ at' = c + 1
    BY Zenon, <1>2 DEF AllocHcpu
  <2>1. c \in Nat
    BY NAssumption DEF Cpus
  <2> QED
    BY <1>2, <2>1 DEF AllocHcpu
<1>3. CASE AllocFails
  BY Zenon, <1>3 DEF AllocFails, OnEachCpu
<1>4. CASE AllocDone
  <2>1. at > 0
    <3> PICK c \in online : TRUE
      BY Zenon
    <3>1. c \in Nat /\ c < at /\ at \in Nat
      BY <1>4, NAssumption DEF AllocDone, Cpus
    <3> QED
      BY ONLY <3>1
  <2> QED
    BY Zenon, <1>4, <2>1 DEF AllocDone, OnEachCpu
<1>5. ASSUME NEW c \in Cpus, NEW ok \in BOOLEAN, EnableCpu(c, ok) PROVE CpuInv'
  <2>1. CASE c \in hcpu /\ ok
    BY Zenon, <1>5, <2>1 DEF EnableCpu
  <2>2. CASE ~(c \in hcpu /\ ok)
    <3>1. failed' \in Nat /\ failed' # 0
      BY <1>5, <2>2 DEF EnableCpu
    <3> QED
      BY Zenon, <1>5, <2>2, <3>1 DEF EnableCpu
  <2> QED
    BY Zenon, <2>1, <2>2
<1>6. CASE EnableDone
  BY <1>6 DEF EnableDone, GoOn, OnEachCpu, cpuVars
<1>7. ASSUME NEW c \in Cpus, DisableCpu(c) PROVE CpuInv'
  BY Zenon, <1>7 DEF DisableCpu
<1>8. CASE FreeHcpus
  BY Zenon, <1>8 DEF FreeHcpus
<1>9. CASE RegisterPdev
  BY <1>9 DEF RegisterPdev, GoOn, OnEachCpu, cpuVars
<1>10. CASE relm_create_vm \/ relm_iommu_init \/ relm_boot_load
  BY Zenon, <1>10 DEF relm_create_vm, relm_iommu_init, relm_boot_load, GoOn, cpuVars
<1>11. CASE relm_iommu_map_guest_ram \/ relm_vm_add_vcpu \/ relm_run_vm
  BY Zenon, <1>11 DEF relm_iommu_map_guest_ram, relm_vm_add_vcpu, relm_run_vm, GoOn, cpuVars
<1>12. CASE Rmmod \/ relm_stop_vm \/ relm_iommu_dump_stats \/ relm_destroy_vm
  BY Zenon, <1>12 DEF Rmmod, relm_stop_vm, relm_iommu_dump_stats, relm_destroy_vm, GoOn, cpuVars
<1>13. CASE UnregisterPdev
  BY Zenon, <1>13 DEF UnregisterPdev
<1>14. CASE ThreadEnds
  BY Zenon, <1>14 DEF ThreadEnds, cpuVars
<1>15. ASSUME NEW c \in Cpus, CpuOnline(c) PROVE CpuInv'
  BY Zenon, <1>15 DEF CpuOnline, cpuVars
<1>16. CASE UNCHANGED moduleVars
  BY SMTT(30), <1>16 DEF moduleVars, cpuVars
<1> QED
  BY Zenon, <1>1, <1>2, <1>3, <1>4, <1>5, <1>6, <1>7, <1>8, <1>9, <1>10, <1>11, <1>12,
     <1>13, <1>14, <1>15, <1>16 DEF ModuleNext, Loading, Unloading

\* Each step allocates and frees in the order of the points.
LEMMA OwnStep == OwnInv /\ [ModuleNext]_moduleVars => OwnInv'
<1> SUFFICES ASSUME OwnInv, [ModuleNext]_moduleVars PROVE OwnInv'
  BY Zenon
<1>p. PartSet = {"vcpu", "stack", "apic", "vmcs", "io_bitmap", "msr_bitmap", "msr_areas"}
  BY DEF PartSet, VcpuParts
<1> USE DEF OwnInv, Pcs, LoadPcs, UnloadPcs, VmParts, Objects
<1>1. CASE Insmod \/ AllocHcpu \/ AllocFails \/ AllocDone \/ EnableDone
  BY Zenon, <1>1, <1>p DEF Insmod, AllocHcpu, AllocFails, AllocDone, EnableDone, OnEachCpu, GoOn
<1>2. ASSUME NEW c \in Cpus, NEW ok \in BOOLEAN, EnableCpu(c, ok) PROVE OwnInv'
  BY Zenon, <1>2, <1>p DEF EnableCpu
<1>3. ASSUME NEW c \in Cpus, DisableCpu(c) \/ CpuOnline(c) PROVE OwnInv'
  BY Zenon, <1>3, <1>p DEF DisableCpu, CpuOnline
<1>4. CASE RegisterPdev \/ FreeHcpus \/ UnregisterPdev
  BY Zenon, <1>4, <1>p DEF RegisterPdev, FreeHcpus, UnregisterPdev, GoOn, OnEachCpu
<1>5. CASE relm_create_vm
  BY Zenon, <1>5, <1>p DEF relm_create_vm, CreateLeftover, GoOn
<1>6. CASE relm_iommu_init \/ relm_boot_load \/ relm_iommu_map_guest_ram
  BY Zenon, <1>6, <1>p DEF relm_iommu_init, relm_boot_load, relm_iommu_map_guest_ram, GoOn
<1>7. CASE relm_vm_add_vcpu
  <2>1. CASE GoOn("add_vcpu", "run") /\ owned' = owned \cup PartSet /\ thread' = thread
    BY Zenon, <2>1, <1>p DEF GoOn
  <2>2. ASSUME NEW k \in 1 .. 7, GoOn("add_vcpu", "destroy"), thread' = thread,
               owned' = (owned \cup {VcpuParts[i] : i \in 1 .. (k - 1)}) \ Unwound(k)
        PROVE  OwnInv'
    <3>1. owned' \subseteq owned
      BY Zenon, <2>2 DEF Unwound
    <3> QED
      BY Zenon, <2>2, <3>1, <1>p DEF GoOn
  <2> QED
    BY Zenon, <1>7, <2>1, <2>2 DEF relm_vm_add_vcpu
<1>8. CASE relm_run_vm \/ Rmmod \/ relm_stop_vm \/ relm_iommu_dump_stats
  BY Zenon, <1>8, <1>p DEF relm_run_vm, Rmmod, relm_stop_vm, relm_iommu_dump_stats, GoOn
<1>9. CASE relm_destroy_vm
  BY Zenon, <1>9, <1>p DEF relm_destroy_vm, GoOn
<1>10. CASE ThreadEnds
  BY Zenon, <1>10, <1>p DEF ThreadEnds
<1>11. CASE UNCHANGED moduleVars
  BY Zenon, <1>11, <1>p DEF moduleVars
<1> QED
  BY Zenon, <1>1, <1>2, <1>3, <1>4, <1>5, <1>6, <1>7, <1>8, <1>9, <1>10, <1>11
     DEF ModuleNext, Loading, Unloading

----------------------------------------------------------------------------
(* The vCPU. *)

\* The labels of relm_vcpu_create and vmx_vcpu_alloc release whatever was
\* acquired before the failed allocation, and the k-th acquires what is missing.
LEMMA CleanupReleasesAll ==
    ASSUME NEW k \in 1 .. 10
    PROVE  /\ Acquired(k) \subseteq Cleanup(k)
           /\ Acquired(k) \cup {Allocations[k]} = Acquired(k + 1)
           /\ Acquired(k) # Blocks
<1>1. Acquired(k) \subseteq Cleanup(k)
  <2> USE DEF Acquired, Allocations, Cleanup, out_free_vcpu, out_free_stack, free_vapic_page,
              out_free_apic, out_free_vmcs, out_free_io_bitmap, out_free_msr_bitmap,
              out_free_exit_store, out_free_exit_load
  <2>1. CASE k \in 1 .. 5
    BY <2>1
  <2>2. CASE k \in 6 .. 10
    BY <2>2
  <2> QED
    BY <2>1, <2>2
<1>2. Acquired(k) \cup {Allocations[k]} = Acquired(k + 1)
  BY DEF Acquired
<1>3. Acquired(k) # Blocks
  <2>1. "vmentry_load_area" \in Blocks
    BY DEF Blocks, Allocations
  <2>2. \A i \in 1 .. 9 : Allocations[i] # "vmentry_load_area"
    BY DEF Allocations
  <2>3. "vmentry_load_area" \notin Acquired(k)
    BY <2>2 DEF Acquired
  <2> QED
    BY Zenon, <2>1, <2>3
<1> QED
  BY Zenon, <1>1, <1>2, <1>3

\* All ten allocations are the blocks, and vmx_vcpu_free with the labels of
\* relm_vcpu_free names all of them.
LEMMA AllBlocks ==
    /\ Acquired(11) = Blocks /\ Acquired(1) = {}
    /\ Blocks \subseteq vmx_vcpu_free \cup out_free_stack
    /\ Len(Allocations) = 10
<1>1. DOMAIN Allocations = 1 .. 10 /\ Len(Allocations) = 10
  BY DEF Allocations
<1>2. Acquired(11) = Blocks /\ Acquired(1) = {}
  BY <1>1 DEF Acquired, Blocks
<1>3. Blocks \subseteq vmx_vcpu_free \cup out_free_stack
  BY <1>1 DEF Blocks, Allocations, vmx_vcpu_free, out_free_stack, out_free_vcpu
<1> QED
  BY Zenon, <1>1, <1>2, <1>3

\* The steps that touch no vCPU neither give the VM one nor stop its thread.
LEMMA ElsewhereKeeps ==
    Elsewhere => /\ UNCHANGED vcpuVars
                 /\ "vcpu" \in owned' <=> "vcpu" \in owned
                 /\ thread' = thread \/ thread' = "running"
                 /\ pc = "add_vcpu" => pc' = "add_vcpu"
<1> SUFFICES ASSUME Elsewhere
             PROVE  /\ "vcpu" \in owned' <=> "vcpu" \in owned
                    /\ thread' = thread \/ thread' = "running"
                    /\ pc = "add_vcpu" => pc' = "add_vcpu"
  BY Zenon DEF Elsewhere
<1>1. CASE Insmod \/ AllocHcpu \/ AllocFails \/ AllocDone \/ EnableDone
  BY Zenon, <1>1 DEF Insmod, AllocHcpu, AllocFails, AllocDone, EnableDone, OnEachCpu, GoOn
<1>2. CASE \E c \in Cpus, ok \in BOOLEAN : EnableCpu(c, ok)
  BY Zenon, <1>2 DEF EnableCpu
<1>3. CASE \E c \in Cpus : DisableCpu(c) \/ CpuOnline(c)
  BY Zenon, <1>3 DEF DisableCpu, CpuOnline
<1>4. CASE RegisterPdev \/ relm_create_vm \/ relm_iommu_init \/ relm_boot_load
  BY Zenon, <1>4 DEF RegisterPdev, relm_create_vm, CreateLeftover, relm_iommu_init, relm_boot_load,
     GoOn, OnEachCpu, VmParts
<1>5. CASE relm_iommu_map_guest_ram \/ relm_run_vm \/ Rmmod \/ relm_stop_vm
  BY Zenon, <1>5 DEF relm_iommu_map_guest_ram, relm_run_vm, Rmmod, relm_stop_vm, GoOn
<1>6. CASE relm_iommu_dump_stats \/ UnregisterPdev \/ FreeHcpus
  BY Zenon, <1>6 DEF relm_iommu_dump_stats, UnregisterPdev, FreeHcpus, GoOn
<1> QED
  BY Zenon, <1>1, <1>2, <1>3, <1>4, <1>5, <1>6 DEF Elsewhere

\* Each step of the composition keeps the vCPU in step with the module.
LEMMA LifeStep == OwnInv /\ LifeInv /\ [LifetimeNext]_lifetimeVars => LifeInv'
<1> SUFFICES ASSUME OwnInv, LifeInv, [LifetimeNext]_lifetimeVars PROVE LifeInv'
  BY Zenon
<1>1. CASE Elsewhere
  BY <1>1, ElsewhereKeeps DEF LifeInv, vcpuVars, setupVars
<1>2. CASE NewVcpu
  BY <1>2, AllBlocks DEF NewVcpu, LifeInv, moduleVars
<1>3. ASSUME pc = "add_vcpu", Alloc, life' = "create", UNCHANGED moduleVars PROVE LifeInv'
  <2>1. life = "create" /\ progress \in 1 .. 10 /\ progress # 10
    BY Zenon, <1>3, AllBlocks DEF Alloc, LifeInv
  <2>2. progress' = progress + 1 /\ current' = current
        /\ allocated' = Acquired(progress + 1) /\ ptr' = Acquired(progress + 1)
    BY Zenon, <1>3, <2>1, AllBlocks, CleanupReleasesAll DEF Alloc, LifeInv
  <2> QED
    BY <1>3, <2>1, <2>2 DEF LifeInv, moduleVars
<1>4. ASSUME pc = "add_vcpu", Alloc, life' = "ready", relm_vm_add_vcpu, pc' = "run" PROVE LifeInv'
  <2>1. life = "create" /\ progress = 10
    BY Zenon, <1>4, AllBlocks DEF Alloc, LifeInv
  <2>2. current' = current /\ allocated' = Blocks /\ ptr' = Blocks
    BY <1>4, <2>1, AllBlocks, CleanupReleasesAll DEF Alloc, LifeInv
  <2>3. owned' = owned \cup PartSet /\ thread' = thread
    BY Zenon, <1>4 DEF relm_vm_add_vcpu, GoOn
  <2>4. "vcpu" \in PartSet
    BY DEF PartSet, VcpuParts
  <2> QED
    BY Zenon, <1>4, <2>1, <2>2, <2>3, <2>4 DEF LifeInv
<1>5. ASSUME pc = "add_vcpu", AllocationFails, relm_vm_add_vcpu, pc' = "destroy" PROVE LifeInv'
  <2>1. allocated' = {} /\ ptr' = {} /\ life' = "gone" /\ current' = current /\ life = "create"
    BY Zenon, <1>5, CleanupReleasesAll DEF AllocationFails, Release, LifeInv
  <2>2. owned' \subseteq owned
    BY Zenon, <1>5 DEF relm_vm_add_vcpu, GoOn, Unwound
  <2> QED
    BY Zenon, <2>1, <2>2 DEF LifeInv
<1>6. CASE VcpuThread
  <2>1. UNCHANGED <<allocated, ptr, thread, owned, pc>> /\ thread = "running"
    BY Zenon, <1>6 DEF VcpuThread, moduleVars, MakeCurrent, WriteField, VmEntry, VmExit, ReadMsr,
       WriteMsr, setupVars
  <2>2. life \in {"ready", "init", "host", "guest"} /\ life' \in {"init", "host", "guest"}
    BY Zenon, <1>6 DEF VcpuThread, MakeCurrent, WriteField, VmEntry, VmExit, ReadMsr, WriteMsr
  <2> QED
    BY Zenon, <2>1, <2>2 DEF LifeInv
<1>7. CASE VcpuThreadEnds
  BY Zenon, <1>7 DEF VcpuThreadEnds, ThreadEnds, InitFails, LoopEnds, vmx_vcpu_destroy, LifeInv
<1>8. CASE DestroyVm
  <2>1. thread # "running" /\ owned' \subseteq owned /\ "vcpu" \notin owned' /\ pc' = "unregister"
        /\ pc = "destroy"
    <3>1. "vcpu" \in PartSet
      BY DEF PartSet, VcpuParts
    <3> QED
      BY Zenon, <1>8, <3>1 DEF DestroyVm, relm_destroy_vm, GoOn
  <2>2. CASE life \in {"ready", "ended"}
    <3>1. allocated' = {} /\ ptr' = {} /\ life' = "gone" /\ current' = current
      BY Zenon, <1>8, <2>2, AllBlocks DEF DestroyVm, relm_vcpu_free, Release, LifeInv
    <3> QED
      BY Zenon, <2>1, <2>2, <3>1 DEF LifeInv
  <2>3. CASE life \notin {"ready", "ended"}
    BY Zenon, <1>8, <2>1, <2>3 DEF DestroyVm, LifeInv, vcpuVars, setupVars
  <2> QED
    BY Zenon, <2>2, <2>3
<1>9. CASE UNCHANGED lifetimeVars
  BY Zenon, <1>9 DEF lifetimeVars, moduleVars, vcpuVars, setupVars, LifeInv
<1>10. ASSUME AddVcpu PROVE LifeInv'
  BY Zenon, <1>10, <1>3, <1>4, <1>5 DEF AddVcpu
<1> QED
  BY Zenon, <1>1, <1>2, <1>6, <1>7, <1>8, <1>9, <1>10 DEF LifetimeNext

\* Loading starts from nothing.
LEMMA InitHolds == LifetimeInit => IInv
<1> SUFFICES ASSUME LifetimeInit PROVE IInv
  BY Zenon
<1> USE DEF LifetimeInit, ModuleInit, VcpuInit
<1>1. CpuInv
  BY Zenon DEF CpuInv, Pcs, VmxPcs, LoadPcs, UnloadPcs
<1>2. OwnInv
  BY Zenon DEF OwnInv, Pcs
<1>3. LifeInv
  BY AllBlocks DEF LifeInv
<1> QED
  BY Zenon, <1>1, <1>2, <1>3 DEF IInv

LEMMA InvariantHolds == LifetimeSpec => []IInv
<1>1. IInv /\ [LifetimeNext]_lifetimeVars => IInv'
  BY Zenon, LifetimeStepIsModuleStep, CpuStep, OwnStep, LifeStep DEF IInv
<1> QED
  BY <1>1, InitHolds, PTL DEF LifetimeSpec

----------------------------------------------------------------------------
(* The theorems. *)

\* On any number of CPUs, and with any of them coming online at any time, the
\* guest runs only while its vCPU, its VM and VMX operation are there: stop
\* comes before destroy, VMCLEAR before free, free before VMXOFF.
THEOREM LiveStateSafety == LifetimeSpec => []RunsOnLiveState
<1>1. ASSUME IInv PROVE RunsOnLiveState
  <2> USE <1>1 DEF IInv
  <2>1. VmcsRefersToLiveMemory
    <3>1. \A f : Refers(f) \subseteq Blocks /\ "vmcs" \in Blocks
      BY DEF Refers, Blocks, Allocations
    <3> QED
      BY Zenon, <3>1 DEF LifeInv, VmcsRefersToLiveMemory
  <2>2. ThreadUsesOnlyOwned
    BY Zenon DEF OwnInv, ThreadUsesOnlyOwned
  <2>3. VmxHeldWhileRunning
    BY Zenon DEF OwnInv, CpuInv, VmxPcs, LoadPcs, UnloadPcs, VmxHeldWhileRunning
  <2>4. current => thread = "running"
    BY Zenon DEF LifeInv
  <2> QED
    BY Zenon, <2>1, <2>2, <2>3, <2>4 DEF RunsOnLiveState
<1> QED
  BY <1>1, InvariantHolds, PTL

\* However loading failed, and whatever ran before unloading, every CPU is out
\* of VMX operation and every allocation but the two known leaks is returned.
THEOREM UnloadSafety == LifetimeSpec => []EverythingReturned
<1>1. ASSUME IInv PROVE EverythingReturned
  <2> USE <1>1 DEF IInv
  <2>1. UnloadRestores
    BY Zenon DEF CpuInv, OwnInv, UnloadRestores, CpusRestored, OnlyKnownLeaks
  <2>2. NothingLeaked
    BY Zenon DEF LifeInv, NothingLeaked
  <2>3. ~("vcpu" \in owned) => allocated # Blocks
    BY CleanupReleasesAll, AllBlocks DEF LifeInv
  <2>4. "vcpu" \in owned => allocated = Blocks
    BY Zenon DEF LifeInv
  <2>5. pc = "unloaded" => allocated = {}
    BY Zenon, AllBlocks DEF LifeInv, OwnInv
  <2> QED
    BY Zenon, <2>1, <2>2, <2>3, <2>4, <2>5 DEF EverythingReturned
<1> QED
  BY <1>1, InvariantHolds, PTL

----------------------------------------------------------------------------
(* The MSRs the guest sees. *)

\* The bitmap has its bits from the allocation of its page on, and what the
\* guest last read of the APIC base is relm's value.
MsrInv ==
    /\ life = "create" /\ progress > 7 => bitmap = relm_setup_msr_bitmap
    /\ life \notin {"create", "gone"} => bitmap = relm_setup_msr_bitmap
    /\ ApicBaseIsVirtual

\* The bits relm_msr_bitmap_set sets are those the processor looks up.
LEMMA BitmapExact ==
    ASSUME bitmap = relm_setup_msr_bitmap, NEW m \in Msrs, NEW a \in {"read", "write"}
    PROVE  Intercepted(m, a) <=>
             \/ m[1] = "out"
             \/ a = "read" /\ m \in {IA32_SYSENTER_CS, MSR_IA32_APIC_BASE}
<1>1. bitmap = {<<46, 4>>, <<3, 3>>}
  <2>1. relm_msr_bitmap_set(IA32_SYSENTER_CS, {"read"}) = {<<46, 4>>}
    BY DEF relm_msr_bitmap_set, IA32_SYSENTER_CS
  <2>2. relm_msr_bitmap_set(MSR_IA32_APIC_BASE, {"read"}) = {<<3, 3>>}
    BY DEF relm_msr_bitmap_set, MSR_IA32_APIC_BASE
  <2> QED
    BY Zenon, <2>1, <2>2 DEF relm_setup_msr_bitmap
<1>2. PICK h \in {"low", "high", "out"}, n \in MsrNumbers : m = <<h, n>>
  <2>1. m \in {"low", "high", "out"} \X MsrNumbers
    BY Zenon, MsrsAssumption
  <2> QED
    BY <2>1
<1>h. h \in {"low", "high", "out"} /\ n \in MsrNumbers
  BY Zenon, <1>2
<1>n. n \in Nat /\ n <= 8191
  <2>1. MsrTop \in Nat
    BY DEF MsrTop
  <2>2. n \in Nat /\ n <= MsrTop
    BY ONLY <1>h, <2>1 DEF MsrNumbers
  <2> QED
    BY ONLY <2>2 DEF MsrTop
<1>m. m = <<h, n>>
  BY Zenon, <1>2
<1>3. m[1] = h /\ m[2] = n
  BY Zenon, <1>m
<1>4. n \div 8 \in 0 .. 1023 /\ n % 8 \in 0 .. 7 /\ n = 8 * (n \div 8) + (n % 8)
  BY <1>n
<1>5. CASE h = "out"
  BY <1>3, <1>5 DEF Intercepted
<1>6. CASE h = "low" /\ a = "read"
  <2>1. Intercepted(m, a) <=> <<n \div 8, n % 8>> \in bitmap
    BY <1>3, <1>6 DEF Intercepted
  <2>2. <<n \div 8, n % 8>> \in bitmap <=> n \in {372, 27}
    BY <1>1, <1>4
  <2> QED
    BY <2>1, <2>2, <1>m, <1>3, <1>6 DEF IA32_SYSENTER_CS, MSR_IA32_APIC_BASE
<1>7. CASE h = "high" /\ a = "read"
  <2>1. Intercepted(m, a) <=> <<1024 + (n \div 8), n % 8>> \in bitmap
    BY <1>3, <1>7 DEF Intercepted
  <2>2. <<1024 + (n \div 8), n % 8>> \notin bitmap
    BY <1>1, <1>4
  <2> QED
    BY <2>1, <2>2, <1>m, <1>3, <1>7 DEF IA32_SYSENTER_CS, MSR_IA32_APIC_BASE
<1>8. CASE h = "low" /\ a = "write"
  <2>1. Intercepted(m, a) <=> <<2048 + (n \div 8), n % 8>> \in bitmap
    BY <1>3, <1>8 DEF Intercepted
  <2>2. <<2048 + (n \div 8), n % 8>> \notin bitmap
    BY <1>1, <1>4
  <2> QED
    BY <2>1, <2>2, <1>3, <1>8
<1>9. CASE h = "high" /\ a = "write"
  <2>1. Intercepted(m, a) <=> <<3072 + (n \div 8), n % 8>> \in bitmap
    BY <1>3, <1>9 DEF Intercepted
  <2>2. <<3072 + (n \div 8), n % 8>> \notin bitmap
    BY <1>1, <1>4
  <2> QED
    BY <2>1, <2>2, <1>3, <1>9
<1> QED
  BY Zenon, <1>h, <1>5, <1>6, <1>7, <1>8, <1>9

\* A read of the APIC base exits, and handle_msr_read answers it.
LEMMA MsrStep == LifeInv /\ MsrInv /\ [LifetimeNext]_lifetimeVars => MsrInv'
<1> SUFFICES ASSUME LifeInv, MsrInv, [LifetimeNext]_lifetimeVars PROVE MsrInv'
  BY Zenon
<1>k. ASSUME UNCHANGED <<bitmap, seen>>,
             life' = "create" => life = "create" /\ progress' = progress,
             life' \notin {"create", "gone"} => life \notin {"create", "gone"}
      PROVE  MsrInv'
  BY Zenon, <1>k DEF MsrInv, ApicBaseIsVirtual
<1>1. CASE Elsewhere
  BY Zenon, <1>1, <1>k DEF Elsewhere, vcpuVars, setupVars, msrVars
<1>2. CASE NewVcpu
  BY <1>2 DEF NewVcpu, MsrInv, ApicBaseIsVirtual
<1>3. CASE Alloc
  <2>1. /\ life = "create" /\ progress \in 1 .. 10 /\ UNCHANGED seen
        /\ life' = (IF progress = 10 THEN "ready" ELSE "create")
        /\ progress' = (IF progress = 10 THEN 1 ELSE progress + 1)
        /\ bitmap' = IF Allocations[progress] = "msr_bitmap" THEN relm_setup_msr_bitmap ELSE bitmap
    BY Zenon, <1>3, AllBlocks DEF Alloc, LifeInv
  <2>2. Allocations[7] = "msr_bitmap"
    BY Zenon DEF Allocations
  <2>3. CASE progress = 7
    BY Zenon, <2>1, <2>2, <2>3 DEF MsrInv, ApicBaseIsVirtual
  <2>4. CASE progress # 7
    <3>1. Allocations[progress] # "msr_bitmap"
      BY <2>1, <2>4 DEF Allocations
    <3> QED
      BY <2>1, <3>1, <2>4 DEF MsrInv, ApicBaseIsVirtual
  <2> QED
    BY Zenon, <2>3, <2>4
<1>4. ASSUME NEW blocks, Release(blocks) PROVE MsrInv'
  BY Zenon, <1>4, <1>k DEF Release, msrVars
<1>5. CASE MakeCurrent \/ WriteField
  BY Zenon, <1>5, <1>k DEF MakeCurrent, WriteField, msrVars
<1>6. CASE VmEntry \/ VmExit
  BY Zenon, <1>6, <1>k DEF VmEntry, VmExit, setupVars
<1>7. ASSUME NEW m \in Msrs, ReadMsr(m) PROVE MsrInv'
  <2>1. life = "guest" /\ UNCHANGED <<life, bitmap, progress>> /\ bitmap = relm_setup_msr_bitmap
    BY Zenon, <1>7 DEF ReadMsr, setupVars, MsrInv
  <2>2. m = MSR_IA32_APIC_BASE => Intercepted(m, "read")
    BY Zenon, <2>1, BitmapExact
  <2>3. seen' = <<m, FixedBase>> \/ (m # MSR_IA32_APIC_BASE /\ seen'[1] = m)
    BY <1>7, <2>2 DEF ReadMsr, handle_msr_read
  <2> QED
    BY <2>1, <2>3 DEF MsrInv, ApicBaseIsVirtual
<1>8. ASSUME NEW m \in Msrs, NEW v \in Writes, WriteMsr(m, v) PROVE MsrInv'
  BY Zenon, <1>8, <1>k DEF WriteMsr, setupVars
<1>9. CASE vmx_vcpu_destroy /\ life \in {"ready", "init", "host"}
  BY Zenon, <1>9, <1>k DEF vmx_vcpu_destroy, msrVars
<1>10. CASE UNCHANGED vcpuVars
  BY Zenon, <1>10, <1>k DEF vcpuVars, setupVars, msrVars
<1>11. CASE AddVcpu
  BY Zenon, <1>11, <1>3, <1>4 DEF AddVcpu, AllocationFails
<1>12. CASE VcpuThread
  BY Zenon, <1>12, <1>5, <1>6, <1>7, <1>8 DEF VcpuThread
<1>13. CASE VcpuThreadEnds
  BY Zenon, <1>13, <1>9 DEF VcpuThreadEnds, InitFails, LoopEnds
<1>14. CASE DestroyVm
  BY Zenon, <1>14, <1>4, <1>10 DEF DestroyVm, relm_vcpu_free
<1>15. CASE UNCHANGED lifetimeVars
  BY Zenon, <1>15, <1>10 DEF lifetimeVars
<1> QED
  BY Zenon, <1>1, <1>2, <1>11, <1>12, <1>13, <1>14, <1>15 DEF LifetimeNext

\* For every set of MSRs and values, the bits of relm_setup_msr_bitmap make
\* exactly the reads of IA32_SYSENTER_CS and of the APIC base exit, among the
\* MSRs that the bitmap covers, and the guest never reads the APIC base of the
\* host (handle_msr_read).
THEOREM MsrViewSafety == LifetimeSpec => []MsrViewIsVirtual
<1>1. LifetimeInit => MsrInv
  BY DEF LifetimeInit, VcpuInit, MsrInv, ApicBaseIsVirtual
<1>2. IInv /\ MsrInv => MsrViewIsVirtual
  BY Zenon, BitmapExact DEF IInv, LifeInv, MsrInv, MsrViewIsVirtual, ExactIntercepts
<1>3. LifeInv /\ MsrInv /\ [LifetimeNext]_lifetimeVars => MsrInv'
  BY Zenon, MsrStep
<1>4. IInv => LifeInv
  BY Zenon DEF IInv
<1> QED
  BY <1>1, <1>2, <1>3, <1>4, InvariantHolds, PTL DEF LifetimeSpec

\* How far Phase 2 has come, and what it has allocated.
SetupTypes ==
    /\ life \in {"create", "ready", "init", "host", "guest", "ended", "gone"}
    /\ progress \in 1 .. 15
    /\ life = "create" => progress \in 1 .. 10
    /\ life \in {"ready", "init"} => progress \in 1 .. 14
    /\ allocated \subseteq Blocks /\ ptr \subseteq Blocks
    /\ current \in BOOLEAN /\ early \in BOOLEAN /\ exceptions = {}
    /\ bitmap \in {{}, relm_setup_msr_bitmap}

\* The values in the areas and the MSRs.
AreaTypes ==
    /\ entryLoad \in [Listed -> Values] /\ exitLoad \in [Listed -> Values]
    /\ exitStore \in [Listed -> Values] /\ guest \in [Listed -> Values]
    /\ msr \in [Msrs -> Values]
    /\ seen[1] \in Msrs /\ seen[2] \in Values /\ seen = <<seen[1], seen[2]>>

\* The failures counted and the CPUs still to count are at most all CPUs.
ModuleTypes ==
    /\ ModuleTypeOK
    /\ failed + Cardinality(ipi) <= N

LEMMA CpusFinite == IsFiniteSet(Cpus) /\ Cardinality(Cpus) = N
<1>1. 0 \in Int /\ N - 1 \in Int /\ ~(0 > N - 1) /\ (N - 1) - 0 + 1 = N
  BY NAssumption
<1> QED
  BY Zenon, <1>1, FS_Interval DEF Cpus

LEMMA SomeCpus ==
    ASSUME NEW s \in SUBSET Cpus
    PROVE  IsFiniteSet(s) /\ Cardinality(s) \in 0 .. N
<1>1. IsFiniteSet(s) /\ Cardinality(s) <= Cardinality(Cpus) /\ Cardinality(s) \in Nat
  BY Zenon, CpusFinite, FS_Subset, FS_CardinalityType
<1> QED
  BY <1>1, CpusFinite, NAssumption

\* Each CPU counts at most once for each on_each_cpu.
LEMMA ModuleTypeStep == ModuleTypes /\ [ModuleNext]_moduleVars => ModuleTypes'
<1> SUFFICES ASSUME ModuleTypes, [ModuleNext]_moduleVars PROVE ModuleTypes'
  BY Zenon
<1>c. ipi \in SUBSET Cpus /\ Cardinality(ipi) \in Nat /\ N \in Nat
  BY SomeCpus, NAssumption DEF ModuleTypes, ModuleTypeOK
<1>e. ASSUME NEW to \in Pcs, OnEachCpu(to) PROVE ModuleTypes'
  <2>1. Cardinality(online) \in 0 .. N
    BY Zenon, SomeCpus DEF ModuleTypes, ModuleTypeOK
  <2> QED
    BY <1>e, <1>c, <2>1 DEF OnEachCpu, ModuleTypes, ModuleTypeOK
<1>g. ASSUME NEW from, NEW to \in Pcs, GoOn(from, to), owned' \in SUBSET Objects,
             devices' \in BOOLEAN, thread' \in {"none", "running", "ended"}
      PROVE  ModuleTypes'
  BY Zenon, <1>g, <1>c DEF GoOn, cpuVars, ModuleTypes, ModuleTypeOK
<1>o. /\ owned \in SUBSET Objects /\ devices \in BOOLEAN
      /\ thread \in {"none", "running", "ended"}
      /\ VmParts \subseteq Objects /\ PartSet \subseteq Objects /\ "pdev" \in Objects
      /\ "domain" \in Objects /\ "ram" \in Objects
  BY Zenon DEF ModuleTypes, ModuleTypeOK, Objects, VmParts
<1> USE DEF Pcs, LoadPcs, UnloadPcs
<1>1. CASE Insmod
  BY <1>1, <1>c DEF Insmod, ModuleTypes, ModuleTypeOK
<1>2. CASE AllocHcpu
  <2> PICK c \in online : hcpu' = hcpu \cup {c} /\ at' = c + 1
    BY Zenon, <1>2 DEF AllocHcpu
  <2>1. c \in Cpus /\ c + 1 \in 0 .. N
    BY <1>c DEF Cpus, ModuleTypes, ModuleTypeOK
  <2> QED
    BY Zenon, <1>2, <1>c, <2>1 DEF AllocHcpu, ModuleTypes, ModuleTypeOK
<1>3. CASE AllocFails \/ AllocDone
  BY Zenon, <1>3, <1>e DEF AllocFails, AllocDone
<1>4. ASSUME NEW c \in Cpus, NEW ok \in BOOLEAN, EnableCpu(c, ok) PROVE ModuleTypes'
  <2>1. c \in ipi /\ ipi' = ipi \ {c} /\ failed' \in {failed, failed + 1}
    BY Zenon, <1>4 DEF EnableCpu
  <2>2. Cardinality(ipi') = Cardinality(ipi) - 1
    BY Zenon, <1>c, <2>1, SomeCpus, FS_RemoveElement
  <2>3. failed' \in 0 .. N /\ failed' + Cardinality(ipi') <= N
    <3>1. Cardinality(ipi') \in Nat
      BY <1>c, <2>1, SomeCpus
    <3> QED
      BY <1>c, <2>1, <2>2, <3>1 DEF ModuleTypes, ModuleTypeOK
  <2>4. vmxroot' \in SUBSET Cpus /\ vmxe' \in SUBSET Cpus
    BY Zenon, <1>4 DEF EnableCpu, ModuleTypes, ModuleTypeOK
  <2> QED
    BY Zenon, <1>4, <1>c, <2>1, <2>3, <2>4 DEF EnableCpu, ModuleTypes, ModuleTypeOK
<1>5. CASE EnableDone
  BY Zenon, <1>5, <1>e, <1>g, <1>o DEF EnableDone
<1>6. ASSUME NEW c \in Cpus, DisableCpu(c) PROVE ModuleTypes'
  <2>1. c \in ipi /\ ipi' = ipi \ {c} /\ failed' = failed
    BY Zenon, <1>6 DEF DisableCpu
  <2>2. Cardinality(ipi') = Cardinality(ipi) - 1
    BY Zenon, <1>c, <2>1, SomeCpus, FS_RemoveElement
  <2>3. vmxroot' \in SUBSET Cpus /\ vmxe' \in SUBSET Cpus
        /\ fault' \in {"none", "vmxoff", "list_walk"}
    BY Zenon, <1>6 DEF DisableCpu, ModuleTypes, ModuleTypeOK
  <2> QED
    BY <1>6, <1>c, <2>1, <2>2, <2>3 DEF DisableCpu, ModuleTypes, ModuleTypeOK
<1>7. CASE FreeHcpus
  BY Zenon, <1>7, <1>c DEF FreeHcpus, ModuleTypes, ModuleTypeOK
<1>8. CASE RegisterPdev
  BY Zenon, <1>8, <1>e, <1>g, <1>o DEF RegisterPdev
<1>9. CASE relm_create_vm
  BY Zenon, <1>9, <1>g, <1>o DEF relm_create_vm, CreateLeftover
<1>10. CASE relm_iommu_init \/ relm_boot_load \/ relm_iommu_map_guest_ram
  BY Zenon, <1>10, <1>g, <1>o DEF relm_iommu_init, relm_boot_load, relm_iommu_map_guest_ram
<1>11. CASE relm_vm_add_vcpu
  <2>1. owned' \in SUBSET Objects
    BY Zenon, <1>11, <1>o DEF relm_vm_add_vcpu, Unwound
  <2> QED
    BY Zenon, <1>11, <2>1, <1>g, <1>o DEF relm_vm_add_vcpu
<1>12. CASE relm_run_vm \/ Rmmod \/ relm_stop_vm
  BY Zenon, <1>12, <1>g, <1>o DEF relm_run_vm, Rmmod, relm_stop_vm
<1>13. CASE relm_iommu_dump_stats
  <2>1. CASE devices /\ GoOn("dump", "destroy") /\ UNCHANGED <<owned, devices, thread>>
    BY Zenon, <2>1, <1>g, <1>o
  <2>2. CASE fault' = "list_walk" /\ UNCHANGED <<online, cpuVars, owned, devices, thread, pc>>
    BY Zenon, <2>2, <1>c DEF cpuVars, ModuleTypes, ModuleTypeOK
  <2> QED
    BY Zenon, <1>13, <2>1, <2>2 DEF relm_iommu_dump_stats
<1>14. CASE relm_destroy_vm
  <2>1. owned' \in SUBSET Objects
    BY Zenon, <1>14, <1>o DEF relm_destroy_vm
  <2> QED
    BY Zenon, <1>14, <2>1, <1>g DEF relm_destroy_vm
<1>15. CASE UnregisterPdev
  <2>1. Cardinality(online) \in 0 .. N
    BY Zenon, SomeCpus DEF ModuleTypes, ModuleTypeOK
  <2> QED
    BY <1>15, <1>c, <2>1 DEF UnregisterPdev, ModuleTypes, ModuleTypeOK
<1>16. CASE ThreadEnds
  BY Zenon, <1>16, <1>c DEF ThreadEnds, cpuVars, ModuleTypes, ModuleTypeOK
<1>17. ASSUME NEW c \in Cpus, CpuOnline(c) PROVE ModuleTypes'
  BY Zenon, <1>17, <1>c DEF CpuOnline, cpuVars, ModuleTypes, ModuleTypeOK
<1>18. CASE UNCHANGED moduleVars
  BY <1>18, <1>c DEF moduleVars, cpuVars, ModuleTypes, ModuleTypeOK
<1> QED
  BY Zenon, <1>1, <1>2, <1>3, <1>4, <1>5, <1>6, <1>7, <1>8, <1>9, <1>10, <1>11, <1>12,
     <1>13, <1>14, <1>15, <1>16, <1>17, <1>18 DEF ModuleNext, Loading, Unloading

LEMMA FieldsLen == Len(Fields) = 14
  BY Zenon DEF Fields

\* Phase 1 and Phase 2 stay within their lists.
LEMMA SetupTypeStep == SetupTypes /\ [LifetimeNext]_lifetimeVars => SetupTypes'
<1> SUFFICES ASSUME SetupTypes, [LifetimeNext]_lifetimeVars PROVE SetupTypes'
  BY Zenon
<1>k. ASSUME UNCHANGED <<life, allocated, ptr, current, progress, early, exceptions, bitmap>>
      PROVE  SetupTypes'
  BY Zenon, <1>k DEF SetupTypes
<1>1. CASE UNCHANGED vcpuVars
  BY Zenon, <1>1, <1>k DEF vcpuVars, setupVars
<1>2. CASE NewVcpu
  <2>1. early' \in BOOLEAN /\ current' \in BOOLEAN
    BY Zenon, <1>2 DEF NewVcpu, SetupTypes
  <2>2. UNCHANGED <<allocated, ptr>> /\ life' = "create" /\ progress' = 1 /\ exceptions' = {}
        /\ bitmap' = {}
    BY Zenon, <1>2 DEF NewVcpu
  <2> QED
    BY <2>1, <2>2 DEF SetupTypes
<1>3. CASE Alloc
  <2>1. progress \in 1 .. 10 /\ life = "create"
    BY Zenon, <1>3 DEF Alloc, SetupTypes
  <2>2. /\ life' = (IF progress = 10 THEN "ready" ELSE "create")
        /\ progress' = (IF progress = 10 THEN 1 ELSE progress + 1)
        /\ allocated' = allocated \cup {Allocations[progress]}
        /\ ptr' = ptr \cup {Allocations[progress]} /\ current' = current
    BY Zenon, <1>3, <2>1, AllBlocks DEF Alloc
  <2>3. Allocations[progress] \in Blocks
    BY <2>1 DEF Blocks, Allocations
  <2>4. early' \in BOOLEAN /\ exceptions' = {} /\ bitmap' \in {{}, relm_setup_msr_bitmap}
    BY Zenon, <1>3 DEF Alloc, relm_clear_exception_intercept, SetupTypes
  <2> QED
    BY <2>1, <2>2, <2>3, <2>4 DEF SetupTypes
<1>4. ASSUME NEW blocks, Release(blocks) PROVE SetupTypes'
  BY Zenon, <1>4 DEF Release, SetupTypes
<1>5. CASE MakeCurrent
  <2>1. current' \in BOOLEAN
    BY Zenon, <1>5 DEF MakeCurrent
  <2>2. UNCHANGED <<allocated, ptr, progress, early, exceptions, bitmap>>
        /\ life = "ready" /\ life' = "init"
    BY Zenon, <1>5 DEF MakeCurrent
  <2> QED
    BY Zenon, <2>1, <2>2 DEF SetupTypes
<1>6. CASE WriteField
  BY <1>6, FieldsLen DEF WriteField, SetupTypes
<1>7. CASE VmEntry \/ VmExit
  BY Zenon, <1>7 DEF VmEntry, VmExit, setupVars, SetupTypes
<1>8. ASSUME NEW m \in Msrs, ReadMsr(m) PROVE SetupTypes'
  BY Zenon, <1>8, <1>k DEF ReadMsr, setupVars
<1>9. ASSUME NEW m \in Msrs, NEW v \in Writes, WriteMsr(m, v) PROVE SetupTypes'
  BY Zenon, <1>9, <1>k DEF WriteMsr, setupVars
<1>10. CASE vmx_vcpu_destroy
  BY Zenon, <1>10 DEF vmx_vcpu_destroy, SetupTypes
<1>11. CASE Elsewhere
  BY Zenon, <1>11, <1>1 DEF Elsewhere
<1>12. CASE AddVcpu
  BY Zenon, <1>12, <1>3, <1>4 DEF AddVcpu, AllocationFails
<1>13. CASE VcpuThread
  BY Zenon, <1>13, <1>5, <1>6, <1>7, <1>8, <1>9 DEF VcpuThread
<1>14. CASE VcpuThreadEnds
  BY Zenon, <1>14, <1>10 DEF VcpuThreadEnds, InitFails, LoopEnds
<1>15. CASE DestroyVm
  BY Zenon, <1>15, <1>4, <1>1 DEF DestroyVm, relm_vcpu_free
<1>16. CASE UNCHANGED lifetimeVars
  BY ZenonT(30), <1>16, <1>k DEF lifetimeVars, vcpuVars, setupVars
<1> QED
  BY Zenon, <1>2, <1>11, <1>12, <1>13, <1>14, <1>15, <1>16 DEF LifetimeNext

\* Areas and MSRs only ever hold values of the host, of relm or of the guest.
LEMMA AreaTypeStep == AreaTypes /\ [LifetimeNext]_lifetimeVars => AreaTypes'
<1> SUFFICES ASSUME AreaTypes, [LifetimeNext]_lifetimeVars PROVE AreaTypes'
  BY Zenon
<1>v. /\ {Zero, GuestEfer, HostValue, FixedBase} \subseteq Values /\ Writes \subseteq Values
      /\ Listed \subseteq Msrs /\ MSR_IA32_APIC_BASE \in Msrs
      /\ vmentry_values \in [Listed -> Values] /\ [m \in Listed |-> Zero] \in [Listed -> Values]
  BY MsrsAssumption DEF Values, vmentry_values
<1>l. \A area \in [Listed -> Values] : Loaded(area) \in [Msrs -> Values]
  BY Zenon, <1>v DEF Loaded, AreaTypes
<1>s. [m \in Listed |-> msr[m]] \in [Listed -> Values]
  BY Zenon, <1>v DEF AreaTypes
<1>k. ASSUME UNCHANGED <<areaVars, msrVars>> PROVE AreaTypes'
  BY Zenon, <1>k DEF areaVars, msrVars, AreaTypes
<1>1. CASE UNCHANGED vcpuVars
  BY Zenon, <1>1, <1>k DEF vcpuVars
<1>2. CASE NewVcpu
  BY Zenon, <1>2, <1>v DEF NewVcpu, AreaTypes
<1>3. CASE Alloc
  BY Zenon, <1>3, <1>v DEF Alloc, AreaTypes
<1>4. ASSUME NEW blocks, Release(blocks) PROVE AreaTypes'
  BY Zenon, <1>4, <1>k DEF Release
<1>5. CASE MakeCurrent \/ WriteField
  BY Zenon, <1>5, <1>k DEF MakeCurrent, WriteField
<1>6. CASE VmEntry
  BY Zenon, <1>6, <1>l DEF VmEntry, areaVars, AreaTypes
<1>7. CASE VmExit
  BY Zenon, <1>7, <1>l, <1>s DEF VmExit, AreaTypes
<1>8. ASSUME NEW m \in Msrs, ReadMsr(m) PROVE AreaTypes'
  <2>1. msr' \in [Msrs -> Values] /\ exitStore' \in [Listed -> Values]
        /\ UNCHANGED <<entryLoad, exitLoad, guest>>
    BY Zenon, <1>8, <1>l, <1>s DEF ReadMsr, ExitAndResume, AreaTypes
  <2>2. \E v \in Values : seen' = <<m, v>>
    BY Zenon, <1>8, <1>v DEF ReadMsr, handle_msr_read, AreaTypes
  <2> QED
    BY <2>1, <2>2 DEF AreaTypes
<1>9. ASSUME NEW m \in Msrs, NEW v \in Writes, WriteMsr(m, v) PROVE AreaTypes'
  <2>1. CASE Intercepted(m, "write")
    BY Zenon, <1>9, <2>1, <1>l, <1>s DEF WriteMsr, ExitAndResume, AreaTypes
  <2>2. CASE ~Intercepted(m, "write")
    BY Zenon, <1>9, <2>2, <1>v DEF WriteMsr, AreaTypes
  <2> QED
    BY Zenon, <2>1, <2>2
<1>10. CASE vmx_vcpu_destroy
  BY Zenon, <1>10, <1>k DEF vmx_vcpu_destroy
<1>11. CASE Elsewhere
  BY Zenon, <1>11, <1>1 DEF Elsewhere
<1>12. CASE AddVcpu
  BY Zenon, <1>12, <1>3, <1>4 DEF AddVcpu, AllocationFails
<1>13. CASE VcpuThread
  BY <1>13, <1>5, <1>6, <1>7, <1>8, <1>9 DEF VcpuThread
<1>14. CASE VcpuThreadEnds
  BY Zenon, <1>14, <1>10 DEF VcpuThreadEnds, InitFails, LoopEnds
<1>15. CASE DestroyVm
  BY Zenon, <1>15, <1>4, <1>1 DEF DestroyVm, relm_vcpu_free
<1>16. CASE UNCHANGED lifetimeVars
  BY Zenon, <1>16, <1>1 DEF lifetimeVars
<1> QED
  BY Zenon, <1>2, <1>11, <1>12, <1>13, <1>14, <1>15, <1>16 DEF LifetimeNext

LifetimeTypes == ModuleTypes /\ SetupTypes /\ AreaTypes

LEMMA LifetimeTypesInit == LifetimeInit => LifetimeTypes
<1> SUFFICES ASSUME LifetimeInit PROVE LifetimeTypes
  BY Zenon
<1>1. ModuleTypes
  <2>1. devices \in BOOLEAN
    BY Zenon DEF LifetimeInit, ModuleInit
  <2>2. /\ online \subseteq Cpus /\ hcpu = {} /\ vmxe = {} /\ vmxroot = {} /\ ipi = {}
        /\ failed = 0 /\ at = 0 /\ owned = {} /\ thread = "none"
        /\ pc = "unloaded" /\ fault = "none"
    BY Zenon DEF LifetimeInit, ModuleInit
  <2> QED
    BY <2>1, <2>2, NAssumption, FS_EmptySet DEF ModuleTypes, ModuleTypeOK, Pcs
<1>2. SetupTypes
  <2>1. current \in BOOLEAN /\ early \in BOOLEAN
    BY Zenon DEF LifetimeInit, VcpuInit
  <2>2. life = "create" /\ progress = 1 /\ allocated = {} /\ ptr = {} /\ exceptions = {} /\ bitmap = {}
    BY Zenon DEF LifetimeInit, VcpuInit
  <2>3. 1 \in 1 .. 15 /\ 1 \in 1 .. 10
    OBVIOUS
  <2> QED
    BY Zenon, <2>1, <2>2, <2>3 DEF SetupTypes
<1>3. AreaTypes
  <2>1. MSR_IA32_APIC_BASE \in Msrs
    BY MsrsAssumption
  <2> QED
    BY Zenon, <2>1 DEF LifetimeInit, VcpuInit, AreaTypes, Values
<1> QED
  BY Zenon, <1>1, <1>2, <1>3 DEF LifetimeTypes

LEMMA LifetimeTyped == LifetimeTypes => ModuleTypeOK /\ VcpuTypeOK
<1> SUFFICES ASSUME ModuleTypes, SetupTypes, AreaTypes PROVE VcpuTypeOK
  BY Zenon DEF ModuleTypes, LifetimeTypes
<1>1. bitmap \subseteq (0 .. 4095) \X (0 .. 7)
  <2>1. relm_setup_msr_bitmap = {<<46, 4>>, <<3, 3>>}
    BY DEF relm_setup_msr_bitmap, relm_msr_bitmap_set, IA32_SYSENTER_CS, MSR_IA32_APIC_BASE
  <2> QED
    BY <2>1 DEF SetupTypes
<1>2. seen \in Msrs \X Values
  BY Zenon DEF AreaTypes
<1>3. {entryLoad, exitLoad, exitStore, guest} \subseteq [Listed -> Values]
  BY Zenon DEF AreaTypes
<1>4. progress \in 1 .. Len(Fields) + 1
  BY FieldsLen DEF SetupTypes
<1>5. exceptions \subseteq 0 .. 31
  BY Zenon DEF SetupTypes
<1>6. /\ life \in {"create", "ready", "init", "host", "guest", "ended", "gone"}
      /\ allocated \subseteq Blocks /\ ptr \subseteq Blocks
      /\ current \in BOOLEAN /\ early \in BOOLEAN /\ msr \in [Msrs -> Values]
  BY Zenon DEF SetupTypes, AreaTypes
<1> DEFINE B == (0 .. 4095) \X (0 .. 7)
           E == 0 .. 31
           P == 1 .. Len(Fields) + 1
<1>7. bitmap \subseteq B /\ exceptions \subseteq E /\ progress \in P
  BY ONLY Zenon, <1>1, <1>4, <1>5
<1>8. VcpuTypeOK <=>
        /\ life \in {"create", "ready", "init", "host", "guest", "ended", "gone"}
        /\ allocated \subseteq Blocks /\ ptr \subseteq Blocks
        /\ current \in BOOLEAN /\ early \in BOOLEAN /\ progress \in P
        /\ exceptions \subseteq E /\ bitmap \subseteq B
        /\ {entryLoad, exitLoad, exitStore, guest} \subseteq [Listed -> Values]
        /\ msr \in [Msrs -> Values] /\ seen \in Msrs \X Values
  BY Zenon DEF VcpuTypeOK
<1> HIDE DEF B, E, P
<1> QED
  BY Zenon, <1>2, <1>3, <1>6, <1>7, <1>8

LEMMA LifetimeTypesStep == LifetimeTypes /\ [LifetimeNext]_lifetimeVars => LifetimeTypes'
BY Zenon, LifetimeStepIsModuleStep, ModuleTypeStep, SetupTypeStep, AreaTypeStep DEF LifetimeTypes
=============================================================================
