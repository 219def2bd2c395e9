# relm, modelled in TLA+

relm is a Linux kernel module that runs one guest on bare hardware: it takes
every CPU into VMX operation, gives the guest memory through EPT, and runs its
single vCPU on a kernel thread. This directory holds TLA+ models of it, the TLC
configurations that check them on small instances, and TLAPS proofs, for every
value of the constants, of nearly every safety property the runs check: all but
those of page tables with leaves of two sizes and of the walk of the guest's own
page tables. Most models follow the default build (`ARCH=x86`, `SUBTARGET=vmx`,
`RELM_MAX_VCPUS` = 1). `Stage2` and `WorldSwitch` model the arm64 target, and
`LargePages` the page tables of the SVM backend with those of VMX.

Paths below are relative to the repository. `PROJECT.json` gives, for every
definition that models code, the file and lines it stands for.

## 1. The system

### 1.1 Parts, state and operations

| part | code | state it keeps | operations that change it |
|---|---|---|---|
| vCPU thread | `src/core/vcpu.c`, `vmx/vmexit.c`, `vmx/vmx_asm.S` | `vcpu->state`, `host_task`, `halted`, `launched`, affinity mask, per-CPU `current_vcpu`, current VMCS per CPU | run, stop, destroy; pin, register, VMCLEAR/VMPTRLD, enter, exit, sleep, wake |
| vCPU resources | `vmx/vmx.c`, `src/core/vcpu.c` | VMCS, bitmaps, APIC pages, MSR areas, VMCS fields | Phase 1 allocation and its labels, Phase 2 field writes, MSR swap at entry and exit, RDMSR/WRMSR |
| module and VM | `src/core/relm.c`, `src/core/vm.c`, `vmx/vmx.c` | per-CPU `host_cpu`, CR4.VMXE, VMX root operation, everything allocated | insmod, rmmod, VMXON/VMXOFF by IPI, create, destroy, CPU online |
| guest memory | `vmx/ept.c`, `src/core/vm.c` | RAM pages, four-level tables, regions, statistics | allocate, map, unmap, look up, tear down |
| IOMMU domain | `src/core/iommu.c` | domain, its mappings and counter, device list | init, mirror RAM, unmap, destroy (attach and detach have no caller) |
| access to guest memory | `src/core/vm.c`, `vmx/mmu.c` | none of its own | copy to, copy from, zero; walk page tables, read by virtual address |
| starting a guest | `x86/boot/boot.c`, `src/firmware/` | guest memory, `boot_params`, e820, fw_cfg items and cursors | load kernel, initrd, tables; load ROM, register items, select, read |
| control registers | `vmx/vmx.c`, `vmx/vmexit.c` | CR0, CR4, EFER, shadows, entry controls; CR3-target cache | guest writes with and without exits; promotion, eviction |
| local APIC | `vmx/apic.c` | IRR, ISR, TMR, TPR, PPR, ICR, virtual-APIC page, timer registers | inject, IPI, register access, EOI, timer read |
| virtio-mmio | `src/virtio/` | windows, device table, selectors, queues, status | reserve, release, register, unregister, register writes, notify |
| decoder and register round trip | `src/core/decoder.c`, `x86/decoder/utils.c`, `vmx/vmexit.c`, `vmx/vmx_asm.S` | `vcpu->arch.regs`, the block on the stack, GUEST_RIP and GUEST_RSP | exit, decode, emulate, copy back, resume or return to the loop |
| arm64 stage-2 tables | `arm64/stage2.c` | registered runtime, geometry, tree of blocks and pages, statistics | register, create, map page, range or RAM, unmap, invalidate, destroy |
| arm64 world switch | `arm64/arm64.c`, `arm64/entry.S` | register files of host and guest, HCR_EL2, vectors | vCPU init, entry, exit, host interrupts in between |
| SVM nested page tables | `svm/npt.c` | four-level tables with 4 KiB and 2 MiB leaves, statistics | as for EPT |
| SVM vCPU backend | `x86/svm/` | VMCB | does not compile as it stands |
| dumps, tracing | `src/debug/`, `src/tracing/` | none | logging |

### 1.2 How the parts interact

`relm_module_init` enables VMX on all CPUs, creates the VM (RAM, EPT, guest
page tables), its IOMMU domain and its vCPU, and calls `relm_run_vm`, which
creates the vCPU thread. The thread pins itself, registers itself in the per-CPU
slot the exit handler reads, makes the VMCS current and enters the guest. Exits
are handled in the assembly stub's context; only when a handler returns 0 does
the stub unwind to `relm_vcpu_loop`, the only place that looks at the stop flag
and at `halted`. Exits reach the control registers, the APIC, fw_cfg and virtio.
Emulated instructions are fetched through the guest page-table walker; the
decoder says what they are, and their result travels back through
`vcpu->arch.regs`. Devices make interrupts pending from other threads.
`relm_module_exit` stops the thread, frees the VM and disables VMX.

On arm64 `arm64_vcpu_run` switches the registers of host and guest on the CPU
the thread is pinned to; VTTBR_EL2 names the tables of `stage2.c`. Callers of
`stage2.c` and of the 2 MiB calls of `ept.c` and `npt.c` are not written yet.

### 1.3 What is hard here

`PROJECT.json` lists forty hazards with the lines where they bite. In short:

* three actors (controller, vCPU thread, a device thread) and the scheduler
  share `host_task`, `halted`, `state`, the affinity mask and per-CPU slots,
  mostly without locks;
* per-CPU hardware state (current VMCS, VMX root operation) must match C state
  while threads migrate and CPUs come online;
* nearly every step of loading can fail and is unwound by labels;
* the same fact is kept twice and must agree: EPT and IOMMU, EPT and
  `region->pages`, APIC registers and virtual-APIC page, CR0/EFER/entry controls,
  `vcpu->launched` and the VMCS, cache marks and CR3 targets, windows and devices,
  guest registers in the VMCS, on the stack and in `vcpu->arch.regs`;
* control bits are requested, filtered by what the processor allows and changed
  again later, while the fields they use are written elsewhere;
* a tree with leaves of two sizes, walked by code that tests the present bit only;
* some fifty register writes of a world switch whose order matters, in a thread that
  can be interrupted between any two of them;
* arithmetic at edges: page straddling, chunking, timer division, bitmap offsets.

## 2. The modules

| module | models | what a state is, what a step is |
|---|---|---|
| `VcpuLifecycle` | vCPU thread, controller, injector, migrations | `pc` is the thread's place in `relm_vcpu_loop` and the stubs, one action per step another actor can observe. `handle_vmexit` is the set of outcomes of the exit handlers. |
| `VcpuSetup` | Phase 1 and 2, MSR bitmap and areas | allocation by allocation, field group by field group, then entries, exits and MSR accesses |
| `VmcsContents` | the control words `vmx_vcpu_init` writes, the fields they use, HOST_CR3 | a processor is what its capability MSRs allow; one action per word or group of fields, then entries, exits and the host's scheduling |
| `ModuleLifecycle` | module load and unload | one action per step of `relm_module_init`/`exit` that can fail, one per CPU for the IPI handlers |
| `VmLifetime` | `ModuleLifecycle` with the vCPU of `VcpuSetup` in it | the steps of both; adding the vCPU, the end of its thread and destroying the VM are joint steps |
| `Ept` | RAM, EPT, IOMMU mirror | tables are frames with entries; one action per page mapped, each with every number of table allocations succeeding |
| `GuestMap` | abstract map from guest pages to frames | what second-level tables promise; `Ept` and `Stage2` implement it |
| `LargePages` | 4 KiB and 2 MiB leaves in `npt.c`, and in the calls of `ept.c` that nothing calls yet | slots of a tree with `Fan` entries per table; one action per page or block of a loop, for either backend |
| `GuestPages` | page size and results shared by the next two | |
| `GuestCopy` | copy/zero by guest-physical address | one action per turn of the loop; memory holds, for each byte, which byte of the request it is. A region of MMIO is listed without pages, and a loop that reaches it dies (`Oops`) |
| `GuestWalk` | page-table walk and virtual reads | the walk is a recursive operator over levels; one action per turn of the read loop. `Physical` says what the tables mean without walking them: the one chain of entries, of any length, that leads to a page of a size the mode has |
| `BootLoad` | Linux loader and e820 | one action per step of `relm_boot_load`; memory remembers who wrote each cell |
| `Firmware` | SeaBIOS and fw_cfg | setup item by item, then selector and data ports |
| `GuestMode` | CR0, CR4, EFER | one action per guest write: handled by the processor, which refuses some values, or by the exit handler, which meets and carries out any value. A step needs that VM entry accepted the last one (`EntryAccepts`) |
| `Cr3Cache` | CR3-target cache | one action per exit: hit, insert, evict, promote |
| `Apic` | local APICs | one action per handler. Beside the registers, `told` is what each guest wrote and `owed` what it should therefore find |
| `ApicTimer` | APIC timer | writes of its registers, passing of time. The code computes the count from the clock; the model also has a counter that is stepped |
| `VirtioMmio` | windows, devices, registers | one action per register write, registration (also of a device that is registered), reservation |
| `InsnEmulate` | an emulated instruction and the way of the registers | exit stub, handler, copy back, entry; registers have four lanes |
| `Stage2` | arm64 stage-2 tables | slots of a tree; one action per page or block of a loop, calls of two threads interleave |
| `WorldSwitch` | arm64 entry and exit | registers grouped by how the code treats them; one action per group of writes. Between any two the host may interrupt or preempt the thread and write registers of its own (`HostPreempts`), or, once its vectors are replaced, take an interrupt that does not return (`HostInterrupt`) |

Eight modules hold theorems (section 4):

| module | proofs about |
|---|---|
| `VcpuProofs` | `VcpuLifecycle`, `WorldSwitch` |
| `VmLifetimeProofs` | `VmLifetime` with `ModuleLifecycle` and `VcpuSetup` |
| `BringUpProofs` | `BootLoad`, `Firmware`, and the types of `MCBringUp` |
| `EptTreeProofs`, `EptProofs` | `Ept`: the tables as a tree; the memory of a VM |
| `ControlRegisterProofs` | `VmcsContents`, `GuestMode`, `Cr3Cache` |
| `GuestAccessProofs` | `Apic`, `ApicTimer`, `GuestCopy` |
| `VirtioProofs` | `VirtioMmio`, `InsnEmulate` |

The MC modules give values to constants. Most also put components that share no
state in one run: a variable chosen in the initial state says which of them
moves, so the state spaces add and do not multiply. `MCBringUp` has `VmLifetime`,
`BootLoad` and `Firmware`; `MCEpt` has `Ept` and `LargePages`; `MCControlRegisters`
has `VmcsContents`, `GuestMode` and `Cr3Cache`; `MCApic` has `Apic` and `ApicTimer`;
`MCGuestAccess` has `GuestCopy` and `GuestWalk`; `MCArm64` has `Stage2` and
`WorldSwitch`; `MCVirtioMmio` has `InsnEmulate` and two instances of `VirtioMmio`,
whose drivers it restricts as its comment says.

Definitions named `..._Mut` are faulty variants of the definition they precede.
No specification uses them; each shows that a property can fail
(section `mutants` of `PROJECT.json`).

Where the code's parts share state the modules compose them: `VcpuLifecycle` has
thread, controller and injector; `Ept` has `vm.c`, `ept.c` and `iommu.c`;
`InsnEmulate` has stubs, handlers and decoder. `VmLifetime` composes two modules:
the "vcpu" the loader owns in `ModuleLifecycle` is the vCPU `VcpuSetup` builds
allocation by allocation, and its thread the one that enters the guest there. It
is proved to implement `ModuleLifecycle`.

### 2.1 Abstractions

* Data are reduced to what the properties tell apart: a vector, an MSR or a CR
  bit is a member of a small set; a page has a few bytes; a table has two entries.
* The processor is external and modelled from how the code uses it: VMX
  instructions, what VM entry checks, which accesses exit, MSR lists.
  `VcpuSetup` assumes that the processor accepts the MSR lists. They name
  IA32_FS_BASE and IA32_GS_BASE, which the architecture manual does not allow
  there. `GuestMode` does not model that the entry list also reloads EFER.
* The scheduler may migrate the thread wherever the code does not disable it.
* The host's choice of page tables for a kernel thread (those of the process that
  ran before) is external; `VmcsContents` needs it because HOST_CR3 is one of them.
* The arm64 source does not compile. `ctrls`/`controls` and `eli`/`el1` are read as
  the one variable that is meant, and `npt.c` as if the semicolon missing at
  line 67 were there. `entry.S:42` keeps the vector registers at offset 528 of
  `struct vcpu_arch`, which has no member for them and where `ctrls` lies
  (`vcpu_arch.h:108-115`); they are read as having storage of their own.
* Nothing in the arm64 code disables interrupts or preemption, so the host may run
  at any point of the switch until its vectors are replaced. What it may write is
  one of a few sets of registers (`Interruptions`). That another vCPU thread runs on
  the same CPU meanwhile, and uses the same per-CPU save area, is not modelled: there
  is one vCPU.
* What a walk does that takes a 2 MiB leaf for a table is unknown: it reads and
  writes guest or free memory. `LargePages` notes it (`mix`) and then stops.
* Tests of an uninitialised `ret` (`npt.c:493`) may go either way.
* An invalid operation of the kernel (VMXOFF outside VMX operation, a walk of an
  uninitialised list) sets `fault` in `ModuleLifecycle` and ends the behaviour.
* History variables (`paged`, `lawful`, `written0`, `written4`, `failed`, `dropped`,
  `started`, `lost`, `diag`, `early`, `last`, `got`, `told`, `owed`, `seen` of `VcpuSetup`,
  `count`, `phase` and `steady` of `ApicTimer`, `before` of `InsnEmulate`, `hostv`,
  `guestv`, `trap`, `stale` and `spoilt` of `WorldSwitch`, `mixed` of `Stage2`, `mix` of
  `LargePages`) only record what happened. No guard that stands for code
  reads them, but `LargePages` makes no step after a stray access.

## 3. Runs

Eight runs pass; four show a difference between the code and what the repository
says of it.

| run | states | checks |
|---|---|---|
| `vcpu_lifecycle` | 28 k | `PinnedGuestIsOwned`: a pinned guest runs on its CPU, with its VMCS current and its vCPU in the slot. `LaunchFlagMatchesVmcs`: VMLAUNCH or VMRESUME is chosen right although the flag is never reset. `TeardownOrder`: nothing is freed under a running thread, and VMCLEAR happens where VMPTRLD did. `WakeNotLost`: an injection that finds `halted` set gets the thread out of its sleep, whether it comes before the test of the flag, between test and wait, or during the wait. `StopCompletes`: a stop request ends a sleeping thread, and a pinned one whose guest returns to the loop. |
| `bring_up` | 728 k | `RunsOnLiveState`: no page is freed while a current VMCS names it, and the thread never runs without its VM, its parts or VMX. `EverythingReturned`: whichever step or allocation fails, and after any unload, all is released, once, but for guest RAM and the IOMMU domain. `MsrViewIsVirtual`: exactly two reads exit, and the guest never sees the host's APIC base. `AnnouncedIsThere`: what `boot_params`, CR3, GDTR and IDTR announce is intact and lies in RAM according to the e820 map. `ItemsServed`: the guest finds every fw_cfg file and reads each item whole, from its start, in order. |
| `ept` | 23 k | `TablesExact`: the tables form a tree, none is lost or freed twice, and the statistics count the mapped pages; with leaves of two sizes also that leaves lead to the backing of their region, that MMIO windows stay unmapped, and that a region whose call returned 0 is mapped. `Isolation`: guest pages lead to the guest's own frames only. `ViewsAgree`: host and devices see the frames the guest sees. `ImplementsGuestMap`: refinement of `GuestMap`. |
| `guest_access` | 789 k | `ExactlyThePrefix`: a copy moves exactly the bytes up to its end, to the first hole or to a region without pages, in order, and in the last case dies there. `TranslationCorrect`: every byte of a virtual read is the one the tables, by a definition of their own, give to its address, identity tables are an identity, five-level paging is refused. `Returns`: every copy ends. |
| `control_registers` | 312 k | `ControlsLegal`: whatever the processor allows, the control words are ones VM entry accepts, nothing that was asked for and is allowed is lost, and every field they use was written, or is one of those whose zero means none (`ZeroMeansNone`). `EntryLegal`: whatever is written the bits VMX fixes are held, and VM entry accepts a guest that keeps paging on and writes what the processor allows. `ReadsBack`: the guest reads what it wrote. `CacheConsistent`: the CR3 cache knows what is in the VMCS, has no gaps or duplicates, always finds a slot, and a busy address space has a target unless busier ones have them all. |
| `apic` | 525 k | `PageMirrorsModel`: the virtual-APIC page agrees with the model after each exit. `DeliveryExact`: what is pending at a vCPU, with its trigger mode, is exactly what was sent to it, by a shorthand or by the destination and the IDs written last, and who was sent something is awake. `CountIsExact`: the count read is that of a counter stepped all along, while its divider and mode stay. |
| `virtio` | 229 k | `DevicesOwnWindows`: windows never overlap, a page is a device's window exactly when a device claims it, and the lookup finds that device; pages that a repeated registration parted from their device are left out. `ReadyOnlyWhenStarted`: no queue is ready in a life of the device in which the driver did not report DRIVER_OK. `EmulatedExactly`: after a trapped access the guest sees what the processor would have made of the instruction, or nothing at all. |
| `arm64` | 154 k | `TreeExact`: the tree leads to the backing of its regions, listed regions are mapped, MMIO windows are not, tables and leaves are accounted for. `TreeIsGuestMap`: its steps are steps of `GuestMap`. `HostRestored`: outside the switch the host finds the registers relm saves, HCR_EL2 and the vectors as it left them, except what it wrote itself while it interrupted the switch after the save. MDCR_EL2, MDSCR_EL1, TPIDR_EL0, the vector registers and the rest of `Borrowed`, `Shared` and `Fp` are loaded for the guest and never restored, so nothing is said of them. `GuestPreserved`: the guest is entered with what it left, except what such an interruption overwrote, and the exit reported is the one taken. `GuestConfined`: it runs only under its own tables, controls and routing. |

Each of them also checks the type invariants of its modules (`TypeOK`, or
`TypesOK` for several).

| run | shows |
|---|---|
| `vcpu_dangling_slot` | `current_vcpu` is set on up to two CPUs and cleared on one; after `relm_destroy_vm` a slot can point to freed memory, against `docs/vcpu_execution_model.md:460`. |
| `vcpu_halt_wakeup` | an interrupt that becomes pending just before HLT sets `halted` does not end the sleep, against `vmexit.c:298`. |
| `boot_kernel_overwritten` | a kernel between 48 and 64 MiB passes the size check and is overwritten by the initrd, against the layout in `loader.h:16-17`. |
| `mmio_load_of_rsp` | a trapped MOV that loads RSP is emulated into `vcpu->arch.regs` and never reaches the guest, against `vcpu_arch.h:34-38`. |

### 3.1 Bounds, and why they are enough

* `vcpu_lifecycle`: three CPUs, because the thread can start on one, be pinned
  to another and end on a third. The two violation runs need two. There is no
  other bound; `exit_clock` makes each exit a visible step for fairness.
* `bring_up`: two CPUs, any set of which is online first, so that one is there at
  load and one comes later or fails. The MSRs relm names, one with the same number
  in the other half of the bitmap, one at its edge and one outside; one value the
  guest writes. For the boot loader a cell above 16 MiB stands for 4 MiB, below it
  each structure of `loader.h` has one; limits and addresses are then those of
  `loader.h` with 128 MiB of RAM; kernels and initrds below, at and above each of
  them. fw_cfg has three well-known items, one of them empty, two files, and room
  for exactly these and the directory; at most `MaxGot` = 6 bytes are read after a
  selection, more than any item has.
* `ept`: two entries per table, three RAM pages over two page tables, a device of
  two pages and the APIC page under other tables, 17 frames: enough for one VM
  with everything mapped, exhausted after leaked lives. For leaves of two sizes
  `Fan` = 2, a region that starts inside a block and goes on with a whole one, and
  a block that ends in an MMIO window; `MaxTables` = 6 is one table fewer than they
  need with small pages. `PageShift`, `AddrTop` and `WordBits` (1, 6, 8 for 12, 52,
  64) keep their order, which is what the address arithmetic of a 2 MiB leaf
  depends on. The two callers are symmetric.
* `guest_access`: pages of two bytes, requests of up to seven (so up to four
  pages) against six region lists, among them touching regions in both list
  orders, a hole, and MMIO between RAM. All contents of two table frames with five kinds of entry, six
  paging modes, reads of up to three bytes over up to three pages.
* `control_registers`: processors with every combination of the optional
  controls, with and without forced CR3 exiting, and two address spaces of the
  host, so that one can end while the other is used; every CR bit the handlers
  treat differently and one of each
  remaining kind; three cache slots, two targets and four address spaces, so
  that eviction and demotion happen; promotion at three hits, so that exits below
  the threshold happen too, and hits up to `MaxHits` = 5.
* `apic`: two APICs, so that broadcast and sender differ, two IDs and two logical
  IDs, so that a directed IPI has none, one or two targets; two vectors of
  different classes and a task priority between them. In "ipi" all registers but
  TPR change and one vector is used, in "tpr" one vector and TPR, in "shadow" both
  vectors with the TPR shadow. For the timer counts 1 and 3 (a reload at once and
  after several ticks) and a divisor for each shape of bits 3, 1 and 0 (2, 32 and
  1, one with the bit the code drops), with `MaxNow` = 34 units, more than the
  longest period.
* `virtio`: two devices, one page of RAM and three others, tables of two
  entries. In "pair" two devices and a window of two pages compete;
  in "single" one driver writes every register in every order. No register is
  written while a device is registered twice. Devices are
  symmetric. In "insn" MOVs of every width and lane, to and from memory, of RSP,
  an immediate and a segment register, and two instructions that are no MOV;
  three registers, two register files, and RIP wrapping at `RipSpan` = 4.
* `arm64`: `Fan` = 2 and eight pages; one region starts inside a block and ends
  with a whole one, the other ends in an MMIO window that shares a block with RAM,
  so `map_range` can replace a block by pages. `MaxTables` = 5, so that
  allocations fail; two callers, symmetric. Four hosts, two of which can hold
  39-bit addresses, and a VM id that needs 16-bit VMIDs. What a host allows and
  what the tables do are separate: in "geometry" all hosts register in turn and
  contexts come and go, in "tables" the one host that can hold the VM maps and
  unmaps. In "switch" there is one register for each way the switch treats one,
  and two values, so that a register that is not switched is noticed; an
  interruption writes the registers an exception writes, or all the host writes.

TLC's coverage shows every action of every module taken. Two branches are never
reached, as in the code: the "table full and no eviction candidate" case of
`Cr3Cache`, which `CacheConsistent` says cannot happen, and the end-of-interrupt of a
vector in service in `Apic`, because no code puts one in service.

`CHECK_DEADLOCK FALSE` is set where the program ends: a destroyed vCPU, a failed
load, a finished copy or boot, a vCPU in an error state.

### 3.2 Fairness

`VcpuLifecycle!FairSpec` has weak fairness of the thread's host steps, of the
migration to the target while the mask allows only that CPU, of the
controller's steps after it has begun to stop, and of the injector's wake-up:
the Linux scheduler runs every runnable thread and moves a thread off a CPU its
mask forbids. Weak fairness of guest steps is justified by external-interrupt
exiting: the host's timer makes every guest exit again and again.
`IdlingGuestSpec` adds strong fairness of exits that unwind to the loop. It is an
assumption about the guest (it halts or faults again and again), not about the
code; without it stopping can take for ever (`BusyGuestStops`, section 5).
`MCGuestAccess!MCSpec` has weak fairness of the loop itself.

## 4. Proofs

"Types" below is the type invariant of the run.

| module | theorem | states |
|---|---|---|
| `VcpuProofs` | `TypeCorrect` | types |
| | `PinnedSafety` | `PinnedGuestIsOwned`, and the exit stub never loses the way back to the thread's stack while it is pinned |
| | `LaunchSafety` | `LaunchFlagMatchesVmcs` |
| | `TeardownSafety` | `TeardownOrder`, and a vCPU with a thread belongs to a running VM |
| | `ErrorFinality` | state ERROR is never overwritten |
| | `HostSafety`, `GuestSafety`, `Confinement` | `HostRestored`, `GuestPreserved`, `GuestConfined` |
| `VmLifetimeProofs` | `ImplementsModule` | the composition implements `ModuleLifecycle` |
| | `LiveStateSafety` | `RunsOnLiveState` |
| | `UnloadSafety` | `EverythingReturned` |
| | `MsrViewSafety` | `MsrViewIsVirtual` |
| `BringUpProofs` | `BootSafety` | `AnnouncedIsThere` |
| | `FirmwareSafety` | `ItemsServed` |
| | `TypesCorrect` | types of the module, the VM, the vCPU, the loader and fw_cfg |
| `EptProofs` | `MemoryTypes` | the types of `Ept` |
| | `TablesAlwaysOwned` | `TablesOwned`, the part of `TablesExact` about `Ept` |
| | `GuestIsolated` | `Isolation` |
| | `ViewsAlwaysAgree` | `ViewsAgree` |
| | `TablesImplementMap` | `ImplementsGuestMap` |
| `ControlRegisterProofs` | `ControlsSafety` | `ControlsLegal` |
| | `EntryAccepted`, `WhatWasWritten` | `EntryLegal`, `ReadsBack` |
| | `CacheAlwaysConsistent` | `CacheConsistent`, if the guest loads no CR3 of 0 |
| | `TypesCorrect` | types, under the same condition |
| `GuestAccessProofs` | `PageAlwaysMirrors` | `PageMirrorsModel` |
| | `DeliveryIsExact` | `DeliveryExact` |
| | `CountAlwaysExact` | `CountIsExact` |
| | `TypesCorrect` | types of APICs and timer |
| | `CopiesExactly` | `ExactlyThePrefix` |
| `VirtioProofs` | `DevicesOwnWindowsAlways` | `DevicesOwnWindows` |
| | `QueuesWaitForDriver` | `ReadyOnlyWhenStarted` |
| | `EmulationExact` | `EmulatedExactly` |
| | `TypesCorrect` | types |

Hardly any of the properties is inductive by itself. Each proof has an inductive
invariant, one lemma or step per action that shows the action keeps it, and a
theorem that draws the property from it. A theorem about a component is about the
component's own specification; where a run checks several components that share no
state, the theorem about types shows that a step of the composition is a step or a
stutter of each of them.

### 4.1 The vCPU thread

For every non-empty set of CPUs and every target, even one that is not online.
The only assumption is `CpusAssumption` (some CPU is online). That the guest is
on its target follows from where the thread waited before it registered itself,
that the launch flag is right from where VMCLEAR can happen, and that nothing is
freed too early from what the controller did before. `IInv` adds this history in
terms of `pc`:

* `StateByPc`: what `vcpu->state` can be at each point of the thread;
* `Affinity`: the mask is full or the target alone, and then the thread is there
  once it has waited for it;
* `Registered`: which registrations a pinned thread has made so far;
* `VmcsPlace`: where the VMCS can be current;
* `LaunchState`: the launch flag against the hardware's launch state;
* `Control`: `host_task`, VM state, controller and thread.

`InitIInv` and `NextIInv` prove it inductive, with one lemma per actor
(`ControlIInv`, `HostIInv`, `VmExitIInv`, `OtherIInv`) and one step per action.
`HandlerOutcome` is the fact about exit handlers the rest needs: one that asks
the stub to resume leaves the vCPU RUNNING. `ErrorFinality` follows from
`FinalStates`, the invariant used in one step.

### 4.2 Module, VM and vCPU

For every number of CPUs (`NAssumption`) and all sets of MSRs and values
(`MsrsAssumption`). `ImplementsModule` is refinement with the identity as mapping:
a joint step of the vCPU is a step of the module, every other step of the vCPU a
stutter. The invariant has three parts, each by place in the code: `CpuInv` says
how far CR4.VMXE and VMX operation are switched on or off on the CPUs with a
`host_cpu`; `OwnInv` what is owned and where the thread can run; `LifeInv` ties the
vCPU to both: during creation it has exactly the blocks the first allocations
returned (`Acquired`), afterwards all or none, and its VMCS is current only while
the thread runs. `CpuInv` and `OwnInv` are proved of `ModuleLifecycle` and carried
over by the refinement. `CleanupReleasesAll` is the fact about the labels of
Phase 1: whatever was acquired, the unwinding frees that.

`MsrInv` says when the bitmap holds what `relm_setup_msr_bitmap` wrote; `BitmapExact`
is the arithmetic of its offsets: the byte and bit the code sets for an MSR are
those the processor looks up for the read of that MSR and of no other, over all
8192 numbers of each half. `LifetimeTypes` needs one fact that is no type: the CPUs
that failed and the CPUs still to run their IPI handler are together at most all
CPUs, so that the count of failures is in its range.

### 4.3 The VMCS

For every processor that satisfies `ProcessorsAssumption`: it has the secondary
controls, EPT and the IA-32e entry control, without which relm cannot run; virtual
NMIs come with NMI exiting, register virtualisation with the
TPR shadow; and the bits it forces are among those that need no field. `VInv`
follows `step`: `WordsOK` says what a word holds once it is written (what was asked
for and is allowed, what is forced, and what the two later writes add), and
`WrittenOK` which fields have been written by then. The fields in use that are left
zero are then among GUEST_DR7, GUEST_IA32_DEBUGCTL and the VM-function controls.

### 4.4 Control registers and the CR3 cache

For every pair of FIXED0 and FIXED1 values with `GuestModeAssumption` (PE, PG, NE,
PAE and VMXE can be set, and PG is not fixed without PE). `Cr0Tracks` and
`Cr4Tracks` say how a real register, its shadow and the fixed bits hang together;
`LongMode` that a guest that never turned paging off is in long mode with EFER and
entry control to match, and has PAE set as long as no handler carried out a write
the processor refuses.

The cache is proved for every table size above the number of targets, every
threshold of at least 2 and every set of address spaces without 0
(`CacheAssumption`; with 0 the property fails, `CountIsPopulation` in section 5).
Times are kept as the place of each slot in the order by `last_seen_ns`
(`SeenOrder`), which is all that eviction compares. `CacheInv` adds that the
promoted slots are in use and counted (`PromotedCounted`). `PolicySelects` is the
heart of it: the selection in `relm_cr3_cache_apply` takes distinct slots in use, at
most `MaxTargets`, and leaves one out only when all targets go to slots with at
least as many hits. It rests on `Places`, about the ranks in a finite order, which
is proved with the cardinality theorems of the library.

### 4.5 The memory of a VM

For every set of frames, every size of tables, and every layout of RAM, device
and APIC page that does not overlap (`MemAssumption`). `EptTreeProofs` takes the
tables as a tree: there is a function that gives each table its level (`Levels`),
entries lead one level down or to what may be mapped (`Links`), and no two entries
to the same frame (`Single`). `WalksMeet` and `OneLeafPerPage` then say that two
pages have different leaves; `MapTree` that `relm_ept_map_page`, with any number of
its allocations succeeding, keeps the tree, and `MapTranslates` that it changes the
translation of its page only. `EptProofs` adds what the leaves hold (`Contents`), how
far each loop has come (`Stages`, `HostView`, `DeviceView`) and the statistics, with
one lemma per action of `vm.c`, `ept.c` and `iommu.c`. The same lemmas say that a
step only adds pages or only removes pages, which is the refinement of `GuestMap`.

### 4.6 Starting a guest

`LayoutAssumption` holds what the addresses of `loader.h` satisfy: the structures
below the VGA hole are apart, kernel and initrd, at their largest, end below the
guest page tables, and the BIOS area is above RAM. Nothing is assumed of the
images but their types; kernel and initrd may overlap, and do
(`boot_kernel_overwritten`). `Placed` says whose bytes each cell can hold, `Told`
what the VM and `boot_params` have been told, by step of `relm_boot_load`; both are
needed because each later load may write over an earlier one. A kernel at an
address of its own choice may land anywhere, so `Placed` is claimed only while the
kernel is, or can still be, at the default address (`AtDefault`).

fw_cfg is proved for all lists of well-known items, files and sizes, with any limit
on the number of items (`FirmwareAssumption`). `KeysTaken` says which key the next
file gets, `Registered` which key each item has and that the last one lists the
files, `Reading` that the cursor of the selected item is where the guest's reads
have come to. That the directory has as many entries as there are files is a
bijection between file numbers and entries (`DirCount`).

### 4.7 APIC, timer and copies

For every set of vCPUs, vectors and priorities, with destinations of two bits
(`ApicAssumption`), and all counts and divisors (`TimerAssumption`). The page agrees
with the model because no vector is ever in service (`NothingInService`), so that
the processor priority is the task priority. For delivery `DInv` adds that the
registers hold what the guests wrote; `TargetsAreMeant` then says that the loop of
`relm_apic_ipi_resolve_targets` selects exactly the vCPUs that are meant, its test
of two bytes for a common bit being `BitIsHasBit`. The timer that runs and the
division of the code are tied by `SteadyInv`: the elapsed time is a whole number k of
periods and the phase, and the count is what k ticks leave (`Counting`), or it has
expired. `CountingTick` is one unit of time, `DivUnique` the fact about quotient and
remainder it needs.

Copies are proved for every list of regions that do not overlap and start at a
page (`CopyAssumption`) and every request. `Progress` says that the first `done`
bytes have been moved, each to its place, and nothing else has changed; `Result`
that the loop ended at the end of the request, at the first hole or at a region
without pages. `ChunkFacts`
is about a turn: it moves at least one byte and stays in the region and the request.

### 4.8 virtio, emulated instructions, the arm64 world switch

For every number of windows and devices (`VirtioAssumption`). `Owned` says that
windows are disjoint and that, outside the pages parted by a repeated registration,
a page is a window exactly when a device claims it, and one device only; then the
lookup of the code finds it. Closing the gap in the table after an entry is removed
keeps this (`ClosedProperties`), also when the device has a second entry.

For every set of instructions, registers and contents (`InsnAssumption`). `EmuInv`
follows an exit: what was imported (`AtExit`), and after the handler that the guest
would resume with nothing changed or with the instruction executed (`AtHandled`).
`LanesAlwaysMatch` is about the conversion: the masks and shifts of the decoder's
extract and commit are the lanes the processor would use, for every width.

For all register groups and value sets that satisfy `WorldSwitchAssumption` (which
groups overlap). `HostPlace` says where the host's value of each register is at each
point of the switch, but for those in `stale`, `Routing` what HCR_EL2 and the vectors
are, `GuestIn` and `GuestOut` where the guest's values are on the way in, but for those
in `spoilt`, and on the way out, where interrupts are masked (`MaskedOut`). There is
one lemma for each (`HostPlaceStep`, `RoutingStep`, `GuestInStep`, `GuestOutStep`,
`MaskedStep`) and two for types (`TypeStep`, `TrackedStep`).

### 4.9 What is only model-checked

* Liveness: `WakeNotLost`, `StopCompletes`, `Returns` and the violated `HaltEndsOnInterrupt`. It
  needs fairness and ENABLED, which are out of the prover's reach.
* `TranslationCorrect`, and with it the types of `guest_access`. The walk of
  `GuestWalk` is a recursive operator, which the prover cannot use, and what it
  computes would need induction over the levels.
* The tables with leaves of two sizes: `TreeExact`, `TreeIsGuestMap` and the types of
  `arm64` but for those of the switch (`Stage2`), and the part of `TablesExact` and of
  the types of `ept` that is about `LargePages`. Their invariants relate calls of two
  threads in progress to spans of a tree with arithmetic over powers of `Fan`, which
  none of the provers does; no proof has been written.

## 5. Other differences between the code and what the repository says

Each row is a definition, last in its module under "Claims ...", that says what
a document or comment promises. No run checks them: to see TLC's counterexample, put the
definition in place of the properties of the named configuration, as INVARIANT,
or as PROPERTY where the row says so.

| definition (configuration) | the code | what is said |
|---|---|---|
| `PinnedForLife` (VcpuSlot) | the mask is widened before the thread is told to stop (`vcpu.c:188`) | `docs/vcpu_execution_model.md:181` "will remain true for the lifetime of the thread" |
| `HostTaskIsLive` (VcpuSlot) | a thread that ends by itself leaves `host_task` set; stop then uses a task nobody holds (`vm.c:377`) | `vm.c:376` "if VCPU has runnning thread" |
| `DiagStopsGuest` (VcpuSlot) | the diagnostic VMCALL returns 0 without changing the state, and the loop re-enters (`vmexit.c:476`) | `vmexit.c:476` "stop guest" |
| `BusyGuestStops` (VcpuHalt, PROPERTY) | after a handled exit the stub resumes by itself, the stop flag is not tested (`vmx_asm.S:237`) | `docs/vcpu_execution_model.md:425` "The loop iterates and calls `VMRESUME`" |
| `HostCpuPerOnlineCpu` (BringUp) | CPUs that come online later get no `host_cpu` (`vmx.c:308`) | `docs/architecure.md:551` "One `host_cpu` exists per online CPU" |
| `VmxoffOnlyInVmxRoot` (BringUp) | VMXOFF also where VMXON failed or was not tried (`vmx.c:282`) | `docs/architecure.md:406` "Exit VMX root operation" |
| `MissingIommuIsNotFatal` (BringUp) | unloading walks a list head that was never initialised (`iommu.c:324`) | `relm.c:83` "Not fatal." |
| `FailedCreateFreesRam` (BringUp) | the label skips `relm_vm_free_guest_mem` (`vm.c:332`) | `FIXES.md:322` "the correct cleanup at that failure point" |
| `DomainReleased` (BringUp) | nothing calls `relm_iommu_destroy` (`vm.c:386`) | `FIXES.md:335` presents the leak as fixed |
| `DmaReachesOnlyRam` (Ept) | RAM is freed while the domain maps it (`vm.c:386`) | `iommu.c:6-8` "correctly translated to the guest's actual host physical pages" |
| `HugeRamIsMapped` (Ept) | the address of a 2 MiB leaf is multiplied with the mask (`ept.c:528`); in `npt.c:491` nothing maps the block and an old result is tested | `ept.c:643`, `npt.c:513` "Guest RAM mapped (huge-preferred)" |
| `WalkStaysInTables` (Ept) | a walk follows a 2 MiB leaf as if it were a table (`ept.c:322`, `npt.c:210`) | `ept.c:788` "walk EPT tables to find the HPA of given GPA" |
| `ExitsToLiveTables` (ControlRegisters) | HOST_CR3 is read once, and the process whose tables it names may end (`vmx.c:1685`) | `docs/vcpu_execution_model.md:381` "Live CPU register state" |
| `PassthroughKept` (ControlRegisters, PROPERTY) | PG is forced on in any CR0 write that exits (`vmx.c:2137`) | `vmx.c:2105-2109` "the FULL requested value's real-register bits" |
| `CountIsPopulation` (ControlRegisters with 0 in `Cr3s`) | value 0 is stored in a slot that then reads as free; the count passes the table size (`vmx.c:2485`) | `vmx.c:2310` "number of populated entries" |
| `PprFollowsTpr` (Apic, PROPERTY) | PPR is computed from a cached TPR (`apic.c:396`) | `apic.c:815` "recomputed on demand from TPR/ISR" |
| `FailureNotResumed` (Apic, PROPERTY) | a failed emulation returns an error, which the stub resumes (`apic.c:1252`) | `vmexit.c:115-116` "cannot be silently resumed" |
| `EventuallyDelivered` (`Apic!Spec` with its constants and one vCPU, PROPERTY) | nothing moves a vector from IRR to the guest (`apic.c:782`) | `apic.c:770-771` "happens later in the run loop" |
| `TablesIntact` (BootKernel) | a kernel may be placed over the guest page tables (`boot.c:145`) | `ept.c:741-742` "at a high address to avoid conflicts" |
| `RipIsLinear` (GuestAccess) | the sum is multiplied by the mask (`mmu.c:199`) | `mmu.h:9` "converts a CS-relative RIP into a guest linear address" |
| `NoVmwriteInPhaseOne` (BringUp) | two VMWRITEs before a VMCS is current (`vmx.c:1304`) | `vcpu.c:74` "must not touch VMCS fields" |
| `ExceptionsIntercepted` (BringUp) | the bitmap is 0 (`vmx.c:1302`) | `vmx.c:1300` "intercept #UD(6) and #PF(14)" |
| `HostMsrsRestored` (BringUp) | exits load the guest's initial values (`vmx.c:1021`) | `vmx.c:1020` "restore host MSR values" |
| `GuestMsrsKept` (BringUp) | what exits store is never loaded (`vmx.c:1030`) | `docs/vcpu_execution_model.md:336` "the guest runs with its own EFER, LSTAR, etc." |
| `RomFreedOnFailure` (BootKernel) | a failed load does not unload (`seabios.c:119`) | `seabios.c:90` "cleanup is done by relm_seabios_unload()" |
| `RangeKeepsMappings` (Arm64, PROPERTY) | a page inside a block takes the rest of the block away (`stage2.c:366`), and there is no undo | `stage2.h` "Rolls back this call's own changes on failure; never removes a pre-existing mapping" |
| `NeverStuck` (Arm64) | VBAR_EL2 is written before HCR_EL2 with interrupts on; one taken in between ends in a vector that does not return (`arm64.c:259`) | `arm64.c` "writing it is what clears TGE and starts routing EL0/EL1 exceptions to relm_hyp_vectors instead of the host" |
| `ContextCurrent` (Arm64) | the host's registers are saved with interrupts and preemption on; what the host changes before VBAR_EL2 is written is put back to its old value at the exit (`arm64.c:194`, `315`) | `arm64.c:194` "Save host context", `entry.S:229` "restore host registers" |
| `ReadyMeansDriverOk` (VirtioMmio) | a Status without DRIVER_OK that is neither zero nor FAILED, as 0x100, whose low byte is zero, leaves queues ready (`virtio.c:305`, `307`) | `virtio.h:98-99` "Device status has reached DRIVER_OK" |
| `WindowsServed` (VirtioMmio) | a device registered a second time leaves its first window without a device (`virtio.c:38-41`) | `mmio.c:148` "guest touched an emulated device" |
| `DebugStateWritten` (ControlRegisters) | entry loads GUEST_DR7, which nothing writes; it is zero because the region is (`vmx.c:1152`) | `docs/architecure.md:529` "Load guest DR7 on entry" |
| `RefusedNotResumed` (ControlRegisters) | a write that the processor refuses with #GP exits first; the handler checks nothing and carries it out, and one that clears PAE in long mode fails at the next entry (`vmx.c:2139`, `2176`) | `vmexit.c:116` "an exit we can't emulate correctly cannot be silently resumed" |
| `MissingPageReported` (GuestAccess) | a region of MMIO is listed with `pages` = NULL, which the loops index (`vm.c:220`, `468`, `565`, `644`) | `vm.c:471` "NULL page at index %llu in region", and an error is returned |
| `OneShotCountsDown` (Apic, PROPERTY) | a new divider applies to the time already counted, so that the count can rise (`apic.c:746`) | `apic.c:715-716` "One-shot mode counts down and clamps at 0" |

DRIVER_OK also makes every queue with its three ring addresses ready, whether or
not QueueReady was written (`virtio.c:324`), while `virtio.h:98` asks for both.

The passing properties are stated so that these differences do not touch
them: `PinnedGuestIsOwned` speaks of a pinned thread, `EverythingReturned` names the
two leaks, `EntryLegal` and `ReadsBack` a guest that keeps paging on, the first also
one that writes what the processor allows, `ControlsLegal` the fields it takes as zero,
`CountIsExact` a timer that is not changed under way, `DevicesOwnWindows` pages that no
repeated registration touched, `HostRestored` registers that no interruption wrote,
`AnnouncedIsThere` a kernel at the default address, `EmulatedExactly` leaves out
loads of RSP and physical accesses to reserved offsets, `TablesExact` and
`TreeExact` leave out what a span loses when it gets leaves of both sizes, and
`TablesExact` where the 2 MiB leaves of `ept.c` lead.

## 6. What is not modelled

* Zydis, the decoder library, is external. `insn.c` and `inat.c`, an older byte
  decoder over generated tables, are in no build.
* Dumps, page-fault diagnostics, tracing: they change no state.
* Virtio device backends: none is in the repository.
* The SVM vCPU backend (`svm.c` and its handlers). It does not compile, and
  `relm_vcpu_vmcb_setup` writes through pointers it never sets, so that what the
  code means would have to be guessed. Of `npt.c` the invalidation (nothing calls
  it), the fault print, the CPUID test, the guest page tables (those of `ept.c` once
  more) and the dump.
* Of arm64 the dispatch of `vmexit.c`, which has no caller and names handlers that
  are not in the repository, and the fault classification and dump of `stage2.c`,
  which change no state.
* The values of segment and descriptor-table fields of the VMCS. The variants
  `relm_setup_guest_state` and `relm_setup_guest_state_firmware` have no caller.
* Attaching PCI devices to the IOMMU domain: no caller, and no lock, so that what
  may run at the same time is not decided yet.
* Debug registers, XCR0, CPUID leaves, and APIC registers that are only stored.

## 7. Plan

Built so far, in this order: the vCPU thread and its proofs; module life; EPT
with its abstract map; virtio; control registers and CR3 cache; APIC and timer;
boot and firmware; access to guest memory; vCPU setup; the composition of module
and vCPU; emulated instructions; arm64 stage-2 tables and world switch; contents of
the VMCS; 2 MiB leaves of both x86 backends; proofs of the world switch, the
composition, the control registers and the VMCS, then of the memory of a VM, the
CR3 cache, virtio and emulation, APIC and timer, copies, boot and firmware.

Next, when the code has it: callers of the stage-2 and 2 MiB calls, which would
say which mixtures of page sizes can occur; the arm64 exit dispatch; a device
backend for virtio; delivery of pending APIC vectors, with `EventuallyDelivered`
as its property; the SVM vCPU against the life in `VcpuLifecycle`.

Proofs still to write: those of `Stage2` and `LargePages`, where a tree has leaves
of two sizes (section 4.9).
