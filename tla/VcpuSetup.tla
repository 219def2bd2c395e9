------------------------------ MODULE VcpuSetup ------------------------------
(***************************************************************************)
(* What a VMX vCPU owns and what the processor does with it.               *)
(*                                                                         *)
(* Phase 1 (relm_vcpu_create, vmx_vcpu_alloc) allocates the pages the VMCS *)
(* will refer to, each allocation with its own unwinding label.  Phase 2   *)
(* (vmx_vcpu_init, on the kthread) makes the VMCS current and writes the   *)
(* addresses into it.  From then on every VM entry and exit swaps the MSRs *)
(* named in the three MSR areas, and every RDMSR and WRMSR of the guest is *)
(* looked up in the MSR bitmap.                                            *)
(*                                                                         *)
(* An MSR is a pair: the half of the bitmap that covers it ("low" for 0 to *)
(* 0x1FFF, "high" for 0xC0000000 to 0xC0001FFF, "out" for all others) and  *)
(* its number within it.  The processor is assumed to accept the MSR lists.*)
(***************************************************************************)
EXTENDS Integers, Sequences

CONSTANTS Msrs,      \* the MSRs the guest uses
          Writes     \* the values the guest writes

IA32_SYSENTER_CS == <<"low", 372>>
MSR_IA32_APIC_BASE == <<"low", 27>>
MSR_IA32_EFER == <<"high", 128>>
MSR_IA32_LSTAR == <<"high", 130>>

\* The MSRs of msr_indices: EFER, and LSTAR for the other six.
Listed == {MSR_IA32_EFER, MSR_IA32_LSTAR}

\* The values an MSR can have besides those the guest writes.
Zero      == 0      \* what vmentry_values gives to all MSRs but EFER
GuestEfer == 1      \* EFER_LME | EFER_LMA | EFER_SCE
HostValue == 2      \* what the host kernel keeps in an MSR
FixedBase == 3      \* the APIC base handle_msr_read reports

Values == {Zero, GuestEfer, HostValue, FixedBase} \cup Writes

\* The numbers of the MSRs in one half of the bitmap.
MsrTop == 8191
MsrNumbers == 0 .. MsrTop

ASSUME MsrsAssumption ==
    /\ Listed \cup {IA32_SYSENTER_CS, MSR_IA32_APIC_BASE} \subseteq Msrs
    /\ Msrs \subseteq {"low", "high", "out"} \X MsrNumbers

VARIABLES
    life,          \* where the vCPU is in its life
    allocated,         \* the blocks that are allocated
    ptr,         \* the pointers of the vCPU that are not NULL
    current,     \* the VMCS is current on the kthread's CPU
    progress,        \* the next allocation, or the next field of vmx_vcpu_init
    early,       \* a VMWRITE was executed while no VMCS was current
    exceptions,  \* vcpu->arch.exception_bitmap
    bitmap,      \* the bits set in vcpu->arch.msr_bitmap
    entryLoad,   \* vmentry_load_area
    exitLoad,    \* vmexit_load_area
    exitStore,   \* vmexit_store_area
    msr,         \* the MSRs of the CPU
    guest,       \* what each listed MSR holds from the guest's point of view
    seen         \* the last RDMSR of the guest: the MSR and the result

setupVars == <<allocated, ptr, current, progress, early, exceptions, bitmap>>
areaVars  == <<entryLoad, exitLoad, exitStore>>
msrVars   == <<msr, guest, seen>>
vcpuVars == <<life, setupVars, areaVars, msrVars>>

-----------------------------------------------------------------------------
(* Phase 1.                                                                *)

\* The allocations of relm_vcpu_create and vmx_vcpu_alloc, in order.
Allocations == <<"vcpu", "host_stack", "vapic_page", "apic_access_page",
                 "vmcs", "io_bitmap", "msr_bitmap", "vmexit_store_area",
                 "vmexit_load_area", "vmentry_load_area">>

Blocks == {Allocations[i] : i \in DOMAIN Allocations}

\* The cleanup labels: each releases its block and falls through to the next.
out_free_vcpu       == {"vcpu"}
out_free_stack      == {"host_stack"} \cup out_free_vcpu
free_vapic_page     == {"vapic_page"} \cup out_free_stack
out_free_apic       == {"vapic_page", "apic_access_page"} \cup out_free_stack
out_free_vmcs       == {"vmcs"} \cup out_free_apic
out_free_io_bitmap  == {"io_bitmap"} \cup out_free_vmcs
out_free_msr_bitmap == {"msr_bitmap"} \cup out_free_io_bitmap
out_free_exit_store == {"vmexit_store_area"} \cup out_free_msr_bitmap
out_free_exit_load  == {"vmexit_load_area"} \cup out_free_exit_store

\* Mutant: a failed MSR bitmap jumps one label too far.
Cleanup_Mut(i) ==
    <<{}, out_free_vcpu, out_free_stack, free_vapic_page, out_free_apic,
      out_free_vmcs, out_free_vmcs, out_free_msr_bitmap,
      out_free_exit_store, out_free_exit_load>>[i]

\* Where each failed allocation jumps to.
Cleanup(i) ==
    <<{}, out_free_vcpu, out_free_stack, free_vapic_page, out_free_apic,
      out_free_vmcs, out_free_io_bitmap, out_free_msr_bitmap,
      out_free_exit_store, out_free_exit_load>>[i]

VcpuInit ==
    /\ life = "create" /\ allocated = {} /\ ptr = {}
    /\ current = FALSE /\ progress = 1 /\ early = FALSE
    /\ exceptions = {} /\ bitmap = {}
    /\ entryLoad = [m \in Listed |-> Zero]
    /\ exitLoad = [m \in Listed |-> Zero]
    /\ exitStore = [m \in Listed |-> Zero]
    /\ msr = [m \in Msrs |-> HostValue]
    /\ guest = [m \in Listed |-> Zero]
    /\ seen = <<MSR_IA32_APIC_BASE, FixedBase>>

\* relm_clear_exception_intercept updates the bitmap and executes a VMWRITE,
\* whose failure vmx_vcpu_alloc does not see.
relm_clear_exception_intercept(vectors) ==
    /\ exceptions' = exceptions \ vectors
    /\ early' = (early \/ ~current)

\* Mutant: the read and the write halves of the page are swapped.
relm_msr_bitmap_set_Mut(m, access) ==
    IF m[1] = "out" THEN {}
    ELSE LET offset == IF m[1] = "low" THEN 0 ELSE 1024
         IN  {<<offset + (IF a = "read" THEN 2048 ELSE 0) + (m[2] \div 8),
                m[2] % 8>> : a \in access}

\* The bits relm_msr_bitmap_set sets for one MSR; none for one that neither
\* half covers.
relm_msr_bitmap_set(m, access) ==
    IF m[1] = "out" THEN {}
    ELSE LET offset == IF m[1] = "low" THEN 0 ELSE 1024
         IN  {<<offset + (IF a = "read" THEN 0 ELSE 2048) + (m[2] \div 8),
                m[2] % 8>> : a \in access}

\* Reads of two MSRs are intercepted, and no write.
relm_setup_msr_bitmap ==
    relm_msr_bitmap_set(IA32_SYSENTER_CS, {"read"})
        \cup relm_msr_bitmap_set(MSR_IA32_APIC_BASE, {"read"})

\* vmentry_values of relm_vcpu_setup_msr_state.
vmentry_values ==
    [m \in Listed |-> IF m = MSR_IA32_EFER THEN GuestEfer ELSE Zero]

\* One allocation succeeds, and what the code does up to the next one: the
\* intercepts after the I/O bitmap, the bits of the MSR bitmap and, once all
\* three areas exist, their contents: both load areas get vmentry_values.
Alloc ==
    /\ life = "create"
    /\ LET block == Allocations[progress]
           last  == progress = Len(Allocations)
       IN  /\ allocated' = allocated \cup {block}
           /\ ptr' = ptr \cup {block}
           /\ IF block = "io_bitmap" THEN relm_clear_exception_intercept({14, 16})
              ELSE UNCHANGED <<early, exceptions>>
           /\ bitmap' = IF block = "msr_bitmap" THEN relm_setup_msr_bitmap ELSE bitmap
           /\ entryLoad' = IF last THEN vmentry_values ELSE entryLoad
           /\ exitLoad' = IF last THEN vmentry_values ELSE exitLoad
           /\ guest' = IF last THEN vmentry_values ELSE guest
           /\ life' = IF last THEN "ready" ELSE life
           /\ progress' = IF last THEN 1 ELSE progress + 1
    /\ UNCHANGED <<current, exitStore, msr, seen>>

\* The vCPU is gone with everything the given release functions free.
Release(blocks) ==
    /\ allocated' = allocated \ (blocks \cap ptr)
    /\ ptr' = {}
    /\ life' = "gone"
    /\ UNCHANGED <<current, progress, early, exceptions, bitmap, areaVars, msrVars>>

AllocationFails == life = "create" /\ Release(Cleanup(progress))

\* vmx_vcpu_free releases what vmx_vcpu_alloc allocated.
vmx_vcpu_free ==
    {"vapic_page", "apic_access_page", "vmexit_store_area", "vmexit_load_area",
     "vmentry_load_area", "msr_bitmap", "io_bitmap", "vmcs"}

\* relm_vcpu_free, for a vCPU that never ran or whose kthread has exited.
relm_vcpu_free ==
    /\ life \in {"ready", "ended"}
    /\ Release(vmx_vcpu_free \cup out_free_stack)

-----------------------------------------------------------------------------
(* Phase 2.                                                                *)

\* The groups of fields vmx_vcpu_init writes, in order.
Fields == <<"EPT_POINTER", "controls", "VPID", "IO_BITMAP", "MSR_BITMAP",
            "EXIT_MSR_STORE", "EXIT_MSR_LOAD", "ENTRY_MSR_LOAD",
            "EXCEPTION_BITMAP", "CR3_TARGET_COUNT", "apic", "cr_controls",
            "host_state", "guest_state">>

\* The blocks of the vCPU whose addresses a group of fields holds.
Refers(f) ==
    CASE f = "IO_BITMAP"      -> {"io_bitmap"}
      [] f = "MSR_BITMAP"     -> {"msr_bitmap"}
      [] f = "EXIT_MSR_STORE" -> {"vmexit_store_area"}
      [] f = "EXIT_MSR_LOAD"  -> {"vmexit_load_area"}
      [] f = "ENTRY_MSR_LOAD" -> {"vmentry_load_area"}
      [] f = "apic"           -> {"vapic_page", "apic_access_page"}
      [] f = "host_state"     -> {"host_stack"}
      [] OTHER                -> {}

\* relm_vmclear and relm_vmptrld succeed.
MakeCurrent ==
    /\ life = "ready"
    /\ current' = TRUE
    /\ life' = "init"
    /\ UNCHANGED <<allocated, ptr, progress, early, exceptions, bitmap, areaVars, msrVars>>

\* Mutant: nothing ends the writing of fields.
WriteField_Mut ==
    /\ life = "init"
    /\ progress' = progress + 1
    /\ UNCHANGED <<life, allocated, ptr, current, early, exceptions, bitmap, areaVars, msrVars>>

\* One group of fields is written; the last one makes the vCPU runnable.
WriteField ==
    /\ life = "init"
    /\ progress' = progress + 1
    /\ life' = IF progress = Len(Fields) THEN "host" ELSE life
    /\ UNCHANGED <<allocated, ptr, current, early, exceptions, bitmap, areaVars, msrVars>>

\* Mutant: the exit path of the kthread does not call vmx_vcpu_destroy.
vmx_vcpu_destroy_Mut ==
    /\ life' = "ended"
    /\ UNCHANGED <<current, allocated, ptr, progress, early, exceptions, bitmap, areaVars, msrVars>>

\* The kthread ends: vmx_vcpu_destroy executes VMCLEAR.
vmx_vcpu_destroy ==
    /\ current' = FALSE
    /\ life' = "ended"
    /\ UNCHANGED <<allocated, ptr, progress, early, exceptions, bitmap, areaVars, msrVars>>

\* VMCLEAR, VMPTRLD, the test for an EPT context or a VMWRITE fails.
InitFails == life \in {"ready", "init"} /\ vmx_vcpu_destroy

\* relm_vcpu_loop leaves its loop.
LoopEnds == life = "host" /\ vmx_vcpu_destroy

-----------------------------------------------------------------------------
(* The processor with the areas and the bitmap it was given.               *)

\* The MSRs after the listed ones have been loaded from an area.
Loaded(area) == [m \in Msrs |-> IF m \in Listed THEN area[m] ELSE msr[m]]

\* VM entry loads the listed MSRs, after the EFER field of the VMCS.
VmEntry ==
    /\ life = "host"
    /\ life' = "guest"
    /\ msr' = Loaded(entryLoad)
    /\ UNCHANGED <<setupVars, areaVars, guest, seen>>

\* VM exit stores the listed MSRs and loads those of the exit list.
VmExit ==
    /\ life = "guest"
    /\ life' = "host"
    /\ exitStore' = [m \in Listed |-> msr[m]]
    /\ msr' = Loaded(exitLoad)
    /\ UNCHANGED <<setupVars, entryLoad, exitLoad, guest, seen>>

\* How the processor looks an access up in the bitmap: four sections of 1 KiB.
Intercepted(m, access) ==
    \/ m[1] = "out"
    \/ <<CASE m[1] = "low"  /\ access = "read"  -> m[2] \div 8
           [] m[1] = "high" /\ access = "read"  -> 1024 + (m[2] \div 8)
           [] m[1] = "low"  /\ access = "write" -> 2048 + (m[2] \div 8)
           [] OTHER                             -> 3072 + (m[2] \div 8),
         m[2] % 8>> \in bitmap

\* handle_msr_read: a fixed APIC base, and zero for any other MSR.
handle_msr_read(m) == IF m = MSR_IA32_APIC_BASE THEN FixedBase ELSE Zero

\* A VM exit, a handler that changes no MSR and the VMRESUME of the stub.
ExitAndResume ==
    /\ exitStore' = [m \in Listed |-> msr[m]]
    /\ msr' = Loaded(entryLoad)

ReadMsr(m) ==
    /\ life = "guest"
    /\ IF Intercepted(m, "read")
       THEN ExitAndResume /\ seen' = <<m, handle_msr_read(m)>>
       ELSE UNCHANGED <<exitStore, msr>> /\ seen' = <<m, msr[m]>>
    /\ UNCHANGED <<life, setupVars, entryLoad, exitLoad, guest>>

\* WRMSR is direct for an MSR the bitmap covers; handle_msr_write drops the
\* value of any other one.
WriteMsr(m, v) ==
    /\ life = "guest"
    /\ IF Intercepted(m, "write")
       THEN ExitAndResume /\ UNCHANGED guest
       ELSE /\ msr' = [msr EXCEPT ![m] = v]
            /\ guest' = IF m \in Listed THEN [guest EXCEPT ![m] = v] ELSE guest
            /\ UNCHANGED exitStore
    /\ UNCHANGED <<life, setupVars, entryLoad, exitLoad, seen>>

VcpuNext ==
    \/ Alloc \/ AllocationFails \/ relm_vcpu_free
    \/ MakeCurrent \/ WriteField \/ InitFails \/ LoopEnds
    \/ VmEntry \/ VmExit
    \/ \E m \in Msrs : ReadMsr(m)
    \/ \E m \in Msrs, v \in Writes : WriteMsr(m, v)

VcpuSpec == VcpuInit /\ [][VcpuNext]_vcpuVars

-----------------------------------------------------------------------------
(* Properties.                                                             *)

\* Type invariant. The blocks, fields and MSRs of the vCPU.
VcpuTypeOK ==
    /\ life \in {"create", "ready", "init", "host", "guest", "ended", "gone"}
    /\ allocated \subseteq Blocks /\ ptr \subseteq Blocks
    /\ current \in BOOLEAN /\ early \in BOOLEAN
    /\ progress \in 1 .. Len(Fields) + 1
    /\ exceptions \subseteq 0 .. 31
    /\ bitmap \subseteq (0 .. 4095) \X (0 .. 7)
    /\ {entryLoad, exitLoad, exitStore, guest} \subseteq [Listed -> Values]
    /\ msr \in [Msrs -> Values]
    /\ seen \in Msrs \X Values

\* However far relm_vcpu_create and vmx_vcpu_alloc got, and whether or not
\* the vCPU ever ran, every block is released by the time the vCPU is gone.
NothingLeaked == life = "gone" => allocated = {}

\* While the VMCS is current it and every address it holds refer to memory
\* that is still allocated: vmx_vcpu_destroy clears it before relm_vcpu_free.
VmcsRefersToLiveMemory ==
    current =>
        /\ "vmcs" \in allocated
        /\ \A i \in 1 .. progress - 1 : Refers(Fields[i]) \subseteq allocated

\* The bits relm_setup_msr_bitmap sets are those the processor looks up for
\* reads of the two MSRs, and no other access of the guest finds them.
ExactIntercepts ==
    current =>
        \A m \in Msrs, a \in {"read", "write"} :
            Intercepted(m, a) <=>
                \/ m[1] = "out"
                \/ a = "read" /\ m \in {IA32_SYSENTER_CS, MSR_IA32_APIC_BASE}

\* The guest never reads the host's APIC base, whatever it writes and however
\* often it exits (handle_msr_read: "Never the real host's MSR value").
ApicBaseIsVirtual == seen[1] = MSR_IA32_APIC_BASE => seen[2] = FixedBase

\* Exactly the two reads exit, and the exit answers with relm's value.
MsrViewIsVirtual == ExactIntercepts /\ ApicBaseIsVirtual

----------------------------------------------------------------------------
(* Claims of comments and documents that the code does not meet. *)

\* src/core/vcpu.c:74: vcpu_alloc "must not touch VMCS fields".
NoVmwriteInPhaseOne == ~early

\* docs/vcpu_execution_model.md:347: the exception bitmap has bits 6 and 14.
ExceptionsIntercepted == life = "guest" => {6, 14} \subseteq exceptions

\* docs/memory_model.md:430: the exit list "restores the host environment
\* before any C code runs".
HostMsrsRestored == life = "host" => \A m \in Listed : msr[m] = HostValue

\* docs/vcpu_execution_model.md:336: the entry list lets the guest run "with
\* its own EFER, LSTAR, etc.".
GuestMsrsKept == life = "guest" => \A m \in Listed : msr[m] = guest[m]

=============================================================================
