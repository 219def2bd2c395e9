--------------------------- MODULE VcpuLifecycle ---------------------------
(***************************************************************************)
(* The life of the (single) vCPU of a relm VM: relm_run_vm creates a       *)
(* kthread, the kthread pins itself to a host CPU, makes the VMCS current, *)
(* enters the guest and handles its exits; relm_stop_vm and                *)
(* relm_destroy_vm, called from another thread, end it.                    *)
(*                                                                         *)
(* Three actors interleave: the controller (module init and exit), the     *)
(* vCPU kthread and a device thread that calls ops->inject_irq.  The       *)
(* scheduler may move the kthread to any CPU of its affinity mask whenever *)
(* it is not in guest mode or in the exit stub.                            *)
(***************************************************************************)
EXTENDS FiniteSets

CONSTANTS Cpus,      \* cpu_online_mask
          Target     \* vcpu->target_cpu_id (HOST_CPU_ID)

ASSUME CpusAssumption == Cpus # {}

VARIABLES
    vmState,       \* vm->state
    alive,         \* vm->vcpus[0] # NULL: the vCPU has not been freed
    state,         \* vcpu->state
    host_task,     \* vcpu->host_task # NULL
    halted,        \* vcpu->halted
    launched,      \* vcpu->launched
    rsp_saved,     \* vcpu->arch.vmentry_host_rsp # 0
    irr,           \* some bit of vcpu->arch.apic.irr is set
    current_vcpu,  \* the CPUs whose per-CPU current_vcpu slot holds the vCPU
    vmcs_current,  \* the CPUs on which the vCPU's VMCS is the current one
    vmcs_launched, \* the launch state the hardware keeps in the VMCS
    pc,            \* where the kthread is
    cpu,           \* smp_processor_id() of the kthread
    allowed,       \* affinity mask of the kthread
    should_stop,   \* KTHREAD_SHOULD_STOP
    ctl,           \* where the controller is
    inj,           \* where the device thread is in relm_apic_inject_interrupt
    diag,          \* the last exit was a diagnostic-IDT VMCALL
    exit_clock     \* flips at every VM exit, so that no exit is a stutter

vcpuVars == <<state, halted, launched, rsp_saved, irr>>
hwVars   == <<vmcs_current, vmcs_launched>>
taskVars == <<pc, cpu, allowed>>
ghostVars == <<diag, exit_clock>>
vars == <<vmState, alive, host_task, should_stop, ctl, inj, ghostVars,
          current_vcpu, vcpuVars, hwVars, taskVars>>

VmStates   == {"INITIALIZED", "RUNNING", "STOPPED"}
VcpuStates == {"INITIALIZED", "RUNNING", "STOPPED", "ERROR"}

\* The points of relm_vcpu_loop, in program order.
BeforePin  == {"none", "created", "pin", "pinwait", "set_current"}
InitPcs    == {"vmclear", "vmptrld", "vmwrite"}
LoopPcs    == {"loop", "save_rsp", "vmentry", "guest", "back", "sleep"}
EndPcs     == {"arch_destroy", "clear_vcpu", "exited", "parked"}
Pcs        == BeforePin \cup InitPcs \cup LoopPcs \cup EndPcs

\* The points at which the kthread can be preempted or put to sleep.
Preemptible == Pcs \ {"none", "guest", "exited", "parked"}

\* Type invariant of the vCPU, its thread, the controller and the CPUs.
TypeOK ==
    /\ vmState \in VmStates
    /\ state \in VcpuStates
    /\ alive \in BOOLEAN /\ host_task \in BOOLEAN /\ should_stop \in BOOLEAN
    /\ halted \in BOOLEAN /\ launched \in BOOLEAN /\ rsp_saved \in BOOLEAN
    /\ irr \in BOOLEAN /\ vmcs_launched \in BOOLEAN
    /\ diag \in BOOLEAN /\ exit_clock \in BOOLEAN
    /\ current_vcpu \in SUBSET Cpus /\ vmcs_current \in SUBSET Cpus
    /\ pc \in Pcs /\ cpu \in Cpus /\ allowed \in SUBSET (Cpus \cup {Target})
    /\ ctl \in {"idle", "unpinned", "stopping", "destroying", "gone"}
    /\ inj \in {"idle", "wake"}

\* relm_create_vm and relm_vm_add_vcpu have succeeded.
Init ==
    /\ vmState = "INITIALIZED" /\ alive = TRUE
    /\ state = "INITIALIZED" /\ host_task = FALSE
    /\ halted = FALSE /\ launched = FALSE /\ rsp_saved = FALSE /\ irr = FALSE
    /\ current_vcpu = {} /\ vmcs_current = {} /\ vmcs_launched = FALSE
    /\ pc = "none" /\ cpu \in Cpus /\ allowed = Cpus /\ should_stop = FALSE
    /\ ctl = "idle" /\ inj = "idle"
    /\ diag = FALSE /\ exit_clock = FALSE

-----------------------------------------------------------------------------
(* The controller: relm_run_vm, relm_stop_vm, relm_destroy_vm.             *)

(* Definitions named ..._Mut are faulty variants of the definition that     *)
(* follows them; no specification uses them.                                *)

\* Mutant: relm_vcpu_run accepts a vCPU in any state.
vcpu_runnable_Mut == ~host_task

\* The test relm_vcpu_run makes before it creates the kthread.
vcpu_runnable == ~host_task /\ state = "INITIALIZED"

\* relm_run_vm with relm_vcpu_run succeeding: the kthread starts anywhere.
RunVm ==
    /\ ctl = "idle" /\ vmState \in {"INITIALIZED", "STOPPED"}
    /\ vcpu_runnable
    /\ vmState' = "RUNNING"
    /\ host_task' = TRUE /\ halted' = FALSE /\ should_stop' = FALSE
    /\ pc' = "created" /\ cpu' \in Cpus /\ allowed' = Cpus
    /\ UNCHANGED <<alive, ctl, inj, ghostVars, current_vcpu, hwVars,
                   state, launched, rsp_saved, irr>>

\* relm_run_vm with relm_vcpu_run failing, because the vCPU is not in state
\* INITIALIZED or because kthread_create fails: _stop_all_vcpus finds no
\* host_task to stop and leaves the VM in state INITIALIZED.
RunVmFails ==
    /\ ctl = "idle" /\ vmState \in {"INITIALIZED", "STOPPED"}
    /\ vmState' = "INITIALIZED"
    /\ halted' = (halted /\ ~vcpu_runnable)
    /\ UNCHANGED <<alive, host_task, should_stop, ctl, inj, ghostVars, current_vcpu,
                   hwVars, taskVars, state, launched, rsp_saved, irr>>

\* relm_stop_vm -> relm_vcpu_stop -> relm_vcpu_unpin_and_stop, first half:
\* the affinity mask is widened before the thread is told to stop.
StopVmUnpin ==
    /\ ctl = "idle" /\ host_task
    /\ allowed' = Cpus
    /\ ctl' = "unpinned"
    /\ UNCHANGED <<vmState, alive, host_task, should_stop, inj, ghostVars,
                   current_vcpu, vcpuVars, hwVars, pc, cpu>>

\* kthread_stop: raise the flag and wake the thread, then wait for it.
StopVmSignal ==
    /\ ctl = "unpinned"
    /\ should_stop' = TRUE
    /\ ctl' = "stopping"
    /\ UNCHANGED <<vmState, alive, host_task, inj, ghostVars, current_vcpu,
                   vcpuVars, hwVars, taskVars>>

\* kthread_stop returns; relm_vcpu_stop and relm_stop_vm finish.
StopVmJoin ==
    /\ ctl = "stopping" /\ pc = "exited"
    /\ host_task' = FALSE
    /\ vmState' = "STOPPED"
    /\ ctl' = "idle"
    /\ UNCHANGED <<alive, should_stop, inj, ghostVars, current_vcpu, vcpuVars,
                   hwVars, taskVars>>

\* relm_stop_vm with no kthread to stop.
StopVmNoTask ==
    /\ ctl = "idle" /\ ~host_task
    /\ vmState' = "STOPPED"
    /\ UNCHANGED <<alive, host_task, should_stop, ctl, inj, ghostVars, current_vcpu,
                   vcpuVars, hwVars, taskVars>>

\* relm_destroy_vm: kthread_stop, without unpinning, if there is a kthread.
DestroyVm ==
    /\ ctl = "idle"
    /\ should_stop' = (should_stop \/ host_task)
    /\ ctl' = "destroying"
    /\ UNCHANGED <<vmState, alive, host_task, inj, ghostVars, current_vcpu,
                   vcpuVars, hwVars, taskVars>>

\* Mutant: relm_destroy_vm does not wait for the kthread.
DestroyVmFree_Mut ==
    /\ ctl = "destroying"
    /\ alive' = FALSE
    /\ ctl' = "gone"
    /\ UNCHANGED <<vmState, host_task, should_stop, inj, ghostVars,
                   current_vcpu, vcpuVars, hwVars, taskVars>>

\* relm_vcpu_free and the rest of relm_destroy_vm, once the thread is gone.
DestroyVmFree ==
    /\ ctl = "destroying" /\ (host_task => pc = "exited")
    /\ alive' = FALSE
    /\ ctl' = "gone"
    /\ UNCHANGED <<vmState, host_task, should_stop, inj, ghostVars, current_vcpu,
                   vcpuVars, hwVars, taskVars>>

ControlStep ==
    \/ RunVm \/ RunVmFails \/ StopVmUnpin \/ StopVmSignal \/ StopVmJoin
    \/ StopVmNoTask \/ DestroyVm \/ DestroyVmFree

-----------------------------------------------------------------------------
(* The exit handlers, as the set of outcomes each one can have.  "ret" is  *)
(* the value handle_vmexit hands to the assembly stub, "to" the vCPU state *)
(* the handler leaves ("RUNNING" when it does not write it).               *)

Outcome == [ret : {0, 1}, to : {"RUNNING", "STOPPED", "ERROR"},
            halt : BOOLEAN, irq : BOOLEAN, diag : BOOLEAN]

Result(ret, to, halt, irq, dg) ==
    [ret |-> ret, to |-> to, halt |-> halt, irq |-> irq, diag |-> dg]

Plain     == Result(1, "RUNNING", FALSE, FALSE, FALSE)
Interrupt == Result(1, "RUNNING", FALSE, TRUE, FALSE)
Stopped   == Result(0, "STOPPED", FALSE, FALSE, FALSE)
Error     == Result(0, "ERROR", FALSE, FALSE, FALSE)
Halt      == Result(0, "RUNNING", TRUE, FALSE, FALSE)
Diag      == Result(0, "RUNNING", FALSE, FALSE, TRUE)

handle_exception_nmi == {Plain, Stopped}
handle_external_interrupt == {Plain}
handle_triple_fault == {Stopped}
\* Every error return of relm_apic_handle_access is negative, so the stub
\* resumes the guest; a register write may send an interrupt to this vCPU.
handle_apic_access == {Plain, Interrupt, Stopped}
handle_init_signal == {Stopped}
\* Mutant: HLT is recorded in the vCPU state instead of in vcpu->halted.
handle_hlt_Mut == {Result(0, "HALTED", FALSE, FALSE, FALSE)}
handle_hlt == {Halt}
handle_cpuid == {Plain}
handle_io_instruction == {Plain}
\* A VMCALL from the diagnostic IDT stubs returns 0 and changes no state.
handle_vmcall == {Plain, Diag}
handle_msr == {Plain}
\* A virtio access may inject an interrupt before the guest is resumed.
handle_ept_violation == {Plain, Interrupt, Error, Stopped}
handle_cr_access == {Plain, Stopped}
handle_fatal == {Stopped}
handle_ept_misconfig == {Error}
handle_xsetbv == {Plain, Stopped}

\* The switch of handle_vmexit.  A VM-entry failure reported as an exit
\* (bit 31 of the reason) and an unknown reason are the cases of handle_fatal.
handle_vmexit ==
    UNION {handle_exception_nmi, handle_external_interrupt,
           handle_triple_fault, handle_apic_access, handle_init_signal,
           handle_hlt, handle_cpuid, handle_io_instruction, handle_vmcall,
           handle_msr, handle_ept_violation, handle_cr_access, handle_fatal,
           handle_ept_misconfig, handle_xsetbv}

-----------------------------------------------------------------------------
(* The kthread: relm_vcpu_loop and the assembly stubs.                      *)

threadElse == <<vmState, alive, host_task, should_stop, ctl, inj>>

\* The kthread goes from one point to another and changes nothing else.
Goto(from, to) ==
    /\ pc = from /\ pc' = to
    /\ UNCHANGED <<threadElse, ghostVars, current_vcpu, vcpuVars, hwVars, cpu,
                   allowed>>

\* The kthread leaves its current point for "to" with a new vCPU state.
Fail(from, to) ==
    /\ pc = from /\ pc' = to
    /\ state' = "ERROR"
    /\ UNCHANGED <<threadElse, ghostVars, current_vcpu, hwVars, cpu, allowed,
                   halted, launched, rsp_saved, irr>>

\* The scheduler moves a preemptible kthread within its affinity mask.
Migrate ==
    /\ pc \in Preemptible
    /\ cpu' \in (allowed \cap Cpus) \ {cpu}
    /\ UNCHANGED <<threadElse, ghostVars, current_vcpu, vcpuVars, hwVars, pc,
                   allowed>>

\* A kthread that is told to stop before it first runs never calls its
\* function (kthread() in the kernel).
ThreadNeverRuns == should_stop /\ Goto("created", "exited")

\* relm_vcpu_loop registers itself on the CPU it happens to start on.
ThreadStart ==
    /\ pc = "created" /\ ~should_stop
    /\ current_vcpu' = current_vcpu \cup {cpu}
    /\ pc' = "pin"
    /\ UNCHANGED <<threadElse, ghostVars, vcpuVars, hwVars, cpu, allowed>>

\* relm_vcpu_pin_to_cpu: the mask is narrowed, the move comes later.
PinToCpu ==
    /\ pc = "pin" /\ Target \in Cpus
    /\ allowed' = {Target}
    /\ pc' = "pinwait"
    /\ UNCHANGED <<threadElse, ghostVars, current_vcpu, vcpuVars, hwVars, cpu>>

\* The target is not online, or set_cpus_allowed_ptr fails.
PinFails == Fail("pin", "clear_vcpu")

\* The loop around schedule() ends on the target CPU.
PinDone == cpu = Target /\ Goto("pinwait", "set_current")

\* Mutant: no second registration after the pinning.
SetCurrent_Mut == Goto("set_current", "vmclear")

\* The registration after the pinning.
SetCurrent ==
    /\ pc = "set_current"
    /\ current_vcpu' = current_vcpu \cup {cpu}
    /\ pc' = "vmclear"
    /\ UNCHANGED <<threadElse, ghostVars, vcpuVars, hwVars, cpu, allowed>>

\* VMCLEAR makes the VMCS inactive on the executing CPU and clears its
\* launch state.
VmClear(to) ==
    /\ vmcs_current' = vmcs_current \ {cpu}
    /\ vmcs_launched' = FALSE
    /\ pc' = to
    /\ UNCHANGED <<threadElse, ghostVars, current_vcpu, cpu, allowed>>

\* vmx_vcpu_init, up to the first VMWRITE.
InitVmClear == pc = "vmclear" /\ VmClear("vmptrld") /\ UNCHANGED vcpuVars

InitVmPtrLd ==
    /\ pc = "vmptrld"
    /\ vmcs_current' = vmcs_current \cup {cpu}
    /\ pc' = "vmwrite"
    /\ UNCHANGED <<threadElse, ghostVars, current_vcpu, vcpuVars, vmcs_launched,
                   cpu, allowed>>

\* The VMWRITEs of vmx_vcpu_init: they fail on a CPU without a current VMCS.
InitVmWrite ==
    /\ pc = "vmwrite" /\ cpu \in vmcs_current
    /\ state' = "RUNNING"
    /\ pc' = "loop"
    /\ UNCHANGED <<threadElse, ghostVars, current_vcpu, hwVars, cpu, allowed,
                   halted, launched, rsp_saved, irr>>

\* Mutant: a failed vcpu_init skips vcpu_destroy.
InitFails_Mut == \E p \in InitPcs : Fail(p, "clear_vcpu")

\* An error of vcpu_init leads to _out_arch_destroy.
InitFails == \E p \in InitPcs : Fail(p, "arch_destroy")

LoopContinue == ~should_stop /\ Goto("loop", "save_rsp")
LoopEnd == should_stop /\ Goto("loop", "arch_destroy")

\* relm_vmentry_asm up to the VMX instruction; relm_vmentry_save_rsp stores
\* the stack pointer only if this CPU has a current vCPU.
SaveRsp ==
    /\ pc = "save_rsp"
    /\ rsp_saved' = (rsp_saved \/ cpu \in current_vcpu)
    /\ pc' = "vmentry"
    /\ UNCHANGED <<threadElse, ghostVars, current_vcpu, hwVars, cpu, allowed,
                   state, halted, launched, irr>>

\* VMLAUNCH needs a clear VMCS that is current here, VMRESUME a launched one.
EntryPossible == cpu \in vmcs_current /\ launched = vmcs_launched

VmEntry ==
    /\ pc = "vmentry" /\ EntryPossible
    /\ vmcs_launched' = TRUE
    /\ pc' = "guest"
    /\ UNCHANGED <<threadElse, ghostVars, current_vcpu, vcpuVars, vmcs_current, cpu,
                   allowed>>

\* vmx_error: also taken when the VMCS contents are refused.
VmEntryFails == Fail("vmentry", "arch_destroy")

\* Mutant: nothing records that the VMCS has been launched.
VmExit_Mut(o, refused) ==
    /\ pc = "guest" /\ cpu \in current_vcpu
    /\ (refused => o.ret # 0)
    /\ state' = IF o.to = "RUNNING" THEN state ELSE o.to
    /\ halted' = (o.halt \/ (halted /\ ~o.irq))
    /\ irr' = (irr \/ o.irq)
    /\ diag' = o.diag /\ exit_clock' = ~exit_clock
    /\ pc' = IF o.ret # 0 /\ ~refused THEN "guest"
             ELSE IF rsp_saved THEN "back" ELSE "parked"
    /\ UNCHANGED <<threadElse, current_vcpu, hwVars, cpu, allowed, launched,
                   rsp_saved>>

\* A VM exit on a CPU with a current vCPU: handle_vmexit, then either the
\* VMRESUME of the stub, which may itself fail ("refused"), or the unwinding
\* to relm_vcpu_loop.
VmExit(o, refused) ==
    /\ pc = "guest" /\ cpu \in current_vcpu
    /\ (refused => o.ret # 0)
    /\ launched' = TRUE
    /\ state' = IF o.to = "RUNNING" THEN state ELSE o.to
    /\ halted' = (o.halt \/ (halted /\ ~o.irq))
    /\ irr' = (irr \/ o.irq)
    /\ diag' = o.diag /\ exit_clock' = ~exit_clock
    /\ pc' = IF o.ret # 0 /\ ~refused THEN "guest"
             ELSE IF rsp_saved THEN "back" ELSE "parked"
    /\ UNCHANGED <<threadElse, current_vcpu, hwVars, cpu, allowed, rsp_saved>>

\* handle_vmexit and relm_vmentry_get_rsp find no current vCPU: the stub has
\* no stack to return on and parks the CPU.
VmExitNoVcpu == cpu \notin current_vcpu /\ Goto("guest", "parked")

\* vcpu_run has returned 0: handle_exit and the tests that follow it.
AfterExit ==
    \/ state # "RUNNING" /\ Goto("back", "arch_destroy")
    \/ state = "RUNNING" /\ halted /\ Goto("back", "sleep")
    \/ state = "RUNNING" /\ ~halted /\ Goto("back", "loop")

\* Mutant: the wait condition does not look at kthread_should_stop().
Wake_Mut == ~halted /\ Goto("sleep", "loop")

\* wait_event_interruptible(vcpu->wq, !halted || kthread_should_stop()).
Wake == (~halted \/ should_stop) /\ Goto("sleep", "loop")

\* _out_arch_destroy: vmx_vcpu_destroy, then STOPPED unless already ERROR.
ArchDestroy ==
    /\ pc = "arch_destroy"
    /\ VmClear("clear_vcpu")
    /\ state' = IF state = "ERROR" THEN "ERROR" ELSE "STOPPED"
    /\ UNCHANGED <<halted, launched, rsp_saved, irr>>

\* _out_clear_vcpu: only the slot of the executing CPU is cleared.
ClearVcpu ==
    /\ pc = "clear_vcpu"
    /\ current_vcpu' = current_vcpu \ {cpu}
    /\ pc' = "exited"
    /\ UNCHANGED <<threadElse, ghostVars, vcpuVars, hwVars, cpu, allowed>>

HostStep ==
    \/ ThreadNeverRuns \/ ThreadStart \/ PinToCpu \/ PinFails \/ PinDone
    \/ SetCurrent \/ InitVmClear \/ InitVmPtrLd \/ InitVmWrite \/ InitFails
    \/ LoopContinue \/ LoopEnd \/ SaveRsp \/ VmEntry \/ VmEntryFails
    \/ AfterExit \/ Wake \/ ArchDestroy \/ ClearVcpu

GuestStep ==
    \/ \E o \in handle_vmexit, refused \in BOOLEAN : VmExit(o, refused)
    \/ VmExitNoVcpu

-----------------------------------------------------------------------------
(* The device thread: relm_apic_inject_interrupt from outside the kthread.  *)

\* Under apic->lock the request bit is set ...
InjectRequest ==
    /\ alive /\ inj = "idle"
    /\ irr' = TRUE
    /\ inj' = "wake"
    /\ UNCHANGED <<vmState, alive, host_task, should_stop, ctl, ghostVars,
                   current_vcpu, hwVars, taskVars, state, halted, launched,
                   rsp_saved>>

\* Mutant: the thread is woken, but the flag it waits for is not cleared.
InjectWake_Mut ==
    /\ inj = "wake"
    /\ inj' = "idle"
    /\ UNCHANGED <<vmState, alive, host_task, should_stop, ctl, ghostVars,
                   current_vcpu, hwVars, taskVars, vcpuVars>>

\* ... and after the unlock the vCPU is woken.
InjectWake ==
    /\ inj = "wake"
    /\ halted' = FALSE
    /\ inj' = "idle"
    /\ UNCHANGED <<vmState, alive, host_task, should_stop, ctl, ghostVars,
                   current_vcpu, hwVars, taskVars, state, launched, rsp_saved,
                   irr>>

Next ==
    \/ ControlStep \/ HostStep \/ GuestStep \/ Migrate
    \/ InjectRequest \/ InjectWake

Spec == Init /\ [][Next]_vars

(* Fairness.  The scheduler runs every runnable thread and moves a thread   *)
(* off a CPU its mask forbids; a waiting controller notices the exit of the *)
(* kthread; a guest is always interrupted eventually, because the host's    *)
(* timer interrupt exits the guest (VMCS_PIN_EXTINT_EXITING).               *)
FairSpec ==
    /\ Spec
    /\ WF_vars(HostStep)
    /\ WF_vars(allowed = {Target} /\ Migrate)
    /\ WF_vars(GuestStep)
    /\ WF_vars(StopVmSignal \/ StopVmJoin \/ DestroyVmFree)
    /\ WF_vars(InjectWake)

\* The exits after which the stub unwinds to relm_vcpu_loop.
Unwind == \E o \in handle_vmexit, r \in BOOLEAN : o.ret = 0 /\ VmExit(o, r)

\* FairSpec for a guest that idles (or faults) again and again.
IdlingGuestSpec == FairSpec /\ SF_vars(Unwind)

-----------------------------------------------------------------------------
(* Properties.                                                             *)

\* While the kthread is confined to its target CPU, the guest runs only
\* there, with its VMCS current and its vCPU in the slot that handle_vmexit
\* reads (relm_vcpu_loop: pin, register, VMPTRLD, enter).
PinnedGuestIsOwned ==
    pc = "guest" /\ allowed = {Target} =>
        /\ cpu = Target
        /\ Target \in current_vcpu
        /\ Target \in vmcs_current

\* The exit stub never loses the way back to the kthread's stack
\* (.Lvmexit_fatal) while the kthread is confined to its target CPU.
NeverParkedWhilePinned == pc = "parked" => allowed # {Target}

\* Whenever relm_vmentry_asm picks VMLAUNCH or VMRESUME on a CPU where the
\* VMCS is current, vcpu->launched agrees with the launch state in the VMCS,
\* although no code ever resets the flag.
LaunchFlagMatchesVmcs ==
    pc = "vmentry" /\ cpu \in vmcs_current => (launched <=> vmcs_launched)

\* relm_destroy_vm frees the vCPU only when no kthread can touch it again.
FreedAfterExit == ~alive => pc \in {"none", "exited"}

\* A vCPU with a host_task belongs to a VM in state RUNNING, so relm_run_vm
\* never meets the "already running, skipping" case of its loop.
HostTaskMeansVmRunning == host_task => vmState = "RUNNING"

\* A kthread that was never unpinned leaves no CPU with its VMCS current:
\* the VMCLEAR of vmx_vcpu_destroy ran where the VMPTRLD had run.
VmcsReleasedWhilePinned ==
    pc = "exited" /\ allowed = {Target} => vmcs_current = {}

\* The order of the teardown: memory after the kthread, VMCLEAR before it.
TeardownOrder == FreedAfterExit /\ VmcsReleasedWhilePinned

\* Once a vCPU is in state ERROR it stays there: the exit path of
\* relm_vcpu_loop does not turn it into STOPPED, and it is never run again.
ErrorIsFinal == [][state = "ERROR" => state' = "ERROR"]_vars

\* Once HLT has set vcpu->halted, an injection that is still to wake the vCPU
\* does so, whether it comes before relm_vcpu_loop tests the flag, between the
\* test and the wait or while the thread is asleep, and whatever the controller
\* does meanwhile (wait_event_interruptible tests !halted again).
WakeNotLost ==
    (pc \in {"back", "sleep"} /\ halted /\ inj = "wake")
        ~> (pc \notin {"back", "sleep"})

\* A stop request ends a kthread that is asleep in HLT, wherever it wakes up,
\* and a pinned one whose guest keeps returning to relm_vcpu_loop.
StopCompletes ==
    (should_stop /\ (pc = "sleep" \/ (pc = "guest" /\ allowed = {Target})))
        ~> (pc = "exited")

----------------------------------------------------------------------------
(* Claims of comments and documents that the code does not meet. *)

\* docs/vcpu_execution_model.md:181: smp_processor_id() ==
\* vcpu->target_cpu_id "will remain true for the lifetime of the thread".
PinnedForLife == pc \in InitPcs \cup LoopPcs \cup {"arch_destroy"} => cpu = Target

\* docs/vcpu_execution_model.md:460: clearing current_vcpu "prevents the
\* vmexit handler from seeing a dangling pointer" to a freed vCPU.
NoDanglingSlot == ~alive => current_vcpu = {}

\* src/core/vm.c:376, relm_destroy_vm takes a non-NULL host_task for a running
\* thread: "if VCPU has runnning thread, stop it first".
HostTaskIsLive == host_task /\ ctl = "idle" => pc # "exited"

\* src/arch/x86/vmx/vmexit.c:476: a diagnostic VMCALL is to "stop guest".
DiagStopsGuest == diag => pc # "guest"

\* docs/vcpu_execution_model.md:425: after every handled VM exit "the loop
\* iterates", and the loop tests kthread_should_stop().
BusyGuestStops == (should_stop /\ pc = "guest") ~> (pc # "guest")

\* src/arch/x86/vmx/vmexit.c:298: after HLT the guest "expects to resume at
\* the next instruction once an interrupt is delivered".
HaltEndsOnInterrupt == (pc = "sleep" /\ irr) ~> (pc # "sleep")

=============================================================================
