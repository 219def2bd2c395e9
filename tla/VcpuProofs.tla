----------------------------- MODULE VcpuProofs -----------------------------
(***************************************************************************)
(* Proofs about how a vCPU runs: the safety of its thread on x86           *)
(* (VcpuLifecycle), for any non-empty set of online CPUs and any target    *)
(* CPU, and of the world switch on arm64 (WorldSwitch), for every grouping *)
(* of the registers that meets WorldSwitchAssumption and every value they  *)
(* can hold.                                                               *)
(***************************************************************************)
EXTENDS VcpuLifecycle, WorldSwitch, TLAPS

-----------------------------------------------------------------------------
(* The inductive invariant.                                                *)

\* What the vCPU state can be at each point of the kthread.
StateByPc ==
    /\ pc \in BeforePin \cup InitPcs => state = "INITIALIZED"
    /\ pc \in LoopPcs \ {"back"} => state = "RUNNING"
    /\ pc \in {"back", "arch_destroy", "parked"} => state # "INITIALIZED"
    /\ pc = "clear_vcpu" => state \in {"STOPPED", "ERROR"}
    /\ pc = "exited" => state # "RUNNING"

\* The affinity mask is the full one or the target alone; when it is the
\* target alone, the kthread is there once it has waited for it.
Affinity ==
    /\ allowed \in {Cpus, {Target}}
    /\ (pc \in {"set_current", "arch_destroy"} \cup InitPcs \cup LoopPcs
            /\ allowed = {Target}) => cpu = Target

\* The registrations that a pinned kthread has made on its target CPU.
Registered ==
    /\ (pc \in InitPcs \cup LoopPcs /\ allowed = {Target}) =>
           Target \in current_vcpu
    /\ (pc \in {"vmwrite"} \cup LoopPcs /\ allowed = {Target}) =>
           Target \in vmcs_current
    /\ (pc \in {"vmentry", "guest", "back", "sleep"} /\ allowed = {Target}) =>
           rsp_saved
    /\ pc = "parked" => allowed # {Target}

\* Where the VMCS is current.
VmcsPlace ==
    /\ pc \in BeforePin \cup {"vmclear", "vmptrld"} => vmcs_current = {}
    /\ (pc = "exited" /\ state = "INITIALIZED") => vmcs_current = {}
    /\ allowed = {Target} => vmcs_current \subseteq {Target}
    /\ (pc \in {"clear_vcpu", "exited"} /\ allowed = {Target}) =>
           vmcs_current = {}

\* vcpu->launched against the launch state of the VMCS.
LaunchState ==
    /\ state = "INITIALIZED" => ~launched
    /\ pc \in {"vmptrld", "vmwrite"} => ~vmcs_launched
    /\ pc \in {"loop", "save_rsp", "vmentry"} => launched = vmcs_launched
    /\ pc \in {"guest", "back", "sleep"} => vmcs_launched
    /\ pc \in {"back", "sleep"} => launched

\* The controller, the kthread and the VM state.
Control ==
    /\ host_task => vmState = "RUNNING"
    /\ ~host_task => pc \in {"none", "exited"}
    /\ ctl \in {"unpinned", "stopping"} => host_task
    /\ ~alive => ctl = "gone" /\ pc \in {"none", "exited"}

IInv == TypeOK /\ StateByPc /\ Affinity /\ Registered /\ VmcsPlace
          /\ LaunchState /\ Control

\* What TypeOK needs of the constants: the sets of points are finite sets of
\* strings, unfolded together.
USE DEF VmStates, VcpuStates, BeforePin, InitPcs, LoopPcs, EndPcs, Pcs

-----------------------------------------------------------------------------
(* The outcomes of the exit handlers.                                      *)

\* Every outcome of handle_vmexit is well formed, and a handler that asks the
\* stub to resume the guest has left the vCPU in state RUNNING.
LEMMA HandlerOutcome ==
    ASSUME NEW o \in handle_vmexit
    PROVE  /\ o \in Outcome
           /\ o.ret # 0 => o.to = "RUNNING"
  <1>1. o \in {Plain, Interrupt, Stopped, Error, Halt, Diag}
    BY DEF handle_vmexit, handle_exception_nmi, handle_external_interrupt,
           handle_triple_fault, handle_apic_access, handle_init_signal,
           handle_hlt, handle_cpuid, handle_io_instruction, handle_vmcall,
           handle_msr, handle_ept_violation, handle_cr_access, handle_fatal,
           handle_ept_misconfig, handle_xsetbv
  <1> USE DEF Outcome, Result
  <1>2. CASE o = Plain
    BY Zenon, <1>2 DEF Plain
  <1>3. CASE o = Interrupt
    BY Zenon, <1>3 DEF Interrupt
  <1>4. CASE o = Stopped
    BY Zenon, <1>4 DEF Stopped
  <1>5. CASE o = Error
    BY Zenon, <1>5 DEF Error
  <1>6. CASE o = Halt
    BY Zenon, <1>6 DEF Halt
  <1>7. CASE o = Diag
    BY Zenon, <1>7 DEF Diag
  <1> QED
    BY Zenon, <1>1, <1>2, <1>3, <1>4, <1>5, <1>6, <1>7

-----------------------------------------------------------------------------
(* The invariant is inductive.                                             *)

LEMMA InitIInv == Init => IInv
  BY Zenon, CpusAssumption DEF Init, IInv, TypeOK, StateByPc, Affinity, Registered,
     VmcsPlace, LaunchState, Control

\* The steps of the controller.
LEMMA ControlIInv ==
    ASSUME IInv, ControlStep
    PROVE  IInv'
  <1> USE DEF IInv, TypeOK, StateByPc, Affinity, Registered, VmcsPlace, LaunchState,
           Control, vcpuVars, hwVars, taskVars, ghostVars, threadElse
  <1>1. CASE RunVm
    BY ZenonT(30), <1>1 DEF RunVm, vcpu_runnable
  <1>2. CASE RunVmFails
    BY <1>2 DEF RunVmFails, vcpu_runnable
  <1>3. CASE StopVmUnpin
    BY <1>3 DEF StopVmUnpin
  <1>4. CASE StopVmSignal
    BY <1>4 DEF StopVmSignal
  <1>5. CASE StopVmJoin
    <2>1. ~host_task' /\ host_task' \in BOOLEAN
      BY Zenon, <1>5 DEF StopVmJoin
    <2> QED
      BY <1>5, <2>1 DEF StopVmJoin
  <1>6. CASE StopVmNoTask
    BY <1>6 DEF StopVmNoTask
  <1>7. CASE DestroyVm
    BY <1>7 DEF DestroyVm
  <1>8. CASE DestroyVmFree
    <2>1. ~alive' /\ alive' \in BOOLEAN
      BY Zenon, <1>8 DEF DestroyVmFree
    <2> QED
      BY <1>8, <2>1 DEF DestroyVmFree
  <1> QED
    BY Zenon, <1>1, <1>2, <1>3, <1>4, <1>5, <1>6, <1>7, <1>8 DEF ControlStep

\* The steps of the kthread in host mode.
LEMMA HostIInv ==
    ASSUME IInv, HostStep
    PROVE  IInv'
  <1> USE DEF IInv, TypeOK, StateByPc, Affinity, Registered, VmcsPlace, LaunchState,
           Control, vcpuVars, hwVars, taskVars, ghostVars, threadElse
  <1>1. CASE ThreadNeverRuns
    BY <1>1 DEF ThreadNeverRuns, Goto
  <1>2. CASE ThreadStart
    BY <1>2 DEF ThreadStart
  <1>3. CASE PinToCpu
    BY <1>3 DEF PinToCpu
  <1>4. CASE PinFails
    BY <1>4 DEF PinFails, Fail
  <1>5. CASE PinDone
    BY <1>5 DEF PinDone, Goto
  <1>6. CASE SetCurrent
    BY <1>6 DEF SetCurrent
  <1>7. CASE InitVmClear
    <2>1. ~vmcs_launched' /\ vmcs_launched' \in BOOLEAN
      BY Zenon, <1>7 DEF InitVmClear, VmClear
    <2> QED
      BY <1>7, <2>1 DEF InitVmClear, VmClear
  <1>8. CASE InitVmPtrLd
    BY <1>8 DEF InitVmPtrLd
  <1>9. CASE InitVmWrite
    BY <1>9 DEF InitVmWrite
  <1>10. CASE InitFails
    BY <1>10 DEF InitFails, Fail
  <1>11. CASE LoopContinue
    BY <1>11 DEF LoopContinue, Goto
  <1>12. CASE LoopEnd
    BY <1>12 DEF LoopEnd, Goto
  <1>13. CASE SaveRsp
    BY <1>13 DEF SaveRsp
  <1>14. CASE VmEntry
    BY <1>14 DEF VmEntry, EntryPossible
  <1>15. CASE VmEntryFails
    BY <1>15 DEF VmEntryFails, Fail
  <1>16. CASE AfterExit
    <2>1. CASE state # "RUNNING" /\ Goto("back", "arch_destroy")
      BY <2>1 DEF Goto
    <2>2. CASE state = "RUNNING" /\ halted /\ Goto("back", "sleep")
      BY <2>2 DEF Goto
    <2>3. CASE state = "RUNNING" /\ ~halted /\ Goto("back", "loop")
      BY <2>3 DEF Goto
    <2> QED
      BY Zenon, <1>16, <2>1, <2>2, <2>3 DEF AfterExit
  <1>17. CASE Wake
    BY <1>17 DEF Wake, Goto
  <1>18. CASE ArchDestroy
    <2>1. ~vmcs_launched' /\ vmcs_launched' \in BOOLEAN
      BY Zenon, <1>18 DEF ArchDestroy, VmClear
    <2> QED
      BY <1>18, <2>1 DEF ArchDestroy, VmClear
  <1>19. CASE ClearVcpu
    BY <1>19 DEF ClearVcpu
  <1> QED
    BY ZenonT(30), <1>1, <1>2, <1>3, <1>4, <1>5, <1>6, <1>7, <1>8, <1>9, <1>10,
       <1>11, <1>12, <1>13, <1>14, <1>15, <1>16, <1>17, <1>18,
       <1>19 DEF HostStep

\* A VM exit: only the outcome of the handler matters.
LEMMA VmExitIInv ==
    ASSUME IInv, NEW o \in handle_vmexit, NEW refused \in BOOLEAN,
           VmExit(o, refused)
    PROVE  IInv'
  <1> USE DEF IInv, TypeOK, StateByPc, Affinity, Registered, VmcsPlace,
           LaunchState, Control, vcpuVars, hwVars, taskVars, ghostVars,
           threadElse
  <1>1. o \in Outcome /\ (o.ret # 0 => o.to = "RUNNING")
    BY Zenon, HandlerOutcome
  <1>2. /\ o.to \in {"RUNNING", "STOPPED", "ERROR"}
        /\ o.diag \in BOOLEAN /\ o.halt \in BOOLEAN /\ o.irq \in BOOLEAN
    BY Zenon, <1>1 DEF Outcome
  <1>3. halted' \in BOOLEAN /\ irr' \in BOOLEAN /\ exit_clock' \in BOOLEAN
    BY Zenon, <1>2 DEF VmExit
  <1>4. CASE pc' = "guest"
    BY <1>1, <1>2, <1>3, <1>4 DEF VmExit
  <1>5. CASE pc' # "guest"
    BY <1>1, <1>2, <1>3, <1>5 DEF VmExit
  <1> QED
    BY ONLY Zenon, <1>4, <1>5

\* Guest exits, the scheduler and the device thread.
LEMMA OtherIInv ==
    ASSUME IInv, GuestStep \/ Migrate \/ InjectRequest \/ InjectWake
    PROVE  IInv'
  <1>1. CASE GuestStep
    <2>1. CASE \E o \in handle_vmexit, refused \in BOOLEAN : VmExit(o, refused)
      BY Zenon, <2>1, VmExitIInv
    <2>2. CASE VmExitNoVcpu
      BY <2>2 DEF VmExitNoVcpu, Goto, IInv, TypeOK, StateByPc, Affinity,
         Registered, VmcsPlace, LaunchState, Control, vcpuVars, hwVars,
         ghostVars, threadElse
    <2> QED
      BY Zenon, <1>1, <2>1, <2>2 DEF GuestStep
  <1>2. CASE Migrate
    <2>1. /\ pc \in Preemptible
          /\ cpu' \in allowed \cap Cpus
          /\ UNCHANGED <<threadElse, ghostVars, current_vcpu, vcpuVars, hwVars,
                         pc, allowed>>
      BY Zenon, <1>2 DEF Migrate
    <2>2. TypeOK'
      BY <2>1 DEF IInv, TypeOK, vcpuVars, hwVars, ghostVars, threadElse
    <2>3. Affinity'
      BY <2>1 DEF IInv, Affinity, vcpuVars
    <2>4. StateByPc' /\ Registered' /\ VmcsPlace'
      BY Zenon, <2>1 DEF IInv, StateByPc, Registered, VmcsPlace, vcpuVars, hwVars,
         threadElse
    <2>5. LaunchState' /\ Control'
      BY Zenon, <2>1 DEF IInv, LaunchState, Control, vcpuVars, hwVars, threadElse
    <2> QED
      BY Zenon, <2>2, <2>3, <2>4, <2>5 DEF IInv
  <1>3. CASE InjectRequest \/ InjectWake
    <2>1. halted' \in BOOLEAN /\ irr' \in BOOLEAN /\ inj' \in {"idle", "wake"}
      BY Zenon, <1>3 DEF InjectRequest, InjectWake, IInv, TypeOK
    <2>2. UNCHANGED <<vmState, alive, host_task, should_stop, ctl, ghostVars,
                      current_vcpu, hwVars, taskVars, state, launched,
                      rsp_saved>>
      BY Zenon, <1>3 DEF InjectRequest, InjectWake
    <2> QED
      BY <2>1, <2>2 DEF IInv, TypeOK, StateByPc, Affinity, Registered,
         VmcsPlace, LaunchState, Control, hwVars, taskVars, ghostVars
  <1> QED
    BY Zenon, <1>1, <1>2, <1>3

LEMMA NextIInv == IInv /\ [Next]_vars => IInv'
  <1> SUFFICES ASSUME IInv, [Next]_vars PROVE IInv'
    BY Zenon
  <1>1. CASE ControlStep
    BY Zenon, <1>1, ControlIInv
  <1>2. CASE HostStep
    BY Zenon, <1>2, HostIInv
  <1>3. CASE GuestStep \/ Migrate \/ InjectRequest \/ InjectWake
    BY Zenon, <1>3, OtherIInv
  <1>4. CASE UNCHANGED vars
    <2> USE DEF vars, vcpuVars, hwVars, taskVars, ghostVars
    <2>1. TypeOK'
      BY <1>4 DEF IInv, TypeOK
    <2>2. StateByPc' /\ Affinity'
      BY Zenon, <1>4 DEF IInv, StateByPc, Affinity
    <2>3. Registered' /\ VmcsPlace'
      BY Zenon, <1>4 DEF IInv, Registered, VmcsPlace
    <2>4. LaunchState' /\ Control'
      BY Zenon, <1>4 DEF IInv, LaunchState, Control
    <2> QED
      BY Zenon, <2>1, <2>2, <2>3, <2>4 DEF IInv
  <1> QED
    BY Zenon, <1>1, <1>2, <1>3, <1>4 DEF Next

-----------------------------------------------------------------------------
(* The theorems.                                                           *)

\* The inductive invariant holds in every reachable state.
THEOREM Invariance == Spec => []IInv
  BY InitIInv, NextIInv, PTL DEF Spec

\* Every variable of the model keeps its type.
THEOREM TypeCorrect == Spec => []TypeOK
  <1>1. IInv => TypeOK
    BY Zenon DEF IInv
  <1> QED
    BY <1>1, Invariance, PTL

\* A pinned kthread's guest runs on the target CPU, with its VMCS current and
\* its vCPU registered there, and the exit stub never parks that CPU.
THEOREM PinnedSafety == Spec => [](PinnedGuestIsOwned /\ NeverParkedWhilePinned)
  <1>1. IInv => PinnedGuestIsOwned /\ NeverParkedWhilePinned
    BY Zenon DEF IInv, Affinity, Registered, PinnedGuestIsOwned,
       NeverParkedWhilePinned
  <1> QED
    BY <1>1, Invariance, PTL

\* relm_vmentry_asm never picks the wrong one of VMLAUNCH and VMRESUME on a
\* CPU where the VMCS is current.
THEOREM LaunchSafety == Spec => []LaunchFlagMatchesVmcs
  <1>1. IInv => LaunchFlagMatchesVmcs
    BY Zenon DEF IInv, TypeOK, LaunchState, LaunchFlagMatchesVmcs
  <1> QED
    BY <1>1, Invariance, PTL

\* The vCPU is freed after its kthread is gone, a kthread that is never
\* unpinned clears its VMCS where it is current, and a host_task is only ever
\* found in a RUNNING VM.
THEOREM TeardownSafety == Spec => [](TeardownOrder /\ HostTaskMeansVmRunning)
  <1>1. IInv => FreedAfterExit /\ HostTaskMeansVmRunning
    BY Zenon DEF IInv, Control, FreedAfterExit, HostTaskMeansVmRunning
  <1>2. IInv => VmcsReleasedWhilePinned
    BY Zenon DEF IInv, VmcsPlace, VmcsReleasedWhilePinned
  <1> QED
    BY <1>1, <1>2, Invariance, PTL DEF TeardownOrder

\* What a step does to the vCPU state and to the point of the kthread once the
\* vCPU is in state STOPPED or ERROR.
LEMMA FinalStates ==
    ASSUME IInv, [Next]_vars, state \in {"STOPPED", "ERROR"}
    PROVE  /\ pc' # "created"
           /\ state = "ERROR" => state' = "ERROR"
  <1>1. pc \in {"back", "arch_destroy", "clear_vcpu", "exited", "parked"}
    BY Zenon DEF IInv, TypeOK, StateByPc
  <1> USE DEF vcpuVars, taskVars
  <1>2. CASE ControlStep
    BY Zenon, <1>1, <1>2 DEF ControlStep, RunVm, RunVmFails, StopVmUnpin, StopVmSignal,
       StopVmJoin, StopVmNoTask, DestroyVm, DestroyVmFree, vcpu_runnable
  <1>3. CASE HostStep
    <2>1. AfterExit \/ ArchDestroy \/ ClearVcpu
      BY Zenon, <1>1, <1>3 DEF HostStep, ThreadNeverRuns, ThreadStart, PinToCpu,
         PinFails, PinDone, SetCurrent, InitVmClear, InitVmPtrLd, InitVmWrite,
         InitFails, LoopContinue, LoopEnd, SaveRsp, VmEntry, VmEntryFails, Wake,
         Goto, Fail
    <2> QED
      BY Zenon, <1>1, <2>1 DEF AfterExit, ArchDestroy, ClearVcpu, Goto, VmClear
  <1>4. CASE GuestStep
    BY Zenon, <1>1, <1>4 DEF GuestStep, VmExit, VmExitNoVcpu, Goto
  <1>5. CASE Migrate \/ InjectRequest \/ InjectWake
    BY Zenon, <1>1, <1>5 DEF Migrate, InjectRequest, InjectWake
  <1>6. CASE UNCHANGED vars
    BY Zenon, <1>1, <1>6 DEF vars
  <1> QED
    BY Zenon, <1>2, <1>3, <1>4, <1>5, <1>6 DEF Next

\* ERROR is final, whatever the interleaving of kthread and controller.
THEOREM ErrorFinality == Spec => ErrorIsFinal
  <1>1. IInv /\ [Next]_vars => [state = "ERROR" => state' = "ERROR"]_vars
    BY Zenon, FinalStates
  <1> QED
    BY <1>1, Invariance, PTL DEF Spec, ErrorIsFinal

HIDE DEF VmStates, VcpuStates, BeforePin, InitPcs, LoopPcs, EndPcs, Pcs

-----------------------------------------------------------------------------
(* The world switch of arm64.c and entry.S.                                *)
(*                                                                         *)
(* What HostRestored and GuestPreserved say is true only outside the       *)
(* switch.  The inductive invariant follows the values through it: at each *)
(* program point it says where the host's copy of a register is (the CPU,  *)
(* the save area or the stack frame) and where the guest's is (the CPU,    *)
(* the frame or vcpu->arch).                                               *)

\* The program points at which the host's EL2 registers are in saved.
HostSaved == (EntryPlaces \ {"save"}) \cup {"guest"} \cup ExitPlaces
\* Those at which x18 - x30 and SP_EL0 of the host are in the frame.
HostFramed == {"load", "gprs", "guest", "stub", "regs", "ret"}
\* Those at which RELM's vectors are in place, and the guest's HCR_EL2.
VectorsIn == {"hcr", "frame", "load", "gprs", "guest", "stub", "regs", "ret", "hcr_back",
              "el1_back", "timers_back", "host_back", "stuck"}
GuestHcr == {"frame", "load", "gprs", "guest", "stub", "regs", "ret", "hcr_back"}

\* Where the host's registers are.
HostPlace ==
    /\ place \in {"new", "out", "end", "save", "code"} =>
          \A r \in Kept \ stale : hw[r] = hostv[r]
    /\ place \in HostSaved =>
          \A r \in (El2 \cup HostTimers) \ stale : saved.regs[r] = hostv[r]
    /\ place \in HostFramed => \A r \in Callee \cup {SpEl0} : frame[r] = hostv[r]
    /\ place \notin HostFramed \cup {"stuck"} => \A r \in Callee \cup {SpEl0} : hw[r] = hostv[r]
    /\ place \in {"new", "out", "end", "save", "host_back", "code"} =>
          \A r \in TimerCtls : hw[r] = Zero

\* Where exceptions go.
Routing ==
    /\ vbar = IF place \in VectorsIn THEN "relm" ELSE "host"
    /\ place \notin GuestHcr \cup {"stuck"} => hcr \in HostHcrs
    /\ place \notin GuestHcr \cup {"stuck", "new", "end"} => "TGE" \in hcr
    /\ place \in HostSaved => saved.hcr \in HostHcrs /\ "TGE" \in saved.hcr /\ saved.vbar = "host"
    /\ place \notin {"new", "end"} =>
          {"E2H", "RW", "VM", "AMO", "IMO", "FMO"} \subseteq vcpu.hcr /\ "TGE" \notin vcpu.hcr
    /\ place \in GuestHcr => hcr = vcpu.hcr

\* The registers of the guest and its controls that are already on the CPU.
LoadedAt(p) ==
    (IF p \in (EntryPlaces \ {"save", "stage2"}) \cup {"guest"} THEN Borrowed ELSE {})
    \cup (IF p \in (EntryPlaces \ {"save", "stage2", "el1"}) \cup {"guest"} THEN El12 ELSE {})
    \cup (IF p \in (EntryPlaces \ {"save", "stage2", "el1", "shared"}) \cup {"guest"}
          THEN Shared ELSE {})
    \cup (IF p \in {"ctrls", "vectors", "hcr", "frame", "load", "gprs", "guest"}
          THEN GuestTimers \cup TimerCtls ELSE {})
    \cup (IF p \in {"vectors", "hcr", "frame", "load", "gprs", "guest"} THEN El2Ctls ELSE {})
    \cup (IF p \in {"gprs", "guest"} THEN {SpEl0, Fp} \cup Return ELSE {})
    \cup (IF p = "guest" THEN Callee \cup Scratch \cup X01 ELSE {})

\* On the way in vcpu->arch has what the guest left, and the CPU what was
\* loaded from there.
GuestIn ==
    /\ place \in EntryPlaces \cup {"out", "guest", "code"} => \A r \in Guest : vcpu.regs[r] = guestv[r]
    /\ \A r \in LoadedAt(place) \ spoilt : hw[r] = vcpu.regs[r]

\* On the way out the guest's values are on the CPU, in the frame or saved.
GuestOut ==
    /\ place = "new" => trap.kind = "none"
    /\ place \in ExitPlaces => trap.kind \in Kinds
    /\ place \in ExitPlaces \ {"stub"} => code = trap.kind
    /\ place = "stub" => \A r \in Guest : hw[r] = guestv[r]
    /\ place = "regs" => /\ \A r \in Guest \ X01 : hw[r] = guestv[r]
                      /\ \A r \in X01 : frame[r] = guestv[r]
    /\ place \in {"stub", "regs"} => \A r \in Syndrome : hw[r] = trap.syn
    /\ place \in {"ret", "hcr_back", "el1_back", "timers_back", "host_back", "code"} =>
          /\ \A r \in Direct : vcpu.regs[r] = guestv[r]
          /\ \A r \in Syndrome : vcpu.regs[r] = trap.syn
    /\ place \in {"ret", "hcr_back", "el1_back"} => \A r \in Banked : hw[r] = guestv[r]
    /\ place \in {"timers_back", "host_back", "code"} =>
          \A r \in El12 \cup Shared : vcpu.regs[r] = guestv[r]
    /\ place = "timers_back" => \A r \in GuestTimers \cup TimerCtls : hw[r] = guestv[r]
    /\ place \in {"host_back", "code"} =>
          \A r \in GuestTimers \cup TimerCtls : vcpu.regs[r] = guestv[r]
    /\ place = "out" /\ trap.kind # "none" =>
          code = trap.kind /\ \A r \in Syndrome : vcpu.regs[r] = trap.syn

\* From the exception that ends the guest's run interrupts stay masked.
MaskedOut == place \in ExitPlaces => masked

\* The inductive invariant.
SwitchInv == WsTypeOK /\ HostPlace /\ Routing /\ GuestIn /\ GuestOut /\ MaskedOut

USE DEF Kept, Banked, Direct, Guest, Controls, Registers, Kinds, HcrBits, EntryPlaces, ExitPlaces,
        Places, cpuRegs, history

\* The registers arm64_vcpu_init seeds, and the controls it computes.
LEMMA SetupType ==
    ASSUME NEW regs \in [Guest \cup Controls \cup Syndrome -> Values], NEW f
    PROVE  /\ relm_setup_guest_state_aarch64(regs)
                  \in [Guest \cup Controls \cup Syndrome -> Values]
           /\ relm_setup_guest_ctrls_vhe(f) \subseteq HcrBits
           /\ {"E2H", "RW", "VM", "AMO", "IMO", "FMO"} \subseteq relm_setup_guest_ctrls_vhe(f)
           /\ "TGE" \notin relm_setup_guest_ctrls_vhe(f)
  <1>1. relm_setup_guest_state_aarch64(regs) \in [Guest \cup Controls \cup Syndrome -> Values]
    <2> HIDE DEF Guest, Controls
    <2> QED
      BY Zenon, WorldSwitchAssumption DEF relm_setup_guest_state_aarch64
  <1>2. /\ relm_setup_guest_ctrls_vhe(f) \subseteq HcrBits
        /\ {"E2H", "RW", "VM", "AMO", "IMO", "FMO"} \subseteq relm_setup_guest_ctrls_vhe(f)
        /\ "TGE" \notin relm_setup_guest_ctrls_vhe(f)
    BY ONLY TRUE DEF relm_setup_guest_ctrls_vhe
  <1> QED
    BY Zenon, <1>1, <1>2

\* Writing registers with values, from a file that has them.
LEMMA OverType ==
    ASSUME NEW D, NEW h \in [D -> Values], NEW S, NEW g, \A r \in S : g[r] \in Values
    PROVE  Over(h, S, g) \in [D -> Values]
  BY Zenon DEF Over

\* Which file has which registers.
LEMMA FileFacts ==
    ASSUME WsTypeOK
    PROVE  /\ \A r \in Banked \cup Direct \cup Controls \cup Syndrome : vcpu.regs[r] \in Values
           /\ \A r \in Callee \cup {SpEl0} \cup X01 : frame[r] \in Values /\ hw[r] \in Values
           /\ \A r \in Banked \cup Direct \cup El2 \cup HostTimers : hw[r] \in Values
           /\ \A r \in El2 \cup HostTimers : saved.regs[r] \in Values
  <1>1. vcpu.regs \in [Guest \cup Controls \cup Syndrome -> Values]
    BY Zenon DEF WsTypeOK
  <1>2. hw \in [Registers -> Values] /\ frame \in [Callee \cup {SpEl0} \cup X01 -> Values]
    BY Zenon DEF WsTypeOK
  <1>3. saved.regs \in [El2 \cup HostTimers -> Values]
    BY Zenon DEF WsTypeOK
  <1>4. /\ Banked \cup Direct \subseteq Guest /\ Callee \cup {SpEl0} \cup X01 \subseteq Registers
        /\ Banked \cup Direct \cup El2 \cup HostTimers \subseteq Registers
    BY Zenon
  <1> HIDE DEF Kept, Banked, Direct, Guest, Controls, Registers
  <1>5. \A r \in Banked \cup Direct \cup Controls \cup Syndrome : vcpu.regs[r] \in Values
    BY Zenon, <1>1, <1>4
  <1>6. /\ \A r \in Callee \cup {SpEl0} \cup X01 : frame[r] \in Values /\ hw[r] \in Values
        /\ \A r \in Banked \cup Direct \cup El2 \cup HostTimers : hw[r] \in Values
    BY Zenon, <1>2, <1>4
  <1> QED
    BY Zenon, <1>3, <1>5, <1>6

\* A step that loads registers keeps the types.
LEMMA LoadType ==
    ASSUME WsTypeOK, NEW from, NEW to \in Places, NEW S, NEW g, Load(from, to, S, g),
           \A r \in S : g[r] \in Values
    PROVE  WsTypeOK'
  <1> HIDE DEF Kept, Banked, Direct, Guest, Controls, Registers, Kinds, HcrBits, Places
  <1>1. /\ place' = to /\ hw' = Over(hw, S, g)
        /\ UNCHANGED <<hcr, vbar, saved, frame, vcpu, code, masked, hostv, guestv, trap, stale>>
        /\ spoilt' = spoilt \ S
    BY Zenon DEF Load
  <1>2. hw' \in [Registers -> Values]
    BY Zenon, <1>1, OverType DEF WsTypeOK
  <1>3. Tracked'
    <2>1. Tracked
      BY Zenon DEF WsTypeOK
    <2> QED
      BY ONLY Zenon, <1>1, <2>1 DEF Tracked
  <1> HIDE DEF Tracked
  <1> QED
    BY Zenon, <1>1, <1>2, <1>3 DEF WsTypeOK

\* What an interruption may write is all the two histories ever name.
LEMMA TrackedStep ==
    ASSUME WsTypeOK, WsNext
    PROVE  Tracked'
  <1> HIDE DEF Kept, Banked, Direct, Guest, Controls, Registers, Kinds, HcrBits, Places
  <1>a. Tracked
    BY Zenon DEF WsTypeOK
  <1>1. CASE HostPreempts
    <2>1. PICK f \in Interruptions :
              /\ stale' = stale \ DOMAIN f \/ stale' = stale \cup DOMAIN f
              /\ spoilt' = spoilt \cup DOMAIN f
      BY Zenon, <1>1 DEF HostPreempts
    <2>2. DOMAIN f \subseteq Exposed
      BY Zenon, WorldSwitchAssumption
    <2> QED
      BY Zenon, <1>a, <2>1, <2>2 DEF Tracked
  <1>2. CASE HostRuns \/ \E k \in Kinds : Trap(k)
    <2>1. stale' \in {stale, {}} /\ spoilt' \in {spoilt, {}}
      BY Zenon, <1>2 DEF HostRuns, Trap
    <2> QED
      BY Zenon, <1>a, <2>1 DEF Tracked
  <1>3. CASE \/ LoadStage2 \/ LoadEl1 \/ LoadShared \/ LoadTimers \/ LoadControls
             \/ LoadReturn \/ LoadGprs \/ PopFrame
    <2>1. PICK S : stale' = stale /\ spoilt' = spoilt \ S
      BY Zenon, <1>3 DEF LoadStage2, LoadEl1, LoadShared, LoadTimers, LoadControls, LoadReturn,
         LoadGprs, PopFrame, Load
    <2> QED
      BY Zenon, <1>a, <2>1 DEF Tracked
  <1>4. CASE \/ arm64_vcpu_init \/ EntryStart \/ SaveHost \/ LoadVectors \/ LoadHcr \/ PushFrame
             \/ TrapAarch32 \/ Stub \/ SaveGuest \/ RestoreHcr \/ SaveEl1 \/ SaveTimers
             \/ RestoreHost \/ ExitDone \/ HostInterrupt
    <2>1. UNCHANGED <<stale, spoilt>>
      BY Zenon, <1>4 DEF arm64_vcpu_init, EntryStart, SaveHost, LoadVectors, LoadHcr, PushFrame,
         TrapAarch32, Stub, SaveGuest, RestoreHcr, SaveEl1, SaveTimers, RestoreHost, ExitDone,
         HostInterrupt
    <2> QED
      BY Zenon, <1>a, <2>1 DEF Tracked
  <1> QED
    BY ONLY ZenonT(30), WsNext, <1>1, <1>2, <1>3, <1>4 DEF WsNext

\* Every step keeps the types.
LEMMA TypeStep ==
    ASSUME WsTypeOK, WsNext
    PROVE  WsTypeOK'
  <1>t. Tracked'
    BY Zenon, TrackedStep
  <1>f. /\ \A r \in Banked \cup Direct \cup Controls \cup Syndrome : vcpu.regs[r] \in Values
        /\ \A r \in Callee \cup {SpEl0} \cup X01 : frame[r] \in Values /\ hw[r] \in Values
        /\ \A r \in Banked \cup Direct \cup El2 \cup HostTimers : hw[r] \in Values
        /\ \A r \in El2 \cup HostTimers : saved.regs[r] \in Values
    BY Zenon, FileFacts
  <1>g. \A S : S \subseteq Banked \cup Direct \cup Controls \cup Syndrome =>
                  \A r \in S : vcpu.regs[r] \in Values
    BY Zenon, <1>f
  <1>h. /\ Borrowed \subseteq Controls /\ El12 \cup Shared \cup GuestTimers \cup TimerCtls \subseteq Banked
        /\ Callee \cup Scratch \cup X01 \cup {SpEl0, Fp} \cup Return \subseteq Direct
    BY Zenon
  <1>p. \A x \in {"el1", "shared", "timers", "ctrls", "vectors", "gprs", "guest", "hcr_back"} : x \in Places
    BY Zenon
  <1>1. CASE arm64_vcpu_init
    <2>0. /\ place' \in Places
          /\ UNCHANGED <<hw, hcr, vbar, saved, frame, code, masked, hostv, trap>>
      BY Zenon, <1>1 DEF arm64_vcpu_init
    <2>1. CASE UNCHANGED <<vcpu, guestv>>
      <3> HIDE DEF Kept, Banked, Direct, Guest, Controls, Registers, Kinds, HcrBits, Places
      <3> QED
        BY Zenon, <1>t, <2>0, <2>1 DEF WsTypeOK
    <2>2. CASE ~UNCHANGED <<vcpu, guestv>>
      <3>1. PICK f \in Features :
                /\ vcpu' = [regs |-> Over(relm_setup_guest_state_aarch64(vcpu.regs), Controls,
                                          [r \in Controls |-> Entry]),
                            hcr |-> relm_setup_guest_ctrls_vhe(f)]
                /\ guestv' = [r \in Guest |-> relm_setup_guest_state_aarch64(vcpu.regs)[r]]
        BY Zenon, <1>1, <2>2 DEF arm64_vcpu_init
      <3> HIDE DEF Kept, Banked, Direct, Guest, Controls, Registers, Kinds, HcrBits, Places
      <3>2. /\ vcpu.regs \in [Guest \cup Controls \cup Syndrome -> Values]
            /\ Entry \in Values
        BY Zenon, WorldSwitchAssumption DEF WsTypeOK
      <3>3. /\ relm_setup_guest_state_aarch64(vcpu.regs)
                  \in [Guest \cup Controls \cup Syndrome -> Values]
            /\ relm_setup_guest_ctrls_vhe(f) \subseteq HcrBits
        BY Zenon, <3>2, SetupType
      <3>4. Over(relm_setup_guest_state_aarch64(vcpu.regs), Controls, [r \in Controls |-> Entry])
                \in [Guest \cup Controls \cup Syndrome -> Values]
        BY Zenon, <3>2, <3>3, OverType
      <3>5. vcpu' \in [regs : [Guest \cup Controls \cup Syndrome -> Values], hcr : SUBSET HcrBits]
        BY Zenon, <3>1, <3>3, <3>4
      <3>6. guestv' \in [Guest -> Values]
        BY Zenon, <3>1, <3>3
      <3> QED
        BY Zenon, <1>t, <2>0, <3>5, <3>6 DEF WsTypeOK
    <2> QED
      BY Zenon, <2>1, <2>2
  <1>2. CASE TrapAarch32 \/ HostInterrupt \/ EntryStart \/ ExitDone \/ LoadVectors
    <2>1. /\ place' \in Places /\ vbar' \in {vbar, "relm"} /\ masked' \in {masked, TRUE}
          /\ UNCHANGED <<hw, hcr, saved, frame, vcpu, code, hostv, guestv, trap>>
      BY Zenon, <1>2 DEF TrapAarch32, HostInterrupt, EntryStart, ExitDone, LoadVectors
    <2> HIDE DEF Kept, Banked, Direct, Guest, Controls, Registers, Kinds, HcrBits, Places
    <2> QED
      BY Zenon, <1>t, <2>1 DEF WsTypeOK
  <1>3. CASE LoadHcr \/ RestoreHcr
    <2>1. /\ place' \in Places /\ hcr' \in {vcpu.hcr, saved.hcr}
          /\ UNCHANGED <<hw, vbar, saved, frame, vcpu, code, masked, hostv, guestv, trap>>
      BY Zenon, <1>3 DEF LoadHcr, RestoreHcr
    <2> HIDE DEF Kept, Banked, Direct, Guest, Controls, Registers, Kinds, HcrBits, Places
    <2>2. hcr' \subseteq HcrBits
      BY Zenon, <2>1 DEF WsTypeOK
    <2> QED
      BY Zenon, <1>t, <2>1, <2>2 DEF WsTypeOK
  <1>4. CASE SaveHost
    <2>1. /\ place' \in Places
          /\ saved' = [regs |-> [r \in El2 \cup HostTimers |-> hw[r]], hcr |-> hcr, vbar |-> vbar]
          /\ UNCHANGED <<hw, hcr, vbar, frame, vcpu, code, masked, hostv, guestv, trap>>
      BY Zenon, <1>4 DEF SaveHost
    <2> HIDE DEF Kept, Banked, Direct, Guest, Controls, Registers, Kinds, HcrBits, Places
    <2>2. [r \in El2 \cup HostTimers |-> hw[r]] \in [El2 \cup HostTimers -> Values]
      BY Zenon, <1>f
    <2>3. hcr \in SUBSET HcrBits /\ vbar \in {"host", "relm"}
      BY Zenon DEF WsTypeOK
    <2>4. saved' \in [regs : [El2 \cup HostTimers -> Values], hcr : SUBSET HcrBits,
                      vbar : {"host", "relm"}]
      BY Zenon, <2>1, <2>2, <2>3
    <2> QED
      BY Zenon, <1>t, <2>1, <2>4 DEF WsTypeOK
  <1>5. CASE HostRuns
    <2>1. PICK f \in HostFiles : hostv' = f /\ hw' = Over(hw, Kept, f)
      BY Zenon, <1>5 DEF HostRuns
    <2>2. /\ masked' = FALSE
          /\ UNCHANGED <<place, hcr, vbar, saved, frame, vcpu, code, guestv, trap>>
      BY Zenon, <1>5 DEF HostRuns
    <2> HIDE DEF Kept, Banked, Direct, Guest, Controls, Registers, Kinds, HcrBits, Places
    <2>3. f \in [Kept -> Values]
      BY Zenon, WorldSwitchAssumption
    <2>4. hw' \in [Registers -> Values]
      BY Zenon, <2>1, <2>3, OverType DEF WsTypeOK
    <2> QED
      BY Zenon, <1>t, <2>1, <2>2, <2>3, <2>4 DEF WsTypeOK
  <1>6. CASE \/ LoadStage2 \/ LoadEl1 \/ LoadShared \/ LoadTimers \/ LoadControls
             \/ LoadReturn \/ LoadGprs
    <2> HIDE DEF Kept, Banked, Direct, Guest, Controls, Registers, Kinds, HcrBits, Places
    <2>1. CASE LoadStage2
      <3>1. (\A r \in Borrowed : vcpu.regs[r] \in Values) /\ "el1" \in Places
        BY Zenon, <1>g, <1>h, <1>p
      <3> QED
        BY ONLY Zenon, WsTypeOK, <2>1, <3>1, LoadType DEF LoadStage2
    <2>2. CASE LoadEl1
      <3>1. (\A r \in El12 : vcpu.regs[r] \in Values) /\ "shared" \in Places
        BY Zenon, <1>g, <1>h, <1>p
      <3> QED
        BY ONLY Zenon, WsTypeOK, <2>2, <3>1, LoadType DEF LoadEl1
    <2>3. CASE LoadShared
      <3>1. (\A r \in Shared : vcpu.regs[r] \in Values) /\ "timers" \in Places
        BY Zenon, <1>g, <1>h, <1>p
      <3> QED
        BY ONLY Zenon, WsTypeOK, <2>3, <3>1, LoadType DEF LoadShared
    <2>4. CASE LoadTimers
      <3>1. (\A r \in GuestTimers \cup TimerCtls : vcpu.regs[r] \in Values) /\ "ctrls" \in Places
        BY Zenon, <1>g, <1>h, <1>p
      <3> QED
        BY ONLY Zenon, WsTypeOK, <2>4, <3>1, LoadType DEF LoadTimers
    <2>5. CASE LoadControls
      <3>1. (\A r \in Controls : vcpu.regs[r] \in Values) /\ "vectors" \in Places
        BY Zenon, <1>g, <1>h, <1>p
      <3> QED
        BY ONLY Zenon, WsTypeOK, <2>5, <3>1, LoadType DEF LoadControls
    <2>6. CASE LoadReturn
      <3>1. (\A r \in {SpEl0, Fp} \cup Return : vcpu.regs[r] \in Values) /\ "gprs" \in Places
        BY Zenon, <1>g, <1>h, <1>p
      <3> QED
        BY ONLY Zenon, WsTypeOK, <2>6, <3>1, LoadType DEF LoadReturn
    <2>7. CASE LoadGprs
      <3>1. (\A r \in Callee \cup Scratch \cup X01 : vcpu.regs[r] \in Values) /\ "guest" \in Places
        BY Zenon, <1>g, <1>h, <1>p
      <3> QED
        BY ONLY Zenon, WsTypeOK, <2>7, <3>1, LoadType DEF LoadGprs
    <2> QED
      BY Zenon, <1>6, <2>1, <2>2, <2>3, <2>4, <2>5, <2>6, <2>7
  <1>7. CASE PopFrame
    <2>1. (\A r \in Callee \cup {SpEl0} : frame[r] \in Values) /\ "hcr_back" \in Places
      BY Zenon, <1>f, <1>p
    <2> QED
      BY ONLY Zenon, WsTypeOK, <1>7, <2>1, LoadType DEF PopFrame
  <1>8. CASE PushFrame
    <2>1. /\ place' \in Places /\ frame' = Over(frame, Callee \cup {SpEl0}, hw)
          /\ UNCHANGED <<hw, hcr, vbar, saved, vcpu, code, masked, hostv, guestv, trap>>
      BY Zenon, <1>8 DEF PushFrame
    <2> HIDE DEF Kept, Banked, Direct, Guest, Controls, Registers, Kinds, HcrBits, Places
    <2>2. frame' \in [Callee \cup {SpEl0} \cup X01 -> Values]
      BY Zenon, <1>f, <2>1, OverType DEF WsTypeOK
    <2> QED
      BY Zenon, <1>t, <2>1, <2>2 DEF WsTypeOK
  <1>9. CASE \E k \in Kinds : Trap(k)
    <2>1. PICK k \in Kinds, f \in GuestFiles, v \in Values :
              /\ hw' = Over(Over(hw, Guest, f), Syndrome, [r \in Syndrome |-> v])
              /\ guestv' = f /\ trap' = [kind |-> k, syn |-> v]
      BY Zenon, <1>9 DEF Trap
    <2>2. /\ place' \in Places /\ masked' = TRUE
          /\ UNCHANGED <<hcr, vbar, saved, frame, vcpu, code, hostv>>
      BY Zenon, <1>9 DEF Trap
    <2> HIDE DEF Kept, Banked, Direct, Guest, Controls, Registers, Kinds, HcrBits, Places
    <2>3. f \in [Guest -> Values]
      BY Zenon, WorldSwitchAssumption
    <2>4. Over(hw, Guest, f) \in [Registers -> Values]
      BY Zenon, <2>3, OverType DEF WsTypeOK
    <2>5. hw' \in [Registers -> Values]
      <3>1. \A r \in Syndrome : [s \in Syndrome |-> v][r] \in Values
        BY Zenon
      <3> QED
        BY Zenon, <2>1, <2>4, <3>1, OverType
    <2>6. trap' \in [kind : Kinds \cup {"none"}, syn : Values]
      BY Zenon, <2>1
    <2> QED
      BY Zenon, <1>t, <2>1, <2>2, <2>3, <2>5, <2>6 DEF WsTypeOK
  <1>10. CASE Stub
    <2>1. /\ place' \in Places /\ frame' = Over(frame, X01, hw) /\ code' = trap.kind
          /\ hw' = [r \in Registers |-> IF r \in X01 THEN Zero ELSE hw[r]]
          /\ UNCHANGED <<hcr, vbar, saved, vcpu, masked, hostv, guestv, trap>>
      BY Zenon, <1>10 DEF Stub
    <2> HIDE DEF Kept, Banked, Direct, Guest, Controls, Registers, Kinds, HcrBits, Places
    <2>2. frame' \in [Callee \cup {SpEl0} \cup X01 -> Values]
      BY Zenon, <1>f, <2>1, OverType DEF WsTypeOK
    <2>3. hw' \in [Registers -> Values] /\ code' \in Kinds \cup {"none"}
      BY Zenon, <2>1, WorldSwitchAssumption DEF WsTypeOK
    <2> QED
      BY Zenon, <1>t, <2>1, <2>2, <2>3 DEF WsTypeOK
  <1>11. CASE SaveGuest \/ SaveEl1 \/ SaveTimers
    <2>1. PICK R : /\ vcpu' = [vcpu EXCEPT !.regs = R]
                   /\ \/ R = Over(Over(vcpu.regs, Callee \cup Scratch \cup {SpEl0, Fp} \cup Return
                                                    \cup Syndrome, hw), X01, frame)
                      \/ R = Over(vcpu.regs, El12 \cup Shared, hw)
                      \/ R = Over(vcpu.regs, GuestTimers \cup TimerCtls, hw)
      BY Zenon, <1>11 DEF SaveGuest, SaveEl1, SaveTimers
    <2>2. /\ place' \in Places
          /\ hw' = hw \/ hw' = [r \in Registers |-> IF r \in TimerCtls THEN Zero ELSE hw[r]]
          /\ UNCHANGED <<hcr, vbar, saved, frame, code, masked, hostv, guestv, trap>>
      BY Zenon, <1>11 DEF SaveGuest, SaveEl1, SaveTimers
    <2>3. Syndrome \subseteq El2
      BY Zenon, WorldSwitchAssumption
    <2> HIDE DEF Kept, Banked, Direct, Guest, Controls, Registers, Kinds, HcrBits, Places
    <2>4. vcpu.regs \in [Guest \cup Controls \cup Syndrome -> Values]
      BY Zenon DEF WsTypeOK
    <2>5. R \in [Guest \cup Controls \cup Syndrome -> Values]
      <3>1. \A r \in Callee \cup Scratch \cup {SpEl0, Fp} \cup Return \cup Syndrome : hw[r] \in Values
        BY Zenon, <1>f, <1>h, <2>3
      <3>2. (\A r \in El12 \cup Shared : hw[r] \in Values) /\ \A r \in GuestTimers \cup TimerCtls : hw[r] \in Values
        BY Zenon, <1>f, <1>h
      <3>3. Over(vcpu.regs, Callee \cup Scratch \cup {SpEl0, Fp} \cup Return \cup Syndrome, hw)
                \in [Guest \cup Controls \cup Syndrome -> Values]
        BY Zenon, <2>4, <3>1, OverType
      <3> QED
        <4>1. \A r \in X01 : frame[r] \in Values
          BY Zenon, <1>f
        <4>2. Over(Over(vcpu.regs, Callee \cup Scratch \cup {SpEl0, Fp} \cup Return \cup Syndrome, hw),
                   X01, frame) \in [Guest \cup Controls \cup Syndrome -> Values]
          BY Zenon, <3>3, <4>1, OverType
        <4>3. Over(vcpu.regs, El12 \cup Shared, hw) \in [Guest \cup Controls \cup Syndrome -> Values]
          BY Zenon, <2>4, <3>2, OverType
        <4>4. Over(vcpu.regs, GuestTimers \cup TimerCtls, hw)
                  \in [Guest \cup Controls \cup Syndrome -> Values]
          BY Zenon, <2>4, <3>2, OverType
        <4> QED
          BY Zenon, <2>1, <4>2, <4>3, <4>4
    <2>6. vcpu' \in [regs : [Guest \cup Controls \cup Syndrome -> Values], hcr : SUBSET HcrBits]
      BY Zenon, <2>1, <2>5 DEF WsTypeOK
    <2>7. hw' \in [Registers -> Values]
      <3>1. hw \in [Registers -> Values] /\ Zero \in Values
        BY Zenon, WorldSwitchAssumption DEF WsTypeOK
      <3>2. [r \in Registers |-> IF r \in TimerCtls THEN Zero ELSE hw[r]] \in [Registers -> Values]
        BY ONLY Zenon, <3>1
      <3> QED
        BY ONLY Zenon, <2>2, <3>1, <3>2
    <2> QED
      BY Zenon, <1>t, <2>2, <2>6, <2>7 DEF WsTypeOK
  <1>12. CASE RestoreHost
    <2>1. /\ place' \in Places /\ vbar' = saved.vbar /\ hw' = Over(hw, El2 \cup HostTimers, saved.regs)
          /\ UNCHANGED <<hcr, saved, frame, vcpu, code, masked, hostv, guestv, trap>>
      BY Zenon, <1>12 DEF RestoreHost
    <2> HIDE DEF Kept, Banked, Direct, Guest, Controls, Registers, Kinds, HcrBits, Places
    <2>2. hw' \in [Registers -> Values]
      BY Zenon, <1>f, <2>1, OverType DEF WsTypeOK
    <2>3. vbar' \in {"host", "relm"}
      BY Zenon, <2>1 DEF WsTypeOK
    <2> QED
      BY Zenon, <1>t, <2>1, <2>2, <2>3 DEF WsTypeOK
  <1>13. CASE HostPreempts
    <2>1. PICK f \in Interruptions : /\ hw' = Over(hw, DOMAIN f, f)
                                     /\ hostv' = Over(hostv, DOMAIN f, f)
      BY Zenon, <1>13 DEF HostPreempts
    <2>2. UNCHANGED <<place, hcr, vbar, saved, frame, vcpu, code, masked, guestv, trap>>
      BY Zenon, <1>13 DEF HostPreempts
    <2>3. \A r \in DOMAIN f : f[r] \in Values
      BY Zenon, WorldSwitchAssumption
    <2> HIDE DEF Kept, Banked, Direct, Guest, Controls, Registers, Kinds, HcrBits, Places
    <2>4. hw \in [Registers -> Values] /\ hostv \in [Kept -> Values]
      BY Zenon DEF WsTypeOK
    <2>5. hw' \in [Registers -> Values] /\ hostv' \in [Kept -> Values]
      BY Zenon, <2>1, <2>3, <2>4, OverType
    <2> QED
      BY Zenon, <1>t, <2>2, <2>5 DEF WsTypeOK
  <1> QED
    BY ONLY ZenonT(30), WsNext, <1>1, <1>2, <1>3, <1>4, <1>5, <1>6, <1>7, <1>8, <1>9, <1>10,
       <1>11, <1>12, <1>13
       DEF WsNext

\* How the groups of registers lie to each other.
LEMMA GroupFacts ==
    /\ Kept \subseteq Registers /\ TimerCtls \subseteq Registers /\ TimerCtls \cap Kept = {}
    /\ El2 \cup HostTimers \subseteq Kept /\ Callee \cup {SpEl0} \subseteq Kept
    /\ Kept \subseteq (El2 \cup HostTimers) \cup (Callee \cup {SpEl0})
    /\ (Callee \cup {SpEl0}) \cap (El2 \cup HostTimers) = {}
    /\ (Banked \cup Borrowed \cup Controls \cup Syndrome \cup X01) \cap (Callee \cup {SpEl0}) = {}
    /\ Exposed \cap (Callee \cup {SpEl0}) = {} /\ Exposed \cap TimerCtls = {}
    /\ \A f \in Interruptions : DOMAIN f \subseteq Exposed
  <1>1. Kept \subseteq Registers /\ TimerCtls \subseteq Registers
    BY Zenon
  <1>2. TimerCtls \cap Kept = {}
    <2>1. TimerCtls \cap (El2 \cup HostTimers) = {}
      BY Zenon, WorldSwitchAssumption
    <2>2. TimerCtls \cap (Callee \cup {SpEl0}) = {}
      BY Zenon, WorldSwitchAssumption
    <2> QED
      BY Zenon, <2>1, <2>2
  <1>3. /\ El2 \cup HostTimers \subseteq Kept /\ Callee \cup {SpEl0} \subseteq Kept
        /\ Kept \subseteq (El2 \cup HostTimers) \cup (Callee \cup {SpEl0})
    BY Zenon
  <1>4. Banked \cap (Callee \cup {SpEl0}) = {}
    BY Zenon, WorldSwitchAssumption
  <1>5. Borrowed \cap (Callee \cup {SpEl0}) = {}
    BY Zenon, WorldSwitchAssumption
  <1>6. (El2Ctls \cup Syndrome) \cap (Callee \cup {SpEl0}) = {}
    BY Zenon, WorldSwitchAssumption
  <1>7. (Callee \cup {SpEl0}) \cap (El2 \cup HostTimers) = {} /\ X01 \cap (Callee \cup {SpEl0}) = {}
    BY Zenon, WorldSwitchAssumption
  <1>8. Controls = El2Ctls \cup Borrowed
    BY Zenon
  <1>9. Shared \subseteq Banked /\ Exposed = El2 \cup HostTimers \cup Shared
    BY Zenon DEF Exposed
  <1>10. Shared \cap TimerCtls = {} /\ \A f \in Interruptions : DOMAIN f \subseteq Exposed
    BY Zenon, WorldSwitchAssumption
  <1> HIDE DEF Kept, Banked, Controls, Registers
  <1>11. Exposed \cap (Callee \cup {SpEl0}) = {} /\ Exposed \cap TimerCtls = {}
    BY Zenon, <1>2, <1>3, <1>4, <1>7, <1>9, <1>10
  <1> QED
    BY Zenon, <1>1, <1>2, <1>3, <1>4, <1>5, <1>6, <1>7, <1>8, <1>10, <1>11

\* Every step keeps track of the registers of the host.
LEMMA HostPlaceStep ==
    ASSUME SwitchInv, WsNext
    PROVE  HostPlace'
  <1> DEFINE Frm == Callee \cup {SpEl0}
             Sav == El2 \cup HostTimers
  <1> HIDE DEF Kept, Banked, Direct, Guest, Controls, Registers, Kinds, HcrBits, Places
  <1>a. HostPlace
    BY Zenon DEF SwitchInv
  <1>b. DOMAIN hw = Registers /\ DOMAIN frame = Frm \cup X01
    BY Zenon DEF SwitchInv, WsTypeOK
  <1>c. /\ Kept \subseteq Registers /\ TimerCtls \subseteq Registers /\ TimerCtls \cap Kept = {}
        /\ Sav \subseteq Kept /\ Frm \subseteq Kept /\ Kept \subseteq Sav \cup Frm /\ Frm \cap Sav = {}
        /\ (Banked \cup Borrowed \cup Controls \cup Syndrome \cup X01) \cap Frm = {}
        /\ Exposed \cap Frm = {} /\ Exposed \cap TimerCtls = {}
        /\ \A f \in Interruptions : DOMAIN f \subseteq Exposed
    BY Zenon, GroupFacts
  <1> HIDE DEF Frm, Sav
  <1>p. HostPlace <=>
          /\ place \in {"new", "out", "end", "save", "code"} =>
                \A r \in Kept \ stale : hw[r] = hostv[r]
          /\ place \in HostSaved => \A r \in Sav \ stale : saved.regs[r] = hostv[r]
          /\ place \in HostFramed => \A r \in Frm : frame[r] = hostv[r]
          /\ place \notin HostFramed \cup {"stuck"} => \A r \in Frm : hw[r] = hostv[r]
          /\ place \in {"new", "out", "end", "save", "host_back", "code"} =>
                \A r \in TimerCtls : hw[r] = Zero
    BY Zenon DEF HostPlace, Frm, Sav
  <1>q. HostPlace' <=>
          /\ place' \in {"new", "out", "end", "save", "code"} =>
                \A r \in Kept \ stale' : hw'[r] = hostv'[r]
          /\ place' \in HostSaved => \A r \in Sav \ stale' : saved'.regs[r] = hostv'[r]
          /\ place' \in HostFramed => \A r \in Frm : frame'[r] = hostv'[r]
          /\ place' \notin HostFramed \cup {"stuck"} => \A r \in Frm : hw'[r] = hostv'[r]
          /\ place' \in {"new", "out", "end", "save", "host_back", "code"} =>
                \A r \in TimerCtls : hw'[r] = Zero
    BY Zenon DEF HostPlace, Frm, Sav
  <1>1. CASE arm64_vcpu_init
    <2>1. place = "new" /\ place' \in {"out", "end"} /\ UNCHANGED <<hw, saved, frame, hostv, stale>>
      BY Zenon, <1>1 DEF arm64_vcpu_init
    <2> QED
      BY <1>a, <1>p, <1>q, <2>1 DEF HostSaved, HostFramed
  <1>2. CASE EntryStart
    <2>1. place = "out" /\ place' \in {"save", "end"} /\ UNCHANGED <<hw, saved, frame, hostv, stale>>
      BY Zenon, <1>2 DEF EntryStart
    <2> QED
      BY <1>a, <1>p, <1>q, <2>1 DEF HostSaved, HostFramed
  <1>3. CASE ExitDone
    <2>1. place = "code" /\ place' \in {"out", "end"} /\ UNCHANGED <<hw, saved, frame, hostv, stale>>
      BY Zenon, <1>3 DEF ExitDone
    <2> QED
      BY <1>a, <1>p, <1>q, <2>1 DEF HostSaved, HostFramed
  <1>4. CASE HostRuns
    <2>1. /\ place = "out" /\ place' = "out" /\ hw' = Over(hw, Kept, hostv')
      BY Zenon, <1>4 DEF HostRuns
    <2>2. \A r \in Kept : hw'[r] = hostv'[r]
      BY Zenon, <1>b, <1>c, <2>1 DEF Over
    <2>3. \A r \in TimerCtls : hw'[r] = hw[r]
      BY Zenon, <1>b, <1>c, <2>1 DEF Over
    <2> QED
      BY <1>a, <1>c, <1>p, <1>q, <2>1, <2>2, <2>3 DEF HostSaved, HostFramed
  <1>5. CASE SaveHost
    <2>1. /\ place = "save" /\ place' = "stage2" /\ UNCHANGED <<hw, hostv, stale>>
          /\ saved' = [regs |-> [r \in Sav |-> hw[r]], hcr |-> hcr, vbar |-> vbar]
      BY Zenon, <1>5 DEF SaveHost, Sav
    <2>2. \A r \in Sav : saved'.regs[r] = hw[r]
      BY Zenon, <2>1
    <2>3. /\ place \in {"new", "out", "end", "save", "code"} /\ place' \notin HostFramed
          /\ place' \notin {"new", "out", "end", "save", "code"}
          /\ place' \notin {"new", "out", "end", "save", "host_back", "code"}
      BY <2>1 DEF HostFramed
    <2>4. \A r \in Kept \ stale : hw[r] = hostv[r]
      BY Zenon, <1>a, <1>p, <2>3
    <2>5. \A r \in Frm : hw[r] = hostv[r]
      BY <1>a, <1>p, <2>1 DEF HostFramed
    <2>6. \A r \in Sav \ stale' : saved'.regs[r] = hostv'[r]
      BY ONLY Zenon, <1>c, <2>1, <2>2, <2>4
    <2>7. \A r \in Frm : hw'[r] = hostv'[r]
      BY ONLY Zenon, <2>1, <2>5
    <2> QED
      BY ONLY Zenon, <1>q, <2>3, <2>6, <2>7
  <1>6. CASE \/ LoadStage2 \/ LoadEl1 \/ LoadShared \/ LoadTimers \/ LoadControls
    <2>1. PICK S : /\ S \in {Borrowed, El12, Shared, GuestTimers \cup TimerCtls, Controls}
                   /\ place \in {"stage2", "el1", "shared", "timers", "ctrls"}
                   /\ place' \in {"el1", "shared", "timers", "ctrls", "vectors"}
                   /\ hw' = Over(hw, S, vcpu.regs) /\ UNCHANGED <<saved, frame, hostv, stale>>
      BY Zenon, <1>6 DEF LoadStage2, LoadEl1, LoadShared, LoadTimers, LoadControls, Load
    <2>2. S \cap Frm = {}
      BY Zenon, <1>c, <2>1 DEF Banked
    <2>3. \A r \in Frm : hw'[r] = hw[r]
      BY Zenon, <1>b, <1>c, <2>1, <2>2 DEF Over
    <2> QED
      BY <1>a, <1>p, <1>q, <2>1, <2>3 DEF HostSaved, HostFramed
  <1>7. CASE LoadReturn \/ LoadGprs
    <2>1. /\ place \in {"load", "gprs"} /\ place' \in {"gprs", "guest"}
          /\ UNCHANGED <<saved, frame, hostv, stale>>
      BY Zenon, <1>7 DEF LoadReturn, LoadGprs, Load
    <2> QED
      BY <1>a, <1>p, <1>q, <2>1 DEF HostSaved, HostFramed
  <1>8. CASE LoadVectors \/ LoadHcr
    <2>1. /\ place \in {"vectors", "hcr"} /\ place' \in {"hcr", "frame"}
          /\ UNCHANGED <<hw, saved, frame, hostv, stale>>
      BY Zenon, <1>8 DEF LoadVectors, LoadHcr
    <2> QED
      BY <1>a, <1>p, <1>q, <2>1 DEF HostSaved, HostFramed
  <1>9. CASE PushFrame
    <2>1. /\ place = "frame" /\ place' = "load" /\ frame' = Over(frame, Frm, hw)
          /\ UNCHANGED <<hw, saved, hostv, stale>>
      BY Zenon, <1>9 DEF PushFrame, Frm
    <2>2. \A r \in Frm : frame'[r] = hw[r]
      BY Zenon, <1>b, <2>1 DEF Over
    <2> QED
      BY <1>a, <1>p, <1>q, <2>1, <2>2 DEF HostSaved, HostFramed
  <1>10. CASE \E k \in Kinds : Trap(k)
    <2>1. place = "guest" /\ place' = "stub" /\ UNCHANGED <<saved, frame, hostv, stale>>
      BY Zenon, <1>10 DEF Trap
    <2> QED
      BY <1>a, <1>p, <1>q, <2>1 DEF HostSaved, HostFramed
  <1>11. CASE TrapAarch32 \/ HostInterrupt
    <2>1. place' = "stuck"
      BY Zenon, <1>11 DEF TrapAarch32, HostInterrupt
    <2> QED
      BY <1>q, <2>1 DEF HostSaved, HostFramed
  <1>12. CASE Stub
    <2>1. /\ place = "stub" /\ place' = "regs" /\ frame' = Over(frame, X01, hw)
          /\ UNCHANGED <<saved, hostv, stale>>
      BY Zenon, <1>12 DEF Stub
    <2>2. \A r \in Frm : frame'[r] = frame[r]
      BY Zenon, <1>b, <1>c, <2>1 DEF Over
    <2> QED
      BY <1>a, <1>p, <1>q, <2>1, <2>2 DEF HostSaved, HostFramed
  <1>13. CASE SaveGuest
    <2>1. place = "regs" /\ place' = "ret" /\ UNCHANGED <<saved, frame, hostv, stale>>
      BY Zenon, <1>13 DEF SaveGuest
    <2> QED
      BY <1>a, <1>p, <1>q, <2>1 DEF HostSaved, HostFramed
  <1>14. CASE PopFrame
    <2>1. /\ place = "ret" /\ place' = "hcr_back" /\ hw' = Over(hw, Frm, frame)
          /\ UNCHANGED <<saved, hostv, stale>>
      BY Zenon, <1>14 DEF PopFrame, Load, Frm
    <2>2. \A r \in Frm : hw'[r] = frame[r]
      BY Zenon, <1>b, <1>c, <2>1 DEF Over
    <2> QED
      BY <1>a, <1>p, <1>q, <2>1, <2>2 DEF HostSaved, HostFramed
  <1>15. CASE RestoreHcr \/ SaveEl1
    <2>1. /\ place \in {"hcr_back", "el1_back"} /\ place' \in {"el1_back", "timers_back"}
          /\ UNCHANGED <<hw, saved, frame, hostv, stale>>
      BY Zenon, <1>15 DEF RestoreHcr, SaveEl1
    <2> QED
      BY <1>a, <1>p, <1>q, <2>1 DEF HostSaved, HostFramed
  <1>16. CASE SaveTimers
    <2>1. /\ place = "timers_back" /\ place' = "host_back" /\ UNCHANGED <<saved, hostv, stale>>
          /\ hw' = [r \in Registers |-> IF r \in TimerCtls THEN Zero ELSE hw[r]]
      BY Zenon, <1>16 DEF SaveTimers
    <2>2. (\A r \in Frm : hw'[r] = hw[r]) /\ \A r \in TimerCtls : hw'[r] = Zero
      BY Zenon, <1>c, <2>1
    <2> QED
      BY <1>a, <1>p, <1>q, <2>1, <2>2 DEF HostSaved, HostFramed
  <1>17. CASE RestoreHost
    <2>1. /\ place = "host_back" /\ place' = "code" /\ UNCHANGED <<saved, hostv, stale>>
          /\ hw' = Over(hw, Sav, saved.regs)
      BY Zenon, <1>17 DEF RestoreHost, Sav
    <2>2. /\ \A r \in Frm : hw'[r] = hw[r]
          /\ \A r \in Sav : hw'[r] = saved.regs[r]
          /\ \A r \in TimerCtls : hw'[r] = hw[r]
      BY Zenon, <1>b, <1>c, <2>1 DEF Over
    <2> QED
      BY <1>a, <1>c, <1>p, <1>q, <2>1, <2>2 DEF HostSaved, HostFramed
  <1>18. CASE HostPreempts
    <2>1. PICK f \in Interruptions :
              /\ hw' = Over(hw, DOMAIN f, f) /\ hostv' = Over(hostv, DOMAIN f, f)
              /\ stale' = IF place = "save" THEN stale \ DOMAIN f ELSE stale \cup DOMAIN f
      BY Zenon, <1>18 DEF HostPreempts
    <2>2. /\ UNCHANGED <<place, saved, frame>>
          /\ place \in EntryPlaces
      BY Zenon, <1>18 DEF HostPreempts, SwitchInv, MaskedOut
    <2>3. DOMAIN hostv = Kept
      BY Zenon DEF SwitchInv, WsTypeOK
    <2>4. /\ \A r \in Registers : hw'[r] = IF r \in DOMAIN f THEN f[r] ELSE hw[r]
          /\ \A r \in Kept : hostv'[r] = IF r \in DOMAIN f THEN f[r] ELSE hostv[r]
      BY ONLY Zenon, <1>b, <2>1, <2>3 DEF Over
    <2>5. /\ \A r \in Frm : r \notin DOMAIN f /\ r \in Kept /\ r \in Registers
          /\ \A r \in TimerCtls : r \notin DOMAIN f /\ r \in Registers
      BY ONLY Zenon, <1>c
    <2>6. /\ \A r \in Frm : hw'[r] = hw[r] /\ hostv'[r] = hostv[r]
          /\ \A r \in TimerCtls : hw'[r] = hw[r]
      BY ONLY Zenon, <2>4, <2>5
    <2>7. CASE place = "save"
      <3>1. \A r \in Kept \ stale : hw[r] = hostv[r]
        BY <1>a, <1>p, <2>7
      <3>2. stale' = stale \ DOMAIN f
        BY ONLY Zenon, <2>1, <2>7
      <3>3. \A r \in Kept \ stale' : hw'[r] = hostv'[r]
        BY ONLY Zenon, <1>c, <2>4, <3>1, <3>2
      <3> QED
        BY <1>a, <1>p, <1>q, <2>2, <2>6, <2>7, <3>3 DEF HostSaved, HostFramed
    <2>8. CASE place # "save"
      <3>1. place \in HostSaved /\ place \notin {"new", "out", "end", "save", "host_back", "code"}
        BY <2>2, <2>8 DEF HostSaved
      <3>2. \A r \in Sav \ stale : saved.regs[r] = hostv[r]
        BY Zenon, <1>a, <1>p, <3>1
      <3>3. stale' = stale \cup DOMAIN f
        BY ONLY Zenon, <2>1, <2>8
      <3>4. \A r \in Sav \ stale' : saved'.regs[r] = hostv'[r]
        BY ONLY Zenon, <1>c, <2>2, <2>4, <3>2, <3>3
      <3>5. place' \notin {"new", "out", "end", "save", "code"}
        BY <2>2, <3>1
      <3> QED
        BY Zenon, <1>a, <1>p, <1>q, <2>2, <2>6, <3>1, <3>4, <3>5
    <2> QED
      BY Zenon, <2>7, <2>8
  <1> QED
    BY ONLY ZenonT(30), WsNext, <1>1, <1>2, <1>3, <1>4, <1>5, <1>6, <1>7, <1>8, <1>9, <1>10,
       <1>11, <1>12, <1>13, <1>14, <1>15, <1>16, <1>17, <1>18
       DEF WsNext

\* Every step keeps vectors and HCR_EL2 in the order the switch needs.
LEMMA RoutingStep ==
    ASSUME SwitchInv, WsNext
    PROVE  Routing'
  <1> HIDE DEF Kept, Banked, Direct, Guest, Controls, Registers, Kinds, HcrBits, Places
  <1>a. Routing
    BY Zenon DEF SwitchInv
  <1>b. vcpu \in [regs : [Guest \cup Controls \cup Syndrome -> Values], hcr : SUBSET HcrBits]
    BY Zenon DEF SwitchInv, WsTypeOK
  <1>c. \A v : [vcpu EXCEPT !.regs = v].hcr = vcpu.hcr
    BY Zenon, <1>b
  <1> USE <1>a DEF Routing, HostSaved, GuestHcr, VectorsIn
  <1>1. CASE arm64_vcpu_init
    <2>1. place' = "out" \/ place' = "end"
      BY Zenon, <1>1 DEF arm64_vcpu_init
    <2>2. place = "new" /\ UNCHANGED <<hcr, vbar, saved>>
      BY Zenon, <1>1 DEF arm64_vcpu_init
    <2>3. ASSUME place' = "out"
          PROVE  /\ "TGE" \in hcr /\ "TGE" \notin vcpu'.hcr
                 /\ {"E2H", "RW", "VM", "AMO", "IMO", "FMO"} \subseteq vcpu'.hcr
      <3>0. "out" # "end"
        OBVIOUS
      <3>1. PICK f \in Features :
                /\ {"E2H", "TGE"} \subseteq hcr
                /\ vcpu' = [regs |-> Over(relm_setup_guest_state_aarch64(vcpu.regs), Controls,
                                         [r \in Controls |-> Entry]),
                            hcr |-> relm_setup_guest_ctrls_vhe(f)]
        BY ONLY Zenon, <1>1, <2>3, <3>0 DEF arm64_vcpu_init
      <3>2. /\ {"E2H", "RW", "VM", "AMO", "IMO", "FMO"} \subseteq relm_setup_guest_ctrls_vhe(f)
            /\ "TGE" \notin relm_setup_guest_ctrls_vhe(f)
        BY Zenon DEF relm_setup_guest_ctrls_vhe
      <3> QED
        BY Zenon, <3>1, <3>2
    <2> QED
      BY <2>1, <2>2, <2>3
  <1>2. CASE EntryStart
    BY Zenon, <1>2 DEF EntryStart
  <1>3. CASE ExitDone
    BY Zenon, <1>3 DEF ExitDone
  <1>4. CASE HostRuns
    BY Zenon, <1>4 DEF HostRuns
  <1>5. CASE SaveHost
    BY Zenon, <1>5 DEF SaveHost
  <1>6. CASE \/ LoadStage2 \/ LoadEl1 \/ LoadShared \/ LoadTimers \/ LoadControls
             \/ LoadReturn \/ LoadGprs
    <2>1. /\ <<place, place'>> \in {<<"stage2", "el1">>, <<"el1", "shared">>, <<"shared", "timers">>,
                                   <<"timers", "ctrls">>, <<"ctrls", "vectors">>,
                                   <<"load", "gprs">>, <<"gprs", "guest">>}
          /\ UNCHANGED <<hcr, vbar, saved, vcpu>>
      BY Zenon, <1>6 DEF LoadStage2, LoadEl1, LoadShared, LoadTimers, LoadControls, LoadReturn,
         LoadGprs, Load
    <2> QED
      BY <2>1
  <1>7. CASE LoadVectors \/ LoadHcr \/ PushFrame
    BY <1>7 DEF LoadVectors, LoadHcr, PushFrame, cpuRegs
  <1>8. CASE \E k \in Kinds : Trap(k)
    BY Zenon, <1>8 DEF Trap
  <1>9. CASE TrapAarch32 \/ HostInterrupt
    <2>1. place' = "stuck" /\ vbar = "relm" /\ UNCHANGED <<hcr, vbar, saved, vcpu>> /\ place \notin {"new", "end"}
      BY <1>9 DEF TrapAarch32, HostInterrupt
    <2> QED
      BY <2>1
  <1>10. CASE Stub \/ PopFrame
    BY <1>10 DEF Stub, PopFrame, Load
  <1>11. CASE SaveGuest
    <2>1. vcpu'.hcr = vcpu.hcr /\ place = "regs" /\ place' = "ret" /\ UNCHANGED <<hcr, vbar, saved>>
      BY Zenon, <1>11, <1>c DEF SaveGuest
    <2> QED
      BY <2>1
  <1>12. CASE RestoreHcr
    BY <1>12 DEF RestoreHcr
  <1>13. CASE SaveEl1 \/ SaveTimers
    <2>1. /\ vcpu'.hcr = vcpu.hcr /\ UNCHANGED <<hcr, vbar, saved>>
          /\ <<place, place'>> \in {<<"el1_back", "timers_back">>, <<"timers_back", "host_back">>}
      BY Zenon, <1>13, <1>c DEF SaveEl1, SaveTimers
    <2> QED
      BY <2>1
  <1>14. CASE RestoreHost
    BY Zenon, <1>14 DEF RestoreHost
  <1>15. CASE HostPreempts
    <2>1. UNCHANGED <<place, hcr, vbar, saved, vcpu>>
      BY Zenon, <1>15 DEF HostPreempts
    <2> QED
      BY Zenon, <2>1
  <1> QED
    BY ONLY ZenonT(30), WsNext, <1>1, <1>2, <1>3, <1>4, <1>5, <1>6, <1>7, <1>8, <1>9, <1>10,
       <1>11, <1>12, <1>13, <1>14, <1>15
       DEF WsNext

\* Only the exception leads to the way out, and nothing unmasks on it.
LEMMA MaskedStep ==
    ASSUME SwitchInv, WsNext
    PROVE  MaskedOut'
  <1> HIDE DEF Kept, Banked, Direct, Guest, Controls, Registers, Kinds, HcrBits, Places
  <1>a. MaskedOut
    BY Zenon DEF SwitchInv
  <1>1. CASE \/ arm64_vcpu_init \/ EntryStart \/ SaveHost \/ LoadStage2 \/ LoadEl1 \/ LoadShared
             \/ LoadTimers \/ LoadControls \/ LoadVectors \/ LoadHcr \/ PushFrame \/ LoadReturn
             \/ LoadGprs \/ TrapAarch32 \/ ExitDone \/ HostRuns \/ HostInterrupt
    <2>1. place' \in {"out", "end", "save", "stage2", "el1", "shared", "timers", "ctrls", "vectors",
                     "hcr", "frame", "load", "gprs", "guest", "stuck"}
      BY Zenon, <1>1 DEF arm64_vcpu_init, EntryStart, SaveHost, LoadStage2, LoadEl1, LoadShared,
         LoadTimers, LoadControls, LoadVectors, LoadHcr, PushFrame, LoadReturn, LoadGprs,
         TrapAarch32, ExitDone, HostRuns, HostInterrupt, Load
    <2> QED
      BY ONLY <2>1 DEF MaskedOut, ExitPlaces
  <1>2. CASE \E k \in Kinds : Trap(k)
    <2>1. masked'
      BY Zenon, <1>2 DEF Trap
    <2> QED
      BY Zenon, <2>1 DEF MaskedOut
  <1>3. CASE \/ Stub \/ SaveGuest \/ PopFrame \/ RestoreHcr \/ SaveEl1 \/ SaveTimers
             \/ RestoreHost
    <2>1. place \in ExitPlaces /\ masked' = masked
      BY Zenon, <1>3 DEF Stub, SaveGuest, PopFrame, RestoreHcr, SaveEl1, SaveTimers, RestoreHost,
         Load, ExitPlaces
    <2> QED
      BY Zenon, <1>a, <2>1 DEF MaskedOut
  <1>4. CASE HostPreempts
    <2>1. UNCHANGED <<place, masked>>
      BY Zenon, <1>4 DEF HostPreempts
    <2> QED
      BY Zenon, <1>a, <2>1 DEF MaskedOut
  <1> QED
    BY ONLY ZenonT(30), WsNext, <1>1, <1>2, <1>3, <1>4 DEF WsNext

\* What is loaded are registers of the CPU.
LEMMA LoadedRegisters == \A p : LoadedAt(p) \subseteq Registers
  <1>1. \A p : LoadedAt(p) \subseteq Borrowed \cup El12 \cup Shared \cup (GuestTimers \cup TimerCtls)
                   \cup El2Ctls \cup ({SpEl0, Fp} \cup Return) \cup (Callee \cup Scratch \cup X01)
    BY Zenon DEF LoadedAt
  <1> QED
    BY Zenon, <1>1, WorldSwitchAssumption

\* A step that loads S from vcpu->arch adds S to what is loaded.
LEMMA LoadMore ==
    ASSUME SwitchInv, NEW S, NEW from \in EntryPlaces, NEW to \in EntryPlaces \cup {"guest"},
           Load(from, to, S, vcpu.regs), LoadedAt(to) = LoadedAt(from) \cup S
    PROVE  GuestIn'
  <1>1. /\ place = from /\ place' = to /\ vcpu' = vcpu /\ guestv' = guestv
        /\ hw' = Over(hw, S, vcpu.regs) /\ spoilt' = spoilt \ S
    BY Zenon DEF Load
  <1>2. \A p : LoadedAt(p) \subseteq Registers
    BY Zenon, LoadedRegisters
  <1>3. DOMAIN hw = Registers
    BY Zenon DEF SwitchInv, WsTypeOK
  <1>4. \A r \in LoadedAt(from) \ spoilt : hw[r] = vcpu.regs[r]
    BY Zenon, <1>1 DEF SwitchInv, GuestIn
  <1>5. \A r \in LoadedAt(to) \ spoilt' : hw'[r] = vcpu.regs[r]
    BY ONLY Zenon, <1>1, <1>2, <1>3, <1>4, LoadedAt(to) = LoadedAt(from) \cup S DEF Over
  <1>6. \A r \in Guest : vcpu.regs[r] = guestv[r]
    BY Zenon, <1>1 DEF SwitchInv, GuestIn
  <1> QED
    BY ONLY Zenon, <1>1, <1>5, <1>6 DEF GuestIn

\* The steps that load registers of the guest.
LEMMA LoadsGuestIn ==
    ASSUME SwitchInv,
           \/ LoadStage2 \/ LoadEl1 \/ LoadShared \/ LoadTimers \/ LoadControls
           \/ LoadReturn \/ LoadGprs
    PROVE  GuestIn'
  <1>1. CASE LoadStage2
    <2>1. LoadedAt("el1") = LoadedAt("stage2") \cup Borrowed
      BY Zenon DEF LoadedAt
    <2> QED
      BY Zenon, <1>1, <2>1, LoadMore DEF LoadStage2
  <1>2. CASE LoadEl1
    <2>1. LoadedAt("shared") = LoadedAt("el1") \cup El12
      BY Zenon DEF LoadedAt
    <2> QED
      BY Zenon, <1>2, <2>1, LoadMore DEF LoadEl1
  <1>3. CASE LoadShared
    <2>1. LoadedAt("timers") = LoadedAt("shared") \cup Shared
      BY Zenon DEF LoadedAt
    <2> QED
      BY Zenon, <1>3, <2>1, LoadMore DEF LoadShared
  <1>4. CASE LoadTimers
    <2>1. LoadedAt("ctrls") = LoadedAt("timers") \cup (GuestTimers \cup TimerCtls)
      BY Zenon DEF LoadedAt
    <2> QED
      BY Zenon, <1>4, <2>1, LoadMore DEF LoadTimers
  <1>5. CASE LoadControls
    <2>1. LoadedAt("vectors") = LoadedAt("ctrls") \cup Controls
      BY Zenon DEF LoadedAt
    <2> QED
      BY Zenon, <1>5, <2>1, LoadMore DEF LoadControls
  <1>6. CASE LoadReturn
    <2>1. LoadedAt("gprs") = LoadedAt("load") \cup ({SpEl0, Fp} \cup Return)
      BY Zenon DEF LoadedAt
    <2> QED
      BY Zenon, <1>6, <2>1, LoadMore DEF LoadReturn
  <1>7. CASE LoadGprs
    <2>1. LoadedAt("guest") = LoadedAt("gprs") \cup (Callee \cup Scratch \cup X01)
      BY Zenon DEF LoadedAt
    <2> QED
      BY Zenon, <1>7, <2>1, LoadMore DEF LoadGprs
  <1> QED
    BY Zenon, <1>1, <1>2, <1>3, <1>4, <1>5, <1>6, <1>7

\* What is loaded while the vectors and HCR_EL2 are switched, and in the guest.
LEMMA LoadedFacts ==
    /\ \A p : p \notin (EntryPlaces \ {"save", "stage2"}) \cup {"guest"} => LoadedAt(p) = {}
    /\ LoadedAt("hcr") = LoadedAt("vectors") /\ LoadedAt("frame") = LoadedAt("hcr")
    /\ LoadedAt("load") = LoadedAt("frame")
    /\ Guest \cup Controls \subseteq LoadedAt("guest")
  <1>1. ASSUME NEW p, p \notin (EntryPlaces \ {"save", "stage2"}) \cup {"guest"}
        PROVE  LoadedAt(p) = {}
    <2>1. /\ p \notin (EntryPlaces \ {"save", "stage2", "el1"}) \cup {"guest"}
          /\ p \notin (EntryPlaces \ {"save", "stage2", "el1", "shared"}) \cup {"guest"}
          /\ p \notin {"ctrls", "vectors", "hcr", "frame", "load", "gprs", "guest"}
          /\ p \notin {"vectors", "hcr", "frame", "load", "gprs", "guest"}
          /\ p \notin {"gprs", "guest"} /\ p # "guest"
      BY <1>1
    <2> HIDE DEF EntryPlaces
    <2> QED
      BY ONLY Zenon, <1>1, <2>1 DEF LoadedAt
  <1>2. LoadedAt("hcr") = LoadedAt("vectors") /\ LoadedAt("frame") = LoadedAt("hcr")
    BY Zenon DEF LoadedAt
  <1>3. LoadedAt("load") = LoadedAt("frame")
    BY Zenon DEF LoadedAt
  <1>4. LoadedAt("guest") = Borrowed \cup El12 \cup Shared \cup (GuestTimers \cup TimerCtls) \cup El2Ctls
                               \cup ({SpEl0, Fp} \cup Return) \cup (Callee \cup Scratch \cup X01)
    BY Zenon DEF LoadedAt
  <1>5. Guest \cup Controls \subseteq LoadedAt("guest")
    BY Zenon, <1>4
  <1> QED
    BY Zenon, <1>1, <1>2, <1>3, <1>5

\* The steps between them, which leave registers and vcpu->arch alone.
LEMMA BetweenGuestIn ==
    ASSUME SwitchInv, LoadVectors \/ LoadHcr \/ PushFrame
    PROVE  GuestIn'
  <1>1. /\ place \in EntryPlaces /\ place' \in EntryPlaces /\ UNCHANGED <<hw, vcpu, guestv, spoilt>>
        /\ <<place, place'>> \in {<<"vectors", "hcr">>, <<"hcr", "frame">>, <<"frame", "load">>}
    BY Zenon DEF LoadVectors, LoadHcr, PushFrame
  <1>2. LoadedAt(place') = LoadedAt(place)
    BY Zenon, <1>1, LoadedFacts
  <1> HIDE DEF Guest, EntryPlaces
  <1> QED
    BY Zenon, <1>1, <1>2 DEF SwitchInv, GuestIn

\* Where nothing is loaded vcpu->arch alone counts.
LEMMA NothingLoaded ==
    ASSUME place' \notin (EntryPlaces \ {"save", "stage2"}) \cup {"guest"},
           place' \in {"out", "save", "stage2", "code"} => \A r \in Guest : vcpu'.regs[r] = guestv'[r]
    PROVE  GuestIn'
  <1>1. LoadedAt(place') = {}
    BY Zenon, LoadedFacts
  <1>2. place' \in EntryPlaces \cup {"out", "guest", "code"} => place' \in {"out", "save", "stage2", "code"}
    OBVIOUS
  <1> HIDE DEF Guest, EntryPlaces
  <1> QED
    BY Zenon, <1>1, <1>2 DEF GuestIn

\* Every step on the way in keeps or extends what is loaded.
LEMMA GuestInStep ==
    ASSUME SwitchInv, WsNext
    PROVE  GuestIn'
  <1> HIDE DEF Kept, Banked, Direct, Guest, Controls, Registers, Kinds, HcrBits, Places
  <1> DEFINE Away == place' \notin (EntryPlaces \ {"save", "stage2"}) \cup {"guest"}
  <1>a. place \in EntryPlaces \cup {"out", "guest", "code"} => \A r \in Guest : vcpu.regs[r] = guestv[r]
    BY Zenon DEF SwitchInv, GuestIn
  <1>1. CASE arm64_vcpu_init
    <2>1. Away /\ place' \in {"out", "end"} /\ "out" # "end"
      <3>1. place' = "out" \/ place' = "end"
        BY Zenon, <1>1 DEF arm64_vcpu_init
      <3> QED
        BY <3>1
    <2>2. ASSUME place' = "out" PROVE \A r \in Guest : vcpu'.regs[r] = guestv'[r]
      <3>1. PICK f \in Features :
                /\ vcpu' = [regs |-> Over(relm_setup_guest_state_aarch64(vcpu.regs), Controls,
                                          [r \in Controls |-> Entry]),
                            hcr |-> relm_setup_guest_ctrls_vhe(f)]
                /\ guestv' = [r \in Guest |-> relm_setup_guest_state_aarch64(vcpu.regs)[r]]
        BY ONLY Zenon, <1>1, <2>1, <2>2 DEF arm64_vcpu_init
      <3>2. Guest \cap Controls = {}
        BY Zenon, WorldSwitchAssumption DEF Guest, Banked, Direct, Controls
      <3>3. DOMAIN relm_setup_guest_state_aarch64(vcpu.regs) = Guest \cup Controls \cup Syndrome
        BY Zenon DEF relm_setup_guest_state_aarch64, SwitchInv, WsTypeOK
      <3>4. vcpu'.regs = Over(relm_setup_guest_state_aarch64(vcpu.regs), Controls,
                              [r \in Controls |-> Entry])
        BY ONLY Zenon, <3>1
      <3>5. \A r \in Guest : vcpu'.regs[r] = relm_setup_guest_state_aarch64(vcpu.regs)[r]
        BY ONLY Zenon, <3>2, <3>3, <3>4 DEF Over
      <3> QED
        BY ONLY Zenon, <3>1, <3>5
    <2>3. place' \in {"out", "save", "stage2", "code"} => place' = "out"
      BY <2>1
    <2> QED
      BY Zenon, <2>1, <2>2, <2>3, NothingLoaded
  <1>2. CASE EntryStart \/ ExitDone \/ HostRuns \/ SaveHost
    <2>1. /\ place \in EntryPlaces \cup {"out", "guest", "code"} /\ UNCHANGED <<vcpu, guestv>>
          /\ place' \in {"save", "end", "out", "stage2"}
      BY Zenon, <1>2 DEF EntryStart, ExitDone, HostRuns, SaveHost
    <2>2. Away
      BY <2>1
    <2> QED
      BY Zenon, <1>a, <2>1, <2>2, NothingLoaded
  <1>3. CASE \/ LoadStage2 \/ LoadEl1 \/ LoadShared \/ LoadTimers \/ LoadControls
             \/ LoadReturn \/ LoadGprs
    BY Zenon, <1>3, LoadsGuestIn
  <1>4. CASE LoadVectors \/ LoadHcr \/ PushFrame
    BY Zenon, <1>4, BetweenGuestIn
  <1>5. CASE \/ (\E k \in Kinds : Trap(k)) \/ TrapAarch32 \/ HostInterrupt \/ Stub \/ SaveGuest
             \/ PopFrame \/ RestoreHcr \/ SaveEl1 \/ SaveTimers
    <2>1. place' \in {"stub", "stuck", "regs", "ret", "hcr_back", "el1_back", "timers_back", "host_back"}
      BY Zenon, <1>5 DEF Trap, TrapAarch32, HostInterrupt, Stub, SaveGuest, PopFrame, RestoreHcr,
         SaveEl1, SaveTimers, Load
    <2>2. Away /\ place' \notin {"out", "save", "stage2", "code"}
      BY <2>1
    <2> QED
      BY Zenon, <2>2, NothingLoaded
  <1>6. CASE RestoreHost
    <2>1. place = "host_back" /\ place' = "code" /\ UNCHANGED <<vcpu, guestv>>
      BY Zenon, <1>6 DEF RestoreHost
    <2>2. /\ \A r \in Direct : vcpu.regs[r] = guestv[r]
          /\ \A r \in El12 \cup Shared : vcpu.regs[r] = guestv[r]
          /\ \A r \in GuestTimers \cup TimerCtls : vcpu.regs[r] = guestv[r]
      BY Zenon, <2>1 DEF SwitchInv, GuestOut
    <2>3. \A r \in Guest : vcpu.regs[r] = guestv[r]
      BY Zenon, <2>2 DEF Guest, Banked
    <2>4. Away
      BY <2>1
    <2> QED
      BY Zenon, <2>1, <2>3, <2>4, NothingLoaded
  <1>7. CASE HostPreempts
    <2>1. PICK f \in Interruptions : hw' = Over(hw, DOMAIN f, f) /\ spoilt' = spoilt \cup DOMAIN f
      BY Zenon, <1>7 DEF HostPreempts
    <2>2. UNCHANGED <<place, vcpu, guestv>>
      BY Zenon, <1>7 DEF HostPreempts
    <2>3. \A r \in LoadedAt(place) \ spoilt : hw[r] = vcpu.regs[r]
      BY Zenon DEF SwitchInv, GuestIn
    <2>4. DOMAIN hw = Registers /\ LoadedAt(place) \subseteq Registers
      BY Zenon, LoadedRegisters DEF SwitchInv, WsTypeOK
    <2>5. \A r \in LoadedAt(place) \ spoilt' : hw'[r] = vcpu.regs[r]
      BY ONLY Zenon, <2>1, <2>3, <2>4 DEF Over
    <2> HIDE DEF EntryPlaces
    <2> QED
      BY ONLY Zenon, <1>a, <2>2, <2>5 DEF GuestIn
  <1> QED
    BY ONLY ZenonT(30), WsNext, <1>1, <1>2, <1>3, <1>4, <1>5, <1>6, <1>7
       DEF WsNext

\* An exception leaves the guest's registers on the CPU, with its syndrome.
LEMMA TrapGuestOut ==
    ASSUME SwitchInv, NEW k \in Kinds, Trap(k)
    PROVE  GuestOut'
  <1>1. PICK f \in GuestFiles, v \in Values :
            /\ place' = "stub" /\ guestv' = f /\ trap' = [kind |-> k, syn |-> v]
            /\ hw' = Over(Over(hw, Guest, f), Syndrome, [r \in Syndrome |-> v])
    BY ZenonT(30) DEF Trap
  <1>2. DOMAIN hw = Registers /\ Guest \cap Syndrome = {} /\ Syndrome \subseteq Registers
    <2>1. hw \in [Registers -> Values]
      BY ONLY Zenon, SwitchInv DEF SwitchInv, WsTypeOK
    <2>2. Guest \cap Syndrome = {} /\ Syndrome \subseteq Registers
      BY ONLY Zenon, WorldSwitchAssumption
    <2> QED
      BY ONLY Zenon, <2>1, <2>2
  <1>3. \A r \in Registers : hw'[r] = IF r \in Syndrome THEN v
                                     ELSE IF r \in Guest THEN f[r] ELSE hw[r]
    BY ONLY Zenon, <1>1, <1>2 DEF Over
  <1>4. /\ \A r \in Guest : hw'[r] = guestv'[r]
        /\ \A r \in Syndrome : hw'[r] = trap'.syn
    BY ONLY ZenonT(30), <1>1, <1>2, <1>3
  <1> QED
    BY Zenon, <1>1, <1>4 DEF GuestOut

\* On the way in, and where the switch ends, nothing is on its way out.
LEMMA InwardGuestOut ==
    ASSUME place' \in EntryPlaces \cup {"guest", "stuck", "end"}
    PROVE  GuestOut'
  <1>1. /\ place' \notin ExitPlaces /\ place' # "new" /\ place' # "stub" /\ place' # "regs"
        /\ place' # "timers_back" /\ place' # "out"
    BY DEF EntryPlaces, ExitPlaces
  <1>2. {"stub", "regs", "ret", "hcr_back", "el1_back", "timers_back", "host_back", "code"} = ExitPlaces
    BY Zenon DEF ExitPlaces
  <1>3. /\ place' \notin {"stub", "regs"} /\ place' \notin {"ret", "hcr_back", "el1_back"}
        /\ place' \notin {"timers_back", "host_back", "code"} /\ place' \notin {"host_back", "code"}
        /\ place' \notin {"ret", "hcr_back", "el1_back", "timers_back", "host_back", "code"}
    BY ONLY Zenon, <1>1, <1>2
  <1> QED
    BY ONLY Zenon, <1>1, <1>3 DEF GuestOut

\* Every step on the way out keeps or extends what is saved.
LEMMA GuestOutStep ==
    ASSUME SwitchInv, WsNext
    PROVE  GuestOut'
  <1>1. CASE \/ SaveHost \/ LoadStage2 \/ LoadEl1 \/ LoadShared \/ LoadTimers \/ LoadControls
             \/ LoadVectors \/ LoadHcr \/ PushFrame \/ LoadReturn \/ LoadGprs
             \/ TrapAarch32 \/ HostInterrupt
    <2>1. place' \in EntryPlaces \cup {"guest", "stuck", "end"}
      BY Zenon, <1>1 DEF SaveHost, LoadStage2, LoadEl1, LoadShared, LoadTimers, LoadControls,
         LoadVectors, LoadHcr, PushFrame, LoadReturn, LoadGprs, TrapAarch32, HostInterrupt, Load,
         EntryPlaces
    <2> QED
      BY Zenon, <2>1, InwardGuestOut
  <1>2. CASE EntryStart
    <2>1. place' \in EntryPlaces \cup {"guest", "stuck", "end"}
      BY Zenon, <1>2 DEF EntryStart, EntryPlaces
    <2> QED
      BY Zenon, <2>1, InwardGuestOut
  <1>3. CASE \E k \in Kinds : Trap(k)
    BY Zenon, <1>3, TrapGuestOut
  <1>d. /\ DOMAIN hw = Registers /\ DOMAIN vcpu.regs = Guest \cup Controls \cup Syndrome
        /\ DOMAIN frame = Callee \cup {SpEl0} \cup X01
        /\ \A R : [vcpu EXCEPT !.regs = R].regs = R
    BY Zenon DEF SwitchInv, WsTypeOK
  <1>e. /\ Guest = Banked \cup Direct /\ Guest \subseteq Registers /\ X01 \subseteq Direct
        /\ Banked = (El12 \cup Shared) \cup (GuestTimers \cup TimerCtls)
        /\ Direct = (Callee \cup Scratch \cup {SpEl0, Fp} \cup Return) \cup X01
        /\ Callee \cup {SpEl0} \subseteq Direct
    BY Zenon
  <1>s. Guest \cap Syndrome = {} /\ Banked \cap Direct = {} /\ Syndrome \subseteq Registers
    BY Zenon, WorldSwitchAssumption
  <1> HIDE DEF Kept, Banked, Direct, Guest, Controls, Registers, Kinds, HcrBits, Places
  <1>o. GuestOut
    BY Zenon DEF SwitchInv
  <1>4. CASE arm64_vcpu_init
    <2>1. place = "new" /\ trap' = trap /\ place' \in {"out", "end"}
      BY Zenon, <1>4 DEF arm64_vcpu_init
    <2>2. trap'.kind = "none"
      BY Zenon, <1>o, <2>1 DEF GuestOut
    <2>3. CASE place' = "end"
      BY Zenon, <2>3, InwardGuestOut
    <2>4. CASE place' = "out"
      BY Zenon, <2>2, <2>4 DEF GuestOut
    <2> QED
      BY Zenon, <2>1, <2>3, <2>4
  <1>5. CASE ExitDone
    <2>1. place = "code" /\ place' \in {"out", "end"} /\ UNCHANGED <<vcpu, code, trap>>
      BY Zenon, <1>5 DEF ExitDone
    <2>2. code = trap.kind /\ \A r \in Syndrome : vcpu.regs[r] = trap.syn
      BY Zenon, <1>o, <2>1 DEF GuestOut
    <2>3. CASE place' = "end"
      BY Zenon, <2>3, InwardGuestOut
    <2>4. CASE place' = "out"
      BY Zenon, <2>1, <2>2, <2>4 DEF GuestOut
    <2> QED
      BY Zenon, <2>1, <2>3, <2>4
  <1>6. CASE HostRuns
    <2>1. place = "out" /\ place' = "out" /\ UNCHANGED <<vcpu, code, trap>>
      BY Zenon, <1>6 DEF HostRuns
    <2>2. trap.kind # "none" => code = trap.kind /\ \A r \in Syndrome : vcpu.regs[r] = trap.syn
      BY Zenon, <1>o, <2>1 DEF GuestOut
    <2> QED
      BY Zenon, <2>1, <2>2 DEF GuestOut
  <1>7. CASE Stub
    <2>1. /\ place = "stub" /\ place' = "regs" /\ frame' = Over(frame, X01, hw) /\ code' = trap.kind
          /\ hw' = [r \in Registers |-> IF r \in X01 THEN Zero ELSE hw[r]]
          /\ UNCHANGED <<guestv, trap>>
      BY Zenon, <1>7 DEF Stub
    <2>2. /\ trap.kind \in Kinds /\ (\A r \in Guest : hw[r] = guestv[r])
          /\ \A r \in Syndrome : hw[r] = trap.syn
      BY Zenon, <1>o, <2>1 DEF GuestOut
    <2>3. (\A r \in Guest \ X01 : hw'[r] = guestv[r]) /\ \A r \in Syndrome : hw'[r] = trap.syn
      BY Zenon, <1>e, <1>s, <2>1, <2>2
    <2>4. \A r \in X01 : frame'[r] = guestv[r]
      BY Zenon, <1>d, <1>e, <2>1, <2>2 DEF Over
    <2> QED
      BY Zenon, <2>1, <2>2, <2>3, <2>4 DEF GuestOut
  <1>8. CASE SaveGuest
    <2> DEFINE S == Callee \cup Scratch \cup {SpEl0, Fp} \cup Return \cup Syndrome
    <2>1. /\ place = "regs" /\ place' = "ret" /\ UNCHANGED <<hw, code, guestv, trap>>
          /\ vcpu' = [vcpu EXCEPT !.regs = Over(Over(vcpu.regs, S, hw), X01, frame)]
      BY Zenon, <1>8 DEF SaveGuest
    <2>2. /\ trap.kind \in Kinds /\ code = trap.kind
          /\ (\A r \in Guest \ X01 : hw[r] = guestv[r]) /\ (\A r \in X01 : frame[r] = guestv[r])
          /\ \A r \in Syndrome : hw[r] = trap.syn
      BY Zenon, <1>o, <2>1 DEF GuestOut
    <2>3. vcpu'.regs = Over(Over(vcpu.regs, S, hw), X01, frame)
      BY Zenon, <1>d, <2>1
    <2>4. (\A r \in Direct : r \in X01 \/ r \in S) /\ \A r \in Syndrome : r \in S /\ r \notin X01
      BY Zenon, <1>e, <1>s
    <2> HIDE DEF S
    <2>5. \A r \in Direct \cup Syndrome : /\ r \in X01 => vcpu'.regs[r] = frame[r]
                                          /\ r \notin X01 => vcpu'.regs[r] = hw[r]
      BY Zenon, <1>d, <1>e, <2>3, <2>4 DEF Over
    <2>6. (\A r \in Direct : vcpu'.regs[r] = guestv[r]) /\ \A r \in Syndrome : vcpu'.regs[r] = trap.syn
      BY ONLY Zenon, <1>e, <2>2, <2>4, <2>5
    <2>7. \A r \in Banked : hw[r] = guestv[r]
      BY Zenon, <1>e, <1>s, <2>2
    <2> QED
      BY Zenon, <2>1, <2>2, <2>6, <2>7 DEF GuestOut
  <1>9. CASE PopFrame
    <2>1. /\ place = "ret" /\ place' = "hcr_back" /\ UNCHANGED <<vcpu, code, guestv, trap>>
          /\ hw' = Over(hw, Callee \cup {SpEl0}, frame)
      BY Zenon, <1>9 DEF PopFrame, Load
    <2>2. /\ trap.kind \in Kinds /\ code = trap.kind /\ (\A r \in Direct : vcpu.regs[r] = guestv[r])
          /\ (\A r \in Syndrome : vcpu.regs[r] = trap.syn) /\ \A r \in Banked : hw[r] = guestv[r]
      BY Zenon, <1>o, <2>1 DEF GuestOut
    <2>3. \A r \in Banked : hw'[r] = guestv[r]
      BY Zenon, <1>d, <1>e, <1>s, <2>1, <2>2 DEF Over
    <2> QED
      BY Zenon, <2>1, <2>2, <2>3 DEF GuestOut
  <1>10. CASE RestoreHcr
    <2>1. /\ place = "hcr_back" /\ place' = "el1_back" /\ UNCHANGED <<hw, vcpu, code, guestv, trap>>
      BY Zenon, <1>10 DEF RestoreHcr
    <2>2. /\ trap.kind \in Kinds /\ code = trap.kind /\ (\A r \in Direct : vcpu.regs[r] = guestv[r])
          /\ (\A r \in Syndrome : vcpu.regs[r] = trap.syn) /\ \A r \in Banked : hw[r] = guestv[r]
      BY Zenon, <1>o, <2>1 DEF GuestOut
    <2> QED
      BY Zenon, <2>1, <2>2 DEF GuestOut
  <1>11. CASE SaveEl1
    <2>1. /\ place = "el1_back" /\ place' = "timers_back" /\ UNCHANGED <<hw, code, guestv, trap>>
          /\ vcpu' = [vcpu EXCEPT !.regs = Over(vcpu.regs, El12 \cup Shared, hw)]
      BY Zenon, <1>11 DEF SaveEl1
    <2>2. /\ trap.kind \in Kinds /\ code = trap.kind /\ (\A r \in Direct : vcpu.regs[r] = guestv[r])
          /\ (\A r \in Syndrome : vcpu.regs[r] = trap.syn) /\ \A r \in Banked : hw[r] = guestv[r]
      BY Zenon, <1>o, <2>1 DEF GuestOut
    <2>3. vcpu'.regs = Over(vcpu.regs, El12 \cup Shared, hw)
      BY Zenon, <1>d, <2>1
    <2>4. \A r \in Direct \cup Syndrome : vcpu'.regs[r] = vcpu.regs[r]
      BY Zenon, <1>d, <1>e, <1>s, <2>3 DEF Over
    <2>5. \A r \in El12 \cup Shared : vcpu'.regs[r] = guestv[r]
      BY Zenon, <1>d, <1>e, <2>2, <2>3 DEF Over
    <2>6. \A r \in GuestTimers \cup TimerCtls : hw[r] = guestv[r]
      BY Zenon, <1>e, <2>2
    <2> QED
      BY Zenon, <2>1, <2>2, <2>4, <2>5, <2>6 DEF GuestOut
  <1>12. CASE SaveTimers
    <2>1. /\ place = "timers_back" /\ place' = "host_back" /\ UNCHANGED <<code, guestv, trap>>
          /\ vcpu' = [vcpu EXCEPT !.regs = Over(vcpu.regs, GuestTimers \cup TimerCtls, hw)]
      BY Zenon, <1>12 DEF SaveTimers
    <2>2. /\ trap.kind \in Kinds /\ code = trap.kind /\ (\A r \in Direct : vcpu.regs[r] = guestv[r])
          /\ (\A r \in Syndrome : vcpu.regs[r] = trap.syn)
          /\ (\A r \in El12 \cup Shared : vcpu.regs[r] = guestv[r])
          /\ \A r \in GuestTimers \cup TimerCtls : hw[r] = guestv[r]
      BY Zenon, <1>o, <2>1 DEF GuestOut
    <2>3. vcpu'.regs = Over(vcpu.regs, GuestTimers \cup TimerCtls, hw)
      BY Zenon, <1>d, <2>1
    <2>4. \A r \in Direct \cup Syndrome : vcpu'.regs[r] = vcpu.regs[r]
      BY Zenon, <1>d, <1>e, <1>s, <2>3 DEF Over
    <2>5. \A r \in (El12 \cup Shared) \cup (GuestTimers \cup TimerCtls) : vcpu'.regs[r] = guestv[r]
      BY Zenon, <1>d, <1>e, <2>2, <2>3 DEF Over
    <2> QED
      BY Zenon, <2>1, <2>2, <2>4, <2>5 DEF GuestOut
  <1>13. CASE RestoreHost
    <2>1. /\ place = "host_back" /\ place' = "code" /\ UNCHANGED <<vcpu, code, guestv, trap>>
      BY Zenon, <1>13 DEF RestoreHost
    <2>2. /\ trap.kind \in Kinds /\ code = trap.kind /\ (\A r \in Direct : vcpu.regs[r] = guestv[r])
          /\ (\A r \in Syndrome : vcpu.regs[r] = trap.syn)
          /\ (\A r \in El12 \cup Shared : vcpu.regs[r] = guestv[r])
          /\ \A r \in GuestTimers \cup TimerCtls : vcpu.regs[r] = guestv[r]
      BY Zenon, <1>o, <2>1 DEF GuestOut
    <2> QED
      BY Zenon, <2>1, <2>2 DEF GuestOut
  <1>14. CASE HostPreempts
    <2>1. place' \in EntryPlaces
      BY Zenon, <1>14 DEF HostPreempts, SwitchInv, MaskedOut
    <2> QED
      BY Zenon, <2>1, InwardGuestOut
  <1> QED
    BY ONLY ZenonT(30), WsNext, <1>1, <1>2, <1>3, <1>4, <1>5, <1>6, <1>7, <1>8, <1>9, <1>10,
       <1>11, <1>12, <1>13, <1>14
       DEF WsNext

\* The invariant holds when the thread starts.
LEMMA SwitchInitInv == WsInit => SwitchInv
  <1> USE WorldSwitchAssumption DEF WsInit
  <1>1. WsInit => WsTypeOK
    <2> SUFFICES ASSUME WsInit PROVE WsTypeOK
      BY ZenonT(30)
    <2>1. hostv \in [Kept -> Values]
      <3>1. PICK f \in HostFiles : hostv = f
        BY Zenon
      <3> QED
        BY ZenonT(30), <3>1
    <2>2. hw \in [Registers -> Values]
      BY Zenon, <2>1
    <2>3. /\ saved \in [regs : [El2 \cup HostTimers -> Values], hcr : SUBSET HcrBits,
                        vbar : {"host", "relm"}]
          /\ vcpu \in [regs : [Guest \cup Controls \cup Syndrome -> Values], hcr : SUBSET HcrBits]
      BY ZenonT(30)
    <2>4. Tracked
      BY Zenon DEF Tracked
    <2> HIDE DEF Tracked
    <2> QED
      BY ZenonT(30), <2>1, <2>2, <2>3, <2>4 DEF WsTypeOK
  <1>2. WsInit => HostPlace
    <2> SUFFICES ASSUME WsInit PROVE HostPlace
      BY Zenon
    <2>1. place = "new" /\ hw = [r \in Registers |-> IF r \in Kept THEN hostv[r] ELSE Zero]
      BY Zenon
    <2>2. /\ Kept \subseteq Registers /\ Callee \cup {SpEl0} \subseteq Kept
          /\ TimerCtls \subseteq Registers /\ TimerCtls \cap Kept = {}
      BY Zenon
    <2>3. "new" \notin HostSaved /\ "new" \notin HostFramed
      BY ONLY TRUE DEF HostSaved, HostFramed, EntryPlaces, ExitPlaces
    <2> HIDE DEF Kept, Registers
    <2>4. (\A r \in Kept : hw[r] = hostv[r]) /\ \A r \in TimerCtls : hw[r] = Zero
      BY ONLY Zenon, <2>1, <2>2
    <2> QED
      BY ONLY Zenon, <2>1, <2>2, <2>3, <2>4 DEF HostPlace
  <1>3. WsInit => Routing
    BY Zenon DEF Routing, HostSaved, VectorsIn, GuestHcr
  <1>4. WsInit => GuestIn
    <2>1. /\ "new" \notin (EntryPlaces \ {"save", "stage2"}) \cup {"guest"}
          /\ "new" \notin EntryPlaces \cup {"out", "guest", "code"}
      BY ONLY TRUE DEF EntryPlaces
    <2>2. LoadedAt("new") = {}
      BY ONLY Zenon, <2>1, LoadedFacts
    <2>3. WsInit => place = "new"
      BY Zenon
    <2> QED
      BY ONLY Zenon, <2>1, <2>2, <2>3 DEF GuestIn
  <1>5. WsInit => GuestOut
    <2>1. WsInit => place = "new" /\ trap.kind = "none"
      <3>1. WsInit => place = "new" /\ trap = [kind |-> "none", syn |-> Zero]
        BY Zenon
      <3> HIDE DEF WsInit
      <3> QED
        BY ONLY <3>1
    <2> QED
      BY ONLY ZenonT(30), <2>1 DEF GuestOut
  <1>6. WsInit => MaskedOut
    <2>1. WsInit => place = "new"
      BY Zenon
    <2> HIDE DEF WsInit
    <2> QED
      BY ONLY <2>1 DEF MaskedOut, ExitPlaces
  <1> QED
    BY ONLY ZenonT(30), <1>1, <1>2, <1>3, <1>4, <1>5, <1>6 DEF SwitchInv

\* No step, and no stuttering, ends it.
LEMMA SwitchNextInv == SwitchInv /\ [WsNext]_wsVars => SwitchInv'
  <1>1. CASE SwitchInv /\ WsNext
    BY Zenon, <1>1, TypeStep, HostPlaceStep, RoutingStep, GuestInStep, GuestOutStep,
       MaskedStep DEF SwitchInv
  <1>2. CASE SwitchInv /\ UNCHANGED wsVars
    <2> USE <1>2 DEF wsVars, SwitchInv
    <2> HIDE DEF Kept, Banked, Direct, Guest, Controls, Registers, Kinds, HcrBits, Places
    <2>1. WsTypeOK'
      BY ZenonT(30) DEF WsTypeOK, Tracked
    <2>2. HostPlace' /\ Routing'
      BY ZenonT(30) DEF HostPlace, Routing
    <2>3. GuestIn'
      BY ZenonT(30) DEF GuestIn
    <2>4. GuestOut'
      BY ZenonT(30) DEF GuestOut
    <2>5. MaskedOut'
      BY Zenon DEF MaskedOut
    <2> QED
      BY Zenon, <2>1, <2>2, <2>3, <2>4, <2>5
  <1> QED
    BY Zenon, <1>1, <1>2

\* The inductive invariant holds in every reachable state.
THEOREM SwitchInvariance == WsSpec => []SwitchInv
  BY SwitchInitInv, SwitchNextInv, PTL DEF WsSpec

\* Whatever registers the CPU has, and whatever host, guest and interrupts do
\* between and during the runs, the host gets its registers, HCR_EL2 and
\* vectors back from arm64_vcpu_run: all but the values it wrote itself, in an
\* interruption, between their save and the write of VBAR_EL2.
THEOREM HostSafety == WsSpec => []HostRestored
  <1>1. SwitchInv => HostRestored
    BY Zenon DEF SwitchInv, HostPlace, Routing, HostRestored, VectorsIn, GuestHcr
  <1> QED
    BY <1>1, SwitchInvariance, PTL

\* The guest finds every register as it left it, but for those the host wrote
\* after they were loaded, and arm64_vcpu_run reports the exit that happened,
\* with its syndrome.
THEOREM GuestSafety == WsSpec => []GuestPreserved
  <1> HIDE DEF Guest, Controls
  <1>1. SwitchInv /\ place = "guest" => \A r \in Guest \ spoilt : hw[r] = guestv[r]
    BY Zenon, LoadedFacts DEF SwitchInv, GuestIn
  <1>2. SwitchInv => GuestPreserved
    BY ZenonT(30), <1>1 DEF SwitchInv, GuestOut, GuestPreserved
  <1> QED
    BY <1>2, SwitchInvariance, PTL

\* The guest runs only under its own tables and controls, and the window with
\* the guest's routing lies inside the window with RELM's vectors.
THEOREM Confinement == WsSpec => []GuestConfined
  <1> HIDE DEF Guest, Controls, Registers, Kept, Banked, Direct
  <1>1. SwitchInv /\ place = "guest" => \A r \in Controls \ spoilt : hw[r] = vcpu.regs[r]
    BY Zenon, LoadedFacts DEF SwitchInv, GuestIn
  <1>2. SwitchInv => GuestConfined
    BY Zenon, <1>1 DEF SwitchInv, WsTypeOK, Routing, GuestConfined, VectorsIn, GuestHcr
  <1> QED
    BY <1>2, SwitchInvariance, PTL
=============================================================================
