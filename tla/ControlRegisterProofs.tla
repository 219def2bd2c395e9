----------------------- MODULE ControlRegisterProofs -----------------------
(***************************************************************************)
(* Proofs of VmcsContents, Cr3Cache and GuestMode.  The guest is entered   *)
(* with legal controls on every processor; the CR3-target cache, of any    *)
(* size and with any number of targets, knows what is in the VMCS; and     *)
(* whatever bits FIXED0 and FIXED1 hold, the next VM entry accepts the     *)
(* control registers and the guest reads back what it wrote.               *)
(***************************************************************************)
EXTENDS MCControlRegisters, FiniteSetTheorems, SequenceTheorems,
        WellFoundedInduction, TLAPS

----------------------------------------------------------------------------
(* The controls. *)

\* What relm_apply_exec_controls writes into a word.
Adjusted(w) ==
    vmx_adjust(relm_init_exec_controls(cpu)[w], cpu.allowed0[w], cpu.allowed1[w])

\* The bits added later, by relm_apic_vmcs_setup and for long mode.
Added(w) ==
    CASE w = "secondary" /\ step \in 9 .. 12 ->
           {"VIRTUALIZE_APIC_ACCESSES", "APIC_REGISTER_VIRT"} \cap cpu.allowed1[w]
      [] w = "entry" /\ step \in 11 .. 12 -> {"IA32E_MODE"}
      [] OTHER -> {}

\* A word that has been written holds what was adjusted and what was added.
WordOK(w, k) ==
    step > k => Adjusted(w) \subseteq ctl[w] /\ ctl[w] \subseteq Adjusted(w) \cup Added(w)

WordsOK ==
    /\ WordOK("pin", 1) /\ WordOK("primary", 2) /\ WordOK("secondary", 3)
    /\ WordOK("entry", 4) /\ WordOK("exit", 5)

\* The fields written so far.
WrittenOK ==
    /\ "EPT_POINTER" \in written
    /\ step > 6 /\ _cpu_has_vpid(cpu) => "VPID" \in written
    /\ step > 7 => {"IO_BITMAP", "MSR_BITMAP"} \subseteq written
    /\ step > 8 => {"VIRTUAL_APIC_PAGE_ADDR", "APIC_ACCESS_ADDR", "TPR_THRESHOLD"} \subseteq written
    /\ step > 9 => {"HOST_IA32_EFER", "HOST_IA32_PAT"} \subseteq written
    /\ step > 10 => {"GUEST_IA32_EFER", "GUEST_IA32_PAT"} \subseteq written

VInv ==
    /\ cpu \in Processors /\ step \in 0 .. 12 /\ ctl = [w \in Words |-> ctl[w]]
    /\ WordsOK /\ WrittenOK
    /\ step > 8 => (regVirt <=> "APIC_REGISTER_VIRT" \in ctl["secondary"])

\* The place of each step in vmx_vcpu_init.
LEMMA StepPlaces ==
    /\ At("pin") => step = 1
    /\ At("primary") => step = 2
    /\ At("secondary") => step = 3
    /\ At("entry") => step = 4
    /\ At("exit") => step = 5
    /\ At("VPID") => step = 6
    /\ At("bitmaps") => step = 7
    /\ At("apic") => step = 8
    /\ At("host") => step = 9
    /\ At("longmode") => step = 10
BY DEF At, Order

\* No processor forces a bit of the APIC or VPID on, so an adjusted word has
\* only those relm asked for.
LEMMA AdjustedBits ==
    ASSUME cpu \in Processors
    PROVE  /\ "APIC_REGISTER_VIRT" \notin Adjusted("secondary")
           /\ "VIRTUALIZE_APIC_ACCESSES" \notin Adjusted("secondary")
           /\ "VPID" \in Adjusted("secondary") => _cpu_has_vpid(cpu)
           /\ \A w \in Words : /\ cpu.allowed0[w] \subseteq Adjusted(w)
                               /\ Adjusted(w) \subseteq cpu.allowed1[w]
                               /\ relm_init_exec_controls(cpu)[w] \cap cpu.allowed1[w] \subseteq Adjusted(w)
<1>1. \A w \in Words : cpu.allowed0[w] \subseteq cpu.allowed1[w]
        /\ cpu.allowed0[w] \subseteq {"CR3_LOAD_EXITING", "CR3_STORE_EXITING", "LOAD_DEBUG", "SAVE_DEBUG"}
  BY Zenon, ProcessorsAssumption
<1>2. relm_init_exec_controls(cpu)["secondary"] =
        {"ENABLE_EPT", "RDTSCP", "ENABLE_INVPCID", "UNRESTRICTED_GUEST", "ENABLE_VMFUNC"}
          \cup (IF _cpu_has_vpid(cpu) THEN {"VPID"} ELSE {})
  BY Zenon DEF relm_init_exec_controls, Words
<1>3. "secondary" \in Words
  BY Zenon DEF Words
<1> QED
  BY Zenon, <1>1, <1>2, <1>3 DEF Adjusted, vmx_adjust

\* Before anything is written there is nothing to hold.
LEMMA VInit == VmcsInit => VInv
  BY DEF VmcsInit, VInv, WordsOK, WordOK, WrittenOK

\* The steps that write no control leave the words alone.
LEMMA KeepWords ==
    ASSUME VInv, UNCHANGED <<cpu, ctl>>, step' \in 0 .. 12,
           step' # step => \/ step' = step + 1 /\ step \notin {1, 2, 3, 4, 5, 8, 10}
                           \/ step' = 0
                           \/ {step, step'} \subseteq {11, 12}
    PROVE  WordsOK'
<1>1. \A w : Adjusted(w)' = Adjusted(w)
  BY Zenon DEF Adjusted
<1>2. \A w : step' # 0 => Added(w) \subseteq Added(w)'
  BY DEF VInv, Added
<1> QED
  BY <1>1, <1>2 DEF VInv, WordsOK, WordOK

\* Every step of vmx_vcpu_init, of the guest and of the host keeps it.
LEMMA VStep == VInv /\ [VmcsNext]_vmcsVars => VInv'
<1> SUFFICES ASSUME VInv, [VmcsNext]_vmcsVars PROVE VInv'
  BY Zenon
<1>1. ASSUME NEW w \in Words, ApplyControls(w) PROVE VInv'
  <2>1. w \in {"pin", "primary", "secondary", "entry", "exit"} /\ step \in 1 .. 5 /\ step' = step + 1
    BY <1>1, StepPlaces DEF ApplyControls, Words
  <2>2. ctl'[w] = Adjusted(w) /\ (\A x \in Words \ {w} : ctl'[x] = ctl[x]) /\ cpu' = cpu
        /\ ctl' = [x \in Words |-> ctl'[x]] /\ written' = written
    BY Zenon, <1>1 DEF ApplyControls, VInv, Adjusted
  <2>3. \A x : Adjusted(x)' = Adjusted(x)
    BY Zenon, <2>2 DEF Adjusted
  <2>4. \A x : Added(x) = {} /\ Added(x)' = {}
    BY <2>1 DEF Added
  <2>5. WordsOK'
    BY <1>1, <2>1, <2>2, <2>3, <2>4, StepPlaces DEF VInv, WordsOK, WordOK, ApplyControls, Words
  <2>6. WrittenOK'
    BY <2>1, <2>2 DEF VInv, WrittenOK
  <2> QED
    BY <2>1, <2>2, <2>5, <2>6 DEF VInv
<1>2. CASE WriteVpid \/ WriteBitmaps
  <2>1. UNCHANGED <<cpu, ctl, regVirt>> /\ step \in {6, 7} /\ step' = step + 1
    BY Zenon, <1>2, StepPlaces DEF WriteVpid, WriteBitmaps, Write
  <2>2. WordsOK'
    BY <2>1, KeepWords
  <2>3. WrittenOK'
    BY <1>2, <2>1, StepPlaces DEF VInv, WrittenOK, WriteVpid, WriteBitmaps, Write
  <2> QED
    BY <2>1, <2>2, <2>3 DEF VInv
<1>3. CASE relm_apic_vmcs_setup
  <2> DEFINE new == {"VIRTUALIZE_APIC_ACCESSES", "APIC_REGISTER_VIRT"} \cap cpu.allowed1["secondary"]
  <2>1. step = 8 /\ step' = 9 /\ cpu' = cpu
    BY <1>3, StepPlaces DEF relm_apic_vmcs_setup, Write
  <2>2. \A x : Adjusted(x)' = Adjusted(x)
    BY Zenon, <2>1 DEF Adjusted
  <2>3. (\A x : Added(x) = {}) /\ Added("secondary")' = new
    BY <2>1 DEF Added
  <2>4. ctl["secondary"] = Adjusted("secondary")
    <3>1. Adjusted("secondary") \subseteq ctl["secondary"]
          /\ ctl["secondary"] \subseteq Adjusted("secondary") \cup Added("secondary")
      BY <2>1 DEF VInv, WordsOK, WordOK
    <3>2. Added("secondary") = {}
      BY Zenon, <2>3
    <3> QED
      BY ONLY Zenon, <3>1, <3>2
  <2>5. "APIC_REGISTER_VIRT" \notin ctl["secondary"]
    BY Zenon, <2>4, AdjustedBits DEF VInv
  <2>6. WrittenOK'
    BY <1>3, <2>1 DEF VInv, WrittenOK, relm_apic_vmcs_setup, Write
  <2>7. CASE "VIRTUALIZE_APIC_ACCESSES" \in new
    <3>1. ctl' = [ctl EXCEPT !["secondary"] = @ \cup new] /\ regVirt' = ("APIC_REGISTER_VIRT" \in new)
      BY Zenon, <1>3, <2>7 DEF relm_apic_vmcs_setup
    <3>2. ctl'["secondary"] = ctl["secondary"] \cup new /\ ctl' = [x \in Words |-> ctl'[x]]
          /\ \A x \in Words \ {"secondary"} : ctl'[x] = ctl[x]
      BY Zenon, <3>1 DEF VInv, Words
    <3>3. WordsOK'
      BY <2>1, <2>2, <2>3, <2>4, <3>2 DEF VInv, WordsOK, WordOK, Words
    <3>4. regVirt' <=> "APIC_REGISTER_VIRT" \in ctl'["secondary"]
      BY ONLY Zenon, <2>5, <3>1, <3>2
    <3> QED
      BY <2>1, <2>6, <3>2, <3>3, <3>4 DEF VInv
  <2>8. CASE "VIRTUALIZE_APIC_ACCESSES" \notin new
    <3>1. ctl' = ctl /\ regVirt' = FALSE
      BY Zenon, <1>3, <2>8 DEF relm_apic_vmcs_setup
    <3>2. WordsOK'
      BY <2>1, <2>2, <2>3, <2>4, <3>1 DEF VInv, WordsOK, WordOK
    <3> QED
      BY <2>1, <2>5, <2>6, <3>1, <3>2 DEF VInv
  <2> QED
    BY Zenon, <2>7, <2>8
<1>4. CASE relm_setup_host_state
  <2>1. UNCHANGED <<cpu, ctl, regVirt>> /\ step = 9 /\ step' = 10
    BY <1>4, StepPlaces DEF relm_setup_host_state, Write
  <2>2. WordsOK'
    BY <2>1, KeepWords
  <2>3. WrittenOK'
    BY <1>4, <2>1 DEF VInv, WrittenOK, relm_setup_host_state, Write
  <2> QED
    BY <2>1, <2>2, <2>3 DEF VInv
<1>5. CASE relm_setup_guest_state_longmode
  <2>1. UNCHANGED <<cpu, regVirt>> /\ step = 10 /\ step' = 11
    BY <1>5, StepPlaces DEF relm_setup_guest_state_longmode, Write
  <2>2. ctl'["entry"] = ctl["entry"] \cup {"IA32E_MODE"} /\ ctl' = [x \in Words |-> ctl'[x]]
        /\ \A x \in Words \ {"entry"} : ctl'[x] = ctl[x]
    BY Zenon, <1>5 DEF relm_setup_guest_state_longmode, VInv, Words
  <2>3. \A x : Adjusted(x)' = Adjusted(x)
    BY Zenon, <2>1 DEF Adjusted
  <2>4. Added("entry")' = {"IA32E_MODE"} /\ Added("secondary")' = Added("secondary")
        /\ \A x \in Words \ {"entry"} : Added(x) \subseteq Added(x)'
    BY <2>1 DEF Added, Words
  <2>5. Added("entry") = {}
    BY <2>1 DEF Added
  <2>6. WordsOK'
    BY <2>1, <2>2, <2>3, <2>4, <2>5 DEF VInv, WordsOK, WordOK, Words
  <2>7. WrittenOK'
    BY <1>5, <2>1 DEF VInv, WrittenOK, relm_setup_guest_state_longmode, Write
  <2> QED
    BY <2>1, <2>2, <2>6, <2>7 DEF VInv, Words
<1>6. CASE VmcsFails \/ VmcsEntry \/ VmcsExit \/ UNCHANGED vmcsVars
           \/ \E m \in Mms : Scheduled(m) \/ ProcessEnds(m)
  <2>1. UNCHANGED <<cpu, ctl, written, regVirt>> /\ step' \in 0 .. 12
        /\ (step' = step \/ step' = 0 \/ {step, step'} \subseteq {11, 12})
    BY <1>6 DEF VInv, VmcsFails, VmcsEntry, VmcsExit, Scheduled, ProcessEnds, vmcsVars, Run, Guest, Failed
  <2>2. WordsOK'
    BY Zenon, <2>1, KeepWords
  <2>3. WrittenOK'
    BY <2>1 DEF VInv, WrittenOK
  <2> QED
    BY <2>1, <2>2, <2>3 DEF VInv
<1> QED
  BY Zenon, <1>1, <1>2, <1>3, <1>4, <1>5, <1>6 DEF VmcsNext

\* On every processor the guest is entered with controls it accepts, with all
\* that relm asked for and the processor has, and with every field in use
\* written, except three in which the zeros of the VMCS region are harmless.
THEOREM ControlsSafety == VmcsSpec => []ControlsLegal
<1>1. ASSUME VInv, step \in {11, 12} PROVE
        /\ \A w \in Words : Adjusted(w) \subseteq ctl[w] /\ ctl[w] \subseteq Adjusted(w) \cup Added(w)
        /\ \A w \in Words : Added(w) \subseteq cpu.allowed1[w]
  <2>1. "IA32E_MODE" \in cpu.allowed1["entry"]
    BY Zenon, <1>1, ProcessorsAssumption DEF VInv
  <2>2. \A w \in Words : Added(w) \subseteq cpu.allowed1[w]
    BY Zenon, <1>1, <2>1 DEF Added, Words
  <2> QED
    BY <1>1, <2>2 DEF VInv, WordsOK, WordOK, Words
<1>2. ASSUME VInv PROVE ControlsLegal
  <2> SUFFICES ASSUME step \in {11, 12}
               PROVE  ControlsLegal
    BY Zenon DEF ControlsLegal, Run, Guest
  <2>1. cpu \in Processors /\ WrittenOK /\ (regVirt <=> "APIC_REGISTER_VIRT" \in ctl["secondary"])
    BY <1>2 DEF VInv
  <2>2. \A w \in Words : cpu.allowed0[w] \subseteq ctl[w] /\ ctl[w] \subseteq cpu.allowed1[w]
          /\ relm_init_exec_controls(cpu)[w] \cap cpu.allowed1[w] \subseteq ctl[w]
    BY Zenon, <1>1, <1>2, <2>1, AdjustedBits
  <2>3. \A w \in Words : "VPID" \in ctl[w] => _cpu_has_vpid(cpu)
    <3>1. \A w \in Words : "VPID" \in ctl[w] => "VPID" \in Adjusted(w)
      BY Zenon, <1>1, <1>2 DEF Added
    <3>2. \A w \in Words \ {"secondary"} : "VPID" \notin Adjusted(w)
      BY Zenon, <2>1, ProcessorsAssumption DEF Adjusted, vmx_adjust, relm_init_exec_controls, Words
    <3> QED
      BY Zenon, <2>1, <3>1, <3>2, AdjustedBits
  <2>4. LeftZero \subseteq ZeroMeansNone
    <3> SUFFICES ASSUME NEW f \in LeftZero PROVE f \in ZeroMeansNone
      BY Zenon
    <3>0. f \notin written
      BY Zenon DEF LeftZero
    <3> PICK bit \in UNION {ctl[w] : w \in Words} : f \in Uses(bit)
      BY Zenon DEF LeftZero
    <3> PICK w \in Words : bit \in ctl[w]
      BY Zenon
    <3>1. {"EPT_POINTER", "IO_BITMAP", "MSR_BITMAP", "VIRTUAL_APIC_PAGE_ADDR", "APIC_ACCESS_ADDR",
           "TPR_THRESHOLD", "HOST_IA32_EFER", "HOST_IA32_PAT", "GUEST_IA32_EFER",
           "GUEST_IA32_PAT"} \subseteq written
      BY <2>1 DEF WrittenOK
    <3>2. CASE bit = "VPID"
      <4>1. f = "VPID"
        BY Zenon, <3>2 DEF Uses
      <4>2. _cpu_has_vpid(cpu)
        BY Zenon, <2>1, <2>3, <3>2
      <4> QED
        BY <2>1, <3>0, <4>1, <4>2 DEF WrittenOK
    <3>3. CASE bit # "VPID"
      BY Zenon, <3>0, <3>1, <3>3 DEF Uses, ZeroMeansNone
    <3> QED
      BY Zenon, <3>2, <3>3
  <2>5. "VIRTUAL_NMIS" \in ctl["pin"] => "NMI_EXITING" \in ctl["pin"]
    BY Zenon, <2>1, <2>2, ProcessorsAssumption DEF relm_init_exec_controls, Words
  <2>6. "APIC_REGISTER_VIRT" \in ctl["secondary"] => "TPR_SHADOW" \in ctl["primary"]
    BY Zenon, <2>1, <2>2, ProcessorsAssumption DEF relm_init_exec_controls, Words
  <2>7. "UNRESTRICTED_GUEST" \in ctl["secondary"] => "ENABLE_EPT" \in ctl["secondary"]
    BY Zenon, <2>1, <2>2, ProcessorsAssumption DEF relm_init_exec_controls, Words
  <2> QED
    BY Zenon, <2>1, <2>2, <2>4, <2>5, <2>6, <2>7 DEF ControlsLegal
<1>3. VmcsSpec => []VInv
  BY VInit, VStep, PTL DEF VmcsSpec
<1> QED
  BY <1>2, <1>3, PTL

\* Controls, steps and address spaces keep their types.
THEOREM VmcsTypes == VmcsSpec => []VmcsTypeOK
<1>1. VmcsInit => VmcsTypeOK
  <2> SUFFICES ASSUME VmcsInit PROVE VmcsTypeOK
    BY Zenon
  <2>1. \A w \in Words : ctl[w] = {} /\ cpu.allowed0[w] \subseteq cpu.allowed1[w]
    BY Zenon, ProcessorsAssumption DEF VmcsInit
  <2>2. \A w \in Words : cpu.allowed0[w] \cup ctl[w] \subseteq cpu.allowed1[w]
    BY Zenon, <2>1
  <2>3. regVirt \in BOOLEAN /\ step \in 0 .. 12 /\ hostCr3 \in Mms /\ mm \in Mms /\ live \subseteq Mms
    <3>1. regVirt = FALSE /\ step = 1 /\ hostCr3 = mm /\ mm \in Mms /\ live = Mms
      BY Zenon DEF VmcsInit
    <3>2. step \in 0 .. 12 /\ hostCr3 \in Mms /\ mm \in Mms /\ live \subseteq Mms
      BY <3>1
    <3> QED
      BY <3>1, <3>2, Zenon
  <2> QED
    BY Zenon, <2>2, <2>3 DEF VmcsTypeOK
<1>2. VInv /\ VmcsTypeOK /\ [VmcsNext]_vmcsVars => VmcsTypeOK'
  <2> SUFFICES ASSUME VInv, VmcsTypeOK, [VmcsNext]_vmcsVars PROVE VmcsTypeOK'
    BY Zenon
  <2>t. cpu \in Processors /\ step \in 0 .. 12 /\ ctl = [w \in Words |-> ctl[w]]
    BY Zenon DEF VInv
  <2>1. ASSUME NEW w \in Words, ApplyControls(w) PROVE VmcsTypeOK'
    <3>1. ctl'[w] = Adjusted(w) /\ \A x \in Words \ {w} : ctl'[x] = ctl[x]
      BY Zenon, <2>t, <2>1 DEF ApplyControls, Adjusted
    <3>2. Adjusted(w) \subseteq cpu.allowed1[w]
      BY Zenon, <2>t, AdjustedBits
    <3>3. step \in 1 .. 10 /\ step' = step + 1 /\ UNCHANGED <<cpu, regVirt, hostCr3, mm, live>>
      BY Zenon, <2>1 DEF ApplyControls, At
    <3> QED
      BY <3>1, <3>2, <3>3 DEF VmcsTypeOK
  <2>2. CASE WriteVpid \/ WriteBitmaps \/ relm_setup_host_state
    BY <2>2 DEF WriteVpid, WriteBitmaps, relm_setup_host_state, Write, At, VmcsTypeOK
  <2>3. CASE relm_apic_vmcs_setup
    <3>1. ctl' = ctl \/ ctl' = [ctl EXCEPT !["secondary"] =
             @ \cup ({"VIRTUALIZE_APIC_ACCESSES", "APIC_REGISTER_VIRT"} \cap cpu.allowed1["secondary"])]
      BY Zenon, <2>3 DEF relm_apic_vmcs_setup
    <3>2. \A x \in Words : ctl'[x] \subseteq ctl[x] \cup cpu.allowed1[x]
      BY Zenon, <2>t, <3>1
    <3>3. step \in 1 .. 10 /\ step' = step + 1 /\ UNCHANGED <<cpu, hostCr3, mm, live>>
      BY Zenon, <2>3 DEF relm_apic_vmcs_setup, Write, At
    <3>4. regVirt' \in BOOLEAN
      <4> DEFINE new == {"VIRTUALIZE_APIC_ACCESSES", "APIC_REGISTER_VIRT"} \cap cpu.allowed1["secondary"]
      <4>1. CASE "VIRTUALIZE_APIC_ACCESSES" \in new
        <5>1. regVirt' = ("APIC_REGISTER_VIRT" \in new)
          BY Zenon, <2>3, <4>1 DEF relm_apic_vmcs_setup
        <5> QED
          BY ONLY <5>1
      <4>2. CASE "VIRTUALIZE_APIC_ACCESSES" \notin new
        BY Zenon, <2>3, <4>2 DEF relm_apic_vmcs_setup
      <4> QED
        BY Zenon, <4>1, <4>2
    <3> QED
      BY <3>2, <3>3, <3>4 DEF VmcsTypeOK
  <2>4. CASE relm_setup_guest_state_longmode
    <3>1. "IA32E_MODE" \in cpu.allowed1["entry"]
      BY Zenon, <2>t, ProcessorsAssumption
    <3>2. \A x \in Words : ctl'[x] \subseteq ctl[x] \cup cpu.allowed1[x]
      BY Zenon, <2>t, <2>4, <3>1 DEF relm_setup_guest_state_longmode
    <3>3. step \in 1 .. 10 /\ step' = step + 1 /\ UNCHANGED <<cpu, regVirt, hostCr3, mm, live>>
      BY Zenon, <2>4 DEF relm_setup_guest_state_longmode, Write, At
    <3> QED
      BY <3>2, <3>3 DEF VmcsTypeOK
  <2>5. CASE VmcsFails \/ VmcsEntry \/ VmcsExit \/ UNCHANGED vmcsVars
             \/ \E m \in Mms : Scheduled(m) \/ ProcessEnds(m)
    BY <2>5 DEF VmcsFails, VmcsEntry, VmcsExit, Scheduled, ProcessEnds, vmcsVars, Run, Guest, Failed, VmcsTypeOK
  <2> QED
    BY Zenon, <2>1, <2>2, <2>3, <2>4, <2>5 DEF VmcsNext
<1>3. VmcsSpec => []VInv
  BY VInit, VStep, PTL DEF VmcsSpec
<1> QED
  BY <1>1, <1>2, <1>3, PTL DEF VmcsSpec

----------------------------------------------------------------------------
(* The CR3-target cache. *)

LEMMA CacheConstants ==
    /\ MaxTargets \in Nat /\ CacheSize \in Nat /\ CacheSize > MaxTargets
    /\ MaxHits \in Nat /\ Threshold \in Nat /\ Threshold >= 2
    /\ IsFiniteSet(Slots) /\ Cardinality(Slots) = CacheSize /\ \A k \in Slots : k \in Nat /\ k >= 1
  <1>1. /\ MaxTargets \in Nat /\ CacheSize \in Nat /\ CacheSize > MaxTargets
        /\ MaxHits \in Nat /\ Threshold \in 2 .. MaxHits
    BY Zenon, CacheAssumption
  <1>2. 1 \in Int /\ CacheSize \in Int /\ ~(1 > CacheSize) /\ CacheSize - 1 + 1 = CacheSize
    BY <1>1
  <1>3. IsFiniteSet(Slots) /\ Cardinality(Slots) = CacheSize
    BY Zenon, <1>2, FS_Interval DEF Slots
  <1> QED
    BY <1>1, <1>3 DEF Slots

LEMMA SmallestOfTwo ==
    ASSUME NEW m \in Nat, NEW n \in Nat
    PROVE  Smallest({m, n}) = IF m <= n THEN m ELSE n
  BY DEF Smallest

\* The pass of the policy in which a slot of V is picked, counted from 0.
Place(V, c, order, k) == Cardinality({j \in V : Busier(c, order, j, k)})

\* The slots are strictly ordered, so each place is taken by one of them.
LEMMA Places ==
    ASSUME NEW V, IsFiniteSet(V), NEW c, NEW order,
           \A k \in V : c[k].hits \in Nat /\ order[k] \in Nat,
           \A j, k \in V : order[j] = order[k] => j = k
    PROVE  /\ \A k \in V : Place(V, c, order, k) \in Nat
           /\ \A j, k \in V : Busier(c, order, j, k) => Place(V, c, order, j) < Place(V, c, order, k)
           /\ \A p \in 1 .. Cardinality(V) : \E k \in V : Place(V, c, order, k) = p - 1
  <1> DEFINE before(k) == {j \in V : Busier(c, order, j, k)}
  <1>1. \A k \in V : before(k) \in SUBSET V /\ k \notin before(k)
    BY DEF Busier
  <1>2. \A k \in V : IsFiniteSet(before(k))
    BY Zenon, <1>1, FS_Subset
  <1>3. \A j, k \in V : Busier(c, order, j, k) => before(j) \cup {j} \subseteq before(k)
    BY DEF Busier
  <1>4. \A k \in V : Place(V, c, order, k) = Cardinality(before(k))
    BY Zenon DEF Place
  <1> HIDE DEF before
  <1>5. \A k \in V : Place(V, c, order, k) \in Nat
    BY Zenon, <1>2, <1>4, FS_CardinalityType
  <1>6. ASSUME NEW k \in V, NEW S \in SUBSET V, k \notin before(k), before(k) \cup {k} \subseteq S
        PROVE  Cardinality(before(k)) < Cardinality(S)
    <2>1. IsFiniteSet(S) /\ IsFiniteSet(before(k))
      BY Zenon, <1>2, FS_Subset
    <2>2. Cardinality(before(k) \cup {k}) = Cardinality(before(k)) + 1
      BY Zenon, <1>6, <2>1, FS_AddElement
    <2>3. before(k) \cup {k} \in SUBSET S
      BY Zenon, <1>6
    <2>4. Cardinality(before(k) \cup {k}) <= Cardinality(S)
      BY Zenon, <2>1, <2>3, FS_Subset
    <2>5. Cardinality(before(k)) \in Nat /\ Cardinality(S) \in Nat
      BY Zenon, <2>1, FS_CardinalityType
    <2> QED
      BY <2>2, <2>4, <2>5
  <1>7. \A j, k \in V : Busier(c, order, j, k) => Place(V, c, order, j) < Place(V, c, order, k)
    BY <1>1, <1>3, <1>4, <1>6
  <1>8. \A k \in V : Place(V, c, order, k) < Cardinality(V)
    BY Zenon, <1>1, <1>4, <1>6
  <1>9. ASSUME NEW j \in V, NEW k \in V, Place(V, c, order, j) = Place(V, c, order, k) PROVE j = k
    <2>1. ~Busier(c, order, j, k) /\ ~Busier(c, order, k, j)
      BY <1>5, <1>7, <1>9
    <2> QED
      BY <2>1 DEF Busier
  <1>10. PICK n \in Nat : n = Cardinality(V)
    BY Zenon, FS_CardinalityType
  <1> DEFINE f == [k \in V |-> Place(V, c, order, k) + 1]
  <1>11. f \in Injection(V, 1 .. n)
    <2>1. \A k \in V : Place(V, c, order, k) + 1 \in 1 .. n
      BY <1>5, <1>8, <1>10
    <2>2. f \in [V -> 1 .. n]
      BY Zenon, <2>1
    <2>3. \A j, k \in V : f[j] = f[k] => j = k
      BY <1>5, <1>9
    <2> QED
      BY Zenon, <2>2, <2>3 DEF Injection, IsInjective
  <1>12. IsFiniteSet(1 .. n) /\ Cardinality(1 .. n) = n
    <2>1. 1 \in Int /\ n \in Int /\ (IF 1 > n THEN 0 ELSE n - 1 + 1) = n
      BY <1>10
    <2> QED
      BY Zenon, <2>1, FS_Interval
  <1>13. f \in Surjection(V, 1 .. n)
    BY Zenon, <1>10, <1>11, <1>12, FS_Injection
  <1>14. ASSUME NEW p \in 1 .. n PROVE \E k \in V : Place(V, c, order, k) = p - 1
    <2>1. PICK k \in V : f[k] = p
      BY Zenon, <1>13 DEF Surjection
    <2>2. Place(V, c, order, k) + 1 = p
      BY Zenon, <2>1
    <2> QED
      BY <1>5, <2>2
  <1> QED
    BY Zenon, <1>5, <1>7, <1>10, <1>14

\* What the policy returns.
PolicyOK(new, c, n) ==
    LET chosen == {new[p] : p \in DOMAIN new}
    IN  /\ new \in Seq(Slots) /\ Len(new) \in 0 .. MaxTargets /\ DOMAIN new = 1 .. Len(new)
        /\ chosen \subseteq Valid(c, n) /\ Cardinality(chosen) = Len(new)
        /\ \A k \in Valid(c, n) \ chosen :
              Len(new) = MaxTargets /\ \A j \in chosen : c[j].hits >= c[k].hits

LEMMA PolicySelects ==
    ASSUME NEW c, NEW order, NEW n,
           \A k \in Slots : c[k].hits \in Nat /\ order[k] \in Nat,
           \A j, k \in Valid(c, n) : order[j] = order[k] => j = k
    PROVE  PolicyOK(Selected(c, order, n), c, n)
  <1> DEFINE V == Valid(c, n)
             m == Passes(c, n)
             new == Selected(c, order, n)
             chosen == {new[p] : p \in DOMAIN new}
  <1>1. V \in SUBSET Slots
    BY Zenon DEF Valid
  <1>2. IsFiniteSet(V) /\ Cardinality(V) \in Nat
    BY Zenon, <1>1, CacheConstants, FS_Subset, FS_CardinalityType
  <1>3. m = (IF Cardinality(V) <= MaxTargets THEN Cardinality(V) ELSE MaxTargets)
    BY Zenon, <1>2, CacheConstants, SmallestOfTwo DEF Passes
  <1>4. m \in 0 .. MaxTargets /\ m \in Nat /\ m <= Cardinality(V) /\ (m < Cardinality(V) => m = MaxTargets)
    BY <1>2, <1>3, CacheConstants
  <1>5. /\ \A k \in V : Place(V, c, order, k) \in Nat
        /\ \A j, k \in V : Busier(c, order, j, k) => Place(V, c, order, j) < Place(V, c, order, k)
        /\ \A p \in 1 .. Cardinality(V) : \E k \in V : Place(V, c, order, k) = p - 1
    <2> HIDE DEF V
    <2>1. \A k \in V : c[k].hits \in Nat /\ order[k] \in Nat
      BY Zenon, <1>1
    <2>2. \A j, k \in V : order[j] = order[k] => j = k
      BY Zenon DEF V
    <2> QED
      BY <1>2, <2>1, <2>2, Places
  <1>6. new = [p \in 1 .. m |-> CHOOSE k \in V : Place(V, c, order, k) = p - 1]
    BY Zenon DEF Selected, Place
  <1>7. \A k \in V : c[k].hits \in Nat /\ order[k] \in Nat
    BY Zenon, <1>1
  <1>8. \A j, k \in V : order[j] = order[k] => j = k
    BY Zenon
  <1> HIDE DEF V, m, new
  <1>9. \A p \in 1 .. m : new[p] \in V /\ Place(V, c, order, new[p]) = p - 1
    <2> SUFFICES ASSUME NEW p \in 1 .. m PROVE new[p] \in V /\ Place(V, c, order, new[p]) = p - 1
      BY Zenon
    <2>1. p \in 1 .. Cardinality(V)
      BY <1>2, <1>4
    <2>2. \E k \in V : Place(V, c, order, k) = p - 1
      BY Zenon, <1>5, <2>1
    <2>3. new[p] = CHOOSE k \in V : Place(V, c, order, k) = p - 1
      BY Zenon, <1>6
    <2> QED
      BY Zenon, <2>2, <2>3
  <1>10. new \in [1 .. m -> Slots] /\ DOMAIN new = 1 .. m
    BY Zenon, <1>1, <1>6, <1>9
  <1>11. new \in Seq(Slots)
    BY Zenon, <1>4, <1>10, SeqDef
  <1>12. Len(new) = m
    <2>1. Len(new) \in Nat /\ 1 .. Len(new) = 1 .. m
      BY Zenon, <1>10, <1>11, LenProperties
    <2>2. Len(new) \in 1 .. Len(new) \/ Len(new) = 0
      BY <2>1
    <2>3. m \in 1 .. m \/ m = 0
      BY <1>4
    <2> QED
      BY <1>4, <2>1, <2>2, <2>3
  <1>13. Cardinality(chosen) = m
    <2>1. new \in Surjection(1 .. m, chosen)
      BY Zenon, <1>10 DEF Surjection
    <2>2. \A p, q \in 1 .. m : new[p] = new[q] => p = q
      BY <1>4, <1>9
    <2>3. new \in Injection(1 .. m, chosen)
      BY Zenon, <1>10, <2>2 DEF Injection, IsInjective
    <2>4. IsFiniteSet(1 .. m) /\ Cardinality(1 .. m) = m
      <3>1. 1 \in Int /\ m \in Int /\ (IF 1 > m THEN 0 ELSE m - 1 + 1) = m
        BY <1>4
      <3> QED
        BY Zenon, <3>1, FS_Interval
    <2> HIDE DEF chosen
    <2> QED
      BY Zenon, <2>1, <2>3, <2>4, FS_Surjection
  <1>14. ASSUME NEW k \in V \ chosen PROVE m = MaxTargets /\ \A j \in chosen : c[j].hits >= c[k].hits
    <2>1. Place(V, c, order, k) >= m
      <3> SUFFICES ASSUME Place(V, c, order, k) < m PROVE FALSE
        BY <1>4, <1>5
      <3>1. PICK p \in 1 .. m : p - 1 = Place(V, c, order, k)
        <4>1. Place(V, c, order, k) + 1 \in 1 .. m /\ (Place(V, c, order, k) + 1) - 1 = Place(V, c, order, k)
          BY <1>4, <1>5
        <4> QED
          BY Zenon, <4>1
      <3>2. new[p] \in V /\ Place(V, c, order, new[p]) = Place(V, c, order, k)
        BY Zenon, <1>9, <3>1
      <3>3. ~Busier(c, order, new[p], k) /\ ~Busier(c, order, k, new[p])
        BY <1>5, <3>2
      <3>4. new[p] = k
        BY <1>7, <1>8, <3>2, <3>3 DEF Busier
      <3> QED
        BY Zenon, <1>10, <3>4
    <2>2. m = MaxTargets
      <3>1. Place(V, c, order, k) < Cardinality(V)
        <4>1. {j \in V : Busier(c, order, j, k)} \in SUBSET (V \ {k})
          BY <1>7 DEF Busier
        <4>2. IsFiniteSet(V \ {k}) /\ Cardinality(V \ {k}) = Cardinality(V) - 1
          BY Zenon, <1>2, FS_RemoveElement
        <4>3. Place(V, c, order, k) <= Cardinality(V \ {k})
          BY Zenon, <4>1, <4>2, FS_Subset DEF Place
        <4> QED
          BY <1>2, <1>5, <4>2, <4>3
      <3> QED
        BY <1>2, <1>4, <1>5, <2>1, <3>1
    <2>3. ASSUME NEW j \in chosen PROVE c[j].hits >= c[k].hits
      <3>1. PICK p \in 1 .. m : j = new[p]
        BY Zenon, <1>10
      <3>2. j \in V /\ Place(V, c, order, j) < m
        BY <1>4, <1>9, <3>1
      <3>3. ~Busier(c, order, k, j)
        BY <1>4, <1>5, <2>1, <3>2
      <3> QED
        BY <1>7, <3>2, <3>3 DEF Busier
    <2> QED
      BY Zenon, <2>2, <2>3
  <1>15. chosen \subseteq V
    BY Zenon, <1>9, <1>10
  <1> QED
    BY Zenon, <1>4, <1>10, <1>11, <1>12, <1>13, <1>14, <1>15 DEF PolicyOK, V, new

Used == {k \in Slots : seen[k] # 0}
Promoted(c) == {k \in Slots : c[k].promoted}

\* The used slots are ordered by when they were seen.
SeenOrder ==
    /\ \A k \in Slots : cand[k].value # 0 => seen[k] # 0
    /\ \A k \in Slots : seen[k] <= Cardinality(Used)
    /\ \A j, k \in Used : seen[j] = seen[k] => j = k

\* The promoted slots are in use, and counted.
PromotedCounted ==
    npromoted = Cardinality(Promoted(cand)) /\ \A k \in Promoted(cand) : cand[k].value # 0

CacheInv == CacheTypeOK /\ SeenOrder /\ PromotedCounted /\ CacheConsistent

Candidates == [Slots -> [value : Values, hits : 0 .. MaxHits, promoted : BOOLEAN]]

LEMMA UsedFacts ==
    IsFiniteSet(Used) /\ Cardinality(Used) \in 0 .. CacheSize
  <1>1. Used \in SUBSET Slots
    BY Zenon DEF Used
  <1>2. IsFiniteSet(Used) /\ Cardinality(Used) <= CacheSize
    BY Zenon, <1>1, CacheConstants, FS_Subset
  <1>3. Cardinality(Used) \in Nat
    BY Zenon, <1>2, FS_CardinalityType
  <1> QED
    BY <1>2, <1>3, CacheConstants

\* Touching a slot keeps the order.
LEMMA TouchKeepsOrder ==
    ASSUME CacheTypeOK, SeenOrder, NEW k \in Slots, seen' = Touch(k)
    PROVE  /\ seen' \in [Slots -> 0 .. CacheSize] /\ seen'[k] # 0
           /\ \A j \in Slots : seen[j] # 0 => seen'[j] # 0
           /\ \A j \in Slots : seen'[j] <= Cardinality(Used')
           /\ \A j, l \in Used' : seen'[j] = seen'[l] => j = l
  <1>1. seen \in [Slots -> 0 .. CacheSize] /\ CacheSize \in Nat
    BY Zenon, CacheConstants DEF CacheTypeOK
  <1> DEFINE n == Cardinality(Used \cup {k})
             u == Cardinality(Used)
  <1>2. u \in Nat /\ n = IF seen[k] = 0 THEN u + 1 ELSE u
    <2>1. u \in Nat
      BY UsedFacts
    <2>2. n = IF k \in Used THEN u ELSE u + 1
      BY Zenon, UsedFacts, FS_AddElement
    <2>3. k \in Used <=> seen[k] # 0
      BY Zenon DEF Used
    <2> QED
      BY Zenon, <2>1, <2>2, <2>3
  <1>3. n \in Nat /\ n <= CacheSize
    <2>1. Used \cup {k} \in SUBSET Slots
      BY Zenon DEF Used
    <2>2. Cardinality(Used \cup {k}) <= CacheSize /\ IsFiniteSet(Used \cup {k})
      BY Zenon, <2>1, CacheConstants, FS_Subset
    <2> QED
      BY Zenon, <2>2, FS_CardinalityType
  <1>4. \A j \in Slots : seen'[j] = IF j = k THEN n
                                  ELSE IF seen[k] # 0 /\ seen[j] > seen[k] THEN seen[j] - 1 ELSE seen[j]
    BY Zenon DEF Touch, Used
  <1>5. \A j \in Slots : seen[j] \in Nat /\ seen[j] <= u
    BY <1>1 DEF SeenOrder
  <1> HIDE DEF n, u
  <1>6. n # 0
    BY <1>2, <1>5
  <1>7. \A j \in Slots \ {k} : seen[j] = seen[k] => seen[j] = 0
    BY Zenon DEF SeenOrder, Used
  <1>8. \A j \in Slots \ {k} :
           seen'[j] \in Nat /\ seen'[j] < n /\ (seen[j] # 0 <=> seen'[j] # 0)
    <2> SUFFICES ASSUME NEW j \in Slots \ {k}
                 PROVE  seen'[j] \in Nat /\ seen'[j] < n /\ (seen[j] # 0 <=> seen'[j] # 0)
      BY Zenon
    <2>1. seen[j] \in Nat /\ seen[k] \in Nat /\ seen[j] <= u /\ seen[k] <= u
      BY Zenon, <1>5
    <2>2. seen'[j] = IF seen[k] # 0 /\ seen[j] > seen[k] THEN seen[j] - 1 ELSE seen[j]
      BY Zenon, <1>4
    <2> QED
      BY <1>2, <1>3, <1>6, <1>7, <2>1, <2>2
  <1>16. seen'[k] # 0
    BY Zenon, <1>4, <1>6
  <1>17. \A j \in Slots : j # k => (seen[j] # 0 <=> seen'[j] # 0)
    BY Zenon, <1>8
  <1>9. Used' = Used \cup {k}
    <2>1. \A j : (j \in Used' <=> j \in Slots /\ seen'[j] # 0) /\ (j \in Used <=> j \in Slots /\ seen[j] # 0)
      BY Zenon DEF Used
    <2> QED
      BY Zenon, <1>16, <1>17, <2>1
  <1>10. seen' \in [Slots -> 0 .. CacheSize]
    <2>1. \A j \in Slots : seen'[j] \in 0 .. CacheSize
      BY <1>1, <1>3, <1>4, <1>8
    <2> QED
      BY Zenon, <2>1 DEF Touch
  <1>11. ASSUME NEW j \in Slots \ {k}, NEW l \in Slots \ {k}, seen'[j] = seen'[l], seen'[j] # 0
         PROVE  j = l
    <2>1. seen[j] \in Nat /\ seen[k] \in Nat /\ seen[l] \in Nat
      BY Zenon, <1>5
    <2>2. seen'[j] = IF seen[k] # 0 /\ seen[j] > seen[k] THEN seen[j] - 1 ELSE seen[j]
      BY Zenon, <1>4
    <2>3. seen'[l] = IF seen[k] # 0 /\ seen[l] > seen[k] THEN seen[l] - 1 ELSE seen[l]
      BY Zenon, <1>4
    <2>4. seen[j] # 0 /\ seen[l] # 0 /\ seen[j] # seen[k] /\ seen[l] # seen[k]
      BY Zenon, <1>7, <1>8, <1>11
    <2>5. seen[j] = seen[l]
      <3> DEFINE a == seen[j]
                 b == seen[l]
                 d == seen[k]
      <3>1. a \in Nat /\ b \in Nat /\ d \in Nat /\ a # d /\ b # d
        BY Zenon, <2>1, <2>4
      <3>2. (IF d # 0 /\ a > d THEN a - 1 ELSE a) = (IF d # 0 /\ b > d THEN b - 1 ELSE b)
        BY Zenon, <1>11, <2>2, <2>3
      <3> HIDE DEF a, b, d
      <3>3. a = b
        BY <3>1, <3>2
      <3> QED
        BY Zenon, <3>3 DEF a, b
    <2> QED
      BY Zenon, <2>4, <2>5 DEF SeenOrder, Used
  <1>12. \A j, l \in Used' : seen'[j] = seen'[l] => j = l
    <2> SUFFICES ASSUME NEW j \in Used', NEW l \in Used', seen'[j] = seen'[l] PROVE j = l
      BY Zenon
    <2>1. j \in Slots /\ l \in Slots /\ seen'[j] # 0
      BY Zenon DEF Used
    <2>2. CASE j = k \/ l = k
      BY <1>3, <1>4, <1>8, <2>1, <2>2
    <2>3. CASE j # k /\ l # k
      BY Zenon, <1>11, <2>1, <2>3
    <2> QED
      BY Zenon, <2>2, <2>3
  <1>13. \A j \in Slots : seen'[j] <= n
    BY <1>3, <1>4, <1>8
  <1>14. n = Cardinality(Used')
    BY Zenon, <1>9 DEF n
  <1>15. seen'[k] # 0 /\ \A j \in Slots : seen[j] # 0 => seen'[j] # 0
    BY Zenon, <1>16, <1>17
  <1> QED
    BY Zenon, <1>10, <1>12, <1>13, <1>14, <1>15

\* The next state of the candidates: the slots and hits of c, promoted by s.
Marks(c, s) ==
    /\ cand' \in Candidates
    /\ \A k \in Slots : cand'[k].value = c[k].value /\ cand'[k].hits = c[k].hits
    /\ \A k \in Slots : cand'[k].promoted <=> k \in s

LEMMA PromoteMarks ==
    ASSUME NEW c \in Candidates, NEW s, cand' = Promote(c, s)
    PROVE  Marks(c, s)
  <1>1. cand' \in [Slots -> [value : Values, hits : 0 .. MaxHits, promoted : BOOLEAN]]
    <2>1. ASSUME NEW k \in Slots
          PROVE  [c[k] EXCEPT !.promoted = k \in s] \in [value : Values, hits : 0 .. MaxHits, promoted : BOOLEAN]
      <3>1. c[k] \in [value : Values, hits : 0 .. MaxHits, promoted : BOOLEAN] /\ (k \in s) \in BOOLEAN
        BY DEF Candidates
      <3> QED
        BY Zenon, <3>1
    <2> QED
      BY Zenon, <2>1 DEF Promote
  <1>2. ASSUME NEW k \in Slots
        PROVE  /\ cand'[k].value = c[k].value /\ cand'[k].hits = c[k].hits
               /\ cand'[k].promoted <=> k \in s
    BY Zenon DEF Promote, Candidates
  <1> QED
    BY Zenon, <1>1, <1>2 DEF Marks, Candidates

\* When the promoted slots are those the policy chose, a busy address space
\* without a target has only busier ones before it.
LEMMA PolicyTargetsHot ==
    ASSUME NEW c \in Candidates, NEW new, PolicyOK(new, c, ncand), TableDense,
           \A k \in Slots : c[k].value = cand[k].value,
           Marks(c, {new[p] : p \in DOMAIN new}), count' = Len(new)
    PROVE  HotIsTargeted'
  <1> DEFINE chosen == {new[p] : p \in DOMAIN new}
  <1>1. /\ chosen \subseteq Slots
        /\ \A k \in Valid(c, ncand) \ chosen :
              Len(new) = MaxTargets /\ \A j \in chosen : c[j].hits >= c[k].hits
    BY Zenon DEF PolicyOK, Valid
  <1>2. /\ \A k \in Slots : cand'[k].value = c[k].value /\ cand'[k].hits = c[k].hits
        /\ \A k \in Slots : cand'[k].promoted <=> k \in chosen
    BY Zenon DEF Marks
  <1> HIDE DEF chosen
  <1>3. ASSUME NEW k \in Slots, cand'[k].value # 0, cand'[k].hits >= Threshold, ~cand'[k].promoted
        PROVE  count' = MaxTargets /\ \A j \in Slots : cand'[j].promoted => cand'[j].hits >= cand'[k].hits
    <2>1. c[k].hits \in Nat /\ c[k].hits # 0
      BY <1>2, <1>3, CacheConstants DEF Candidates
    <2>2. k <= ncand
      BY Zenon, <1>2, <1>3 DEF TableDense
    <2>3. k \in Valid(c, ncand) \ chosen
      BY Zenon, <1>2, <1>3, <2>1, <2>2 DEF Valid
    <2> QED
      BY Zenon, <1>1, <1>2, <2>3
  <1> QED
    BY Zenon, <1>3 DEF HotIsTargeted

LEMMA ApplyStep ==
    ASSUME CacheInv, seen' \in [Slots -> 0 .. CacheSize],
           \A j, k \in Used' : seen'[j] = seen'[k] => j = k, NEW c \in Candidates,
           \A k \in Slots : c[k].value = cand[k].value /\ c[k].promoted = cand[k].promoted,
           \A k \in Slots : c[k].value # 0 => seen'[k] # 0,
           relm_cr3_cache_apply(c, seen', ncand)
    PROVE  /\ \E s : Marks(c, s)
           /\ npromoted' \in 0 .. MaxTargets /\ count' \in 0 .. MaxTargets
           /\ targets' \in [1 .. MaxTargets -> Values] /\ failed' \in BOOLEAN
           /\ PromotedAreTargets' /\ PromotedCounted' /\ HotIsTargeted'
  <1>1. PICK new : new = Selected(c, seen', ncand)
    BY Zenon
  <1>2. PolicyOK(new, c, ncand)
    <2>1. PICK order : order = seen'
      BY Zenon
    <2>2. \A k \in Slots : c[k].hits \in Nat /\ order[k] \in Nat
      BY <2>1, CacheConstants DEF Candidates
    <2>3. \A j, k \in Valid(c, ncand) : order[j] = order[k] => j = k
      <3>1. \A k \in Valid(c, ncand) : k \in Used'
        BY Zenon DEF Valid, Used
      <3> QED
        BY Zenon, <2>1, <3>1
    <2> QED
      BY Zenon, <1>1, <2>1, <2>2, <2>3, PolicySelects
  <1> DEFINE chosen == {new[p] : p \in DOMAIN new}
             same == Len(new) = npromoted /\ \A k \in chosen : c[k].promoted
             tuple(m) == [k \in 1 .. MaxTargets |-> IF k <= m THEN c[new[k]].value ELSE targets[k]]
  <1>3. /\ Len(new) \in 0 .. MaxTargets /\ DOMAIN new = 1 .. Len(new) /\ \A p \in 1 .. Len(new) : new[p] \in Slots
        /\ chosen \subseteq Slots /\ Cardinality(chosen) = Len(new)
        /\ \A k \in chosen : c[k].value # 0
    BY Zenon, <1>2 DEF PolicyOK, Valid
  <1>4. /\ npromoted \in 0 .. MaxTargets /\ count \in 0 .. MaxTargets
        /\ targets \in [1 .. MaxTargets -> Values] /\ failed \in BOOLEAN
    BY Zenon DEF CacheInv, CacheTypeOK
  <1>5. \A m \in 0 .. Len(new) : tuple(m) \in [1 .. MaxTargets -> Values]
    <2> SUFFICES ASSUME NEW m \in 0 .. Len(new), NEW k \in 1 .. MaxTargets
                 PROVE  (IF k <= m THEN c[new[k]].value ELSE targets[k]) \in Values
      BY Zenon
    <2>1. k <= m => k \in 1 .. Len(new)
      BY <1>3, CacheConstants
    <2>2. k <= m => c[new[k]].value \in Values
      BY Zenon, <1>3, <2>1 DEF Candidates
    <2> QED
      BY Zenon, <1>4, <2>2
  <1>6. \/ same /\ cand' = c /\ UNCHANGED <<targets, count, npromoted, failed>>
        \/ /\ ~same
           /\ cand' = Promote(c, chosen) /\ targets' = tuple(Len(new))
           /\ count' = Len(new) /\ npromoted' = Len(new)
           /\ UNCHANGED failed
        \/ /\ ~same /\ failed' = TRUE
           /\ cand' = Promote(c, {})
           /\ \E m \in 0 .. Len(new) : targets' = tuple(m)
           /\ count' = 0 /\ npromoted' = 0
    BY ONLY <1>1, relm_cr3_cache_apply(c, seen', ncand) DEF relm_cr3_cache_apply
  <1>7. TableDense /\ PromotedAreTargets /\ PromotedCounted
    BY Zenon DEF CacheInv, CacheConsistent
  <1>8. CASE same /\ cand' = c /\ UNCHANGED <<targets, count, npromoted, failed>>
    <2>1. chosen = Promoted(c)
      <3>1. Promoted(c) = Promoted(cand) /\ Promoted(c) \in SUBSET Slots /\ chosen \in SUBSET Promoted(c)
        BY Zenon, <1>3, <1>8 DEF Promoted
      <3>2. IsFiniteSet(Promoted(c))
        BY Zenon, <3>1, CacheConstants, FS_Subset
      <3>3. Cardinality(chosen) = Cardinality(Promoted(c))
        BY Zenon, <1>3, <1>7, <1>8, <3>1 DEF PromotedCounted
      <3> HIDE DEF chosen
      <3> QED
        BY Zenon, <3>1, <3>2, <3>3, FS_Subset
    <2>2. \A k \in Slots : c[k].promoted \in BOOLEAN
      BY Zenon DEF Candidates
    <2>3. \A k \in Slots : c[k].promoted <=> k \in Promoted(c)
      BY Zenon, <2>2 DEF Promoted
    <2>4. Marks(c, chosen)
      BY Zenon, <1>8, <2>1, <2>3 DEF Marks
    <2>5. count = npromoted /\ count' = Len(new)
      BY Zenon, <1>7, <1>8 DEF PromotedAreTargets
    <2>6. HotIsTargeted'
      BY Zenon, <1>2, <1>7, <2>4, <2>5, PolicyTargetsHot
    <2>7. Promoted(cand)' = Promoted(cand)
      BY Zenon, <1>8, <2>1, <2>3 DEF Promoted
    <2>8. PromotedCounted'
      BY Zenon, <1>7, <1>8, <2>7 DEF PromotedCounted, Promoted
    <2>9. PromotedAreTargets'
      <3>1. Promoted(cand)' = {j \in Slots : cand'[j].promoted} /\ Promoted(cand) = {j \in Slots : cand[j].promoted}
        BY Zenon DEF Promoted
      <3>2. \A k \in Slots : cand'[k].value = cand[k].value
        BY Zenon, <1>8
      <3>3. Promoted(cand) \subseteq Slots
        BY Zenon DEF Promoted
      <3>4. {cand'[k].value : k \in Promoted(cand)} = {cand[k].value : k \in Promoted(cand)}
        BY <3>2, <3>3
      <3> QED
        BY ZenonT(30), <1>7, <1>8, <2>7, <3>1, <3>4 DEF PromotedAreTargets
    <2> QED
      BY Zenon, <1>4, <1>8, <2>4, <2>6, <2>8, <2>9
  <1>9. CASE /\ ~same
             /\ cand' = Promote(c, chosen) /\ targets' = tuple(Len(new))
             /\ count' = Len(new) /\ npromoted' = Len(new)
             /\ UNCHANGED failed
    <2>1. Marks(c, chosen)
      BY Zenon, <1>9, PromoteMarks
    <2>2. HotIsTargeted'
      BY Zenon, <1>2, <1>7, <1>9, <2>1, PolicyTargetsHot
    <2>3. Promoted(cand)' = chosen
      BY Zenon, <1>3, <2>1 DEF Promoted, Marks
    <2>4. PromotedCounted'
      <3>1. npromoted' = Cardinality(Promoted(cand)')
        BY Zenon, <1>3, <1>9, <2>3
      <3>2. \A k \in chosen : cand'[k].value # 0
        BY Zenon, <1>3, <2>1 DEF Marks
      <3> QED
        BY Zenon, <2>3, <3>1, <3>2 DEF PromotedCounted
    <2>5. ASSUME NEW p \in 1 .. Len(new)
          PROVE  targets'[p] = c[new[p]].value
      <3>1. p \in 1 .. MaxTargets /\ p <= Len(new)
        BY <1>3, CacheConstants
      <3> QED
        BY Zenon, <1>9, <3>1
    <2>6. {cand'[k].value : k \in chosen} = {targets'[p] : p \in 1 .. Len(new)}
      <3>1. \A k \in chosen : cand'[k].value = c[k].value
        BY Zenon, <1>3, <2>1 DEF Marks
      <3>2. \A k \in chosen : \E p \in 1 .. Len(new) : k = new[p]
        BY Zenon, <1>3
      <3>3. \A p \in 1 .. Len(new) : new[p] \in chosen
        BY Zenon, <1>3
      <3> HIDE DEF chosen
      <3> QED
        BY <2>5, <3>1, <3>2, <3>3
    <2>7. PromotedAreTargets'
      <3>1. {j \in Slots : cand'[j].promoted} = chosen
        BY Zenon, <2>3 DEF Promoted
      <3> QED
        BY Zenon, <1>9, <2>6, <3>1 DEF PromotedAreTargets
    <2>8. targets' \in [1 .. MaxTargets -> Values]
      <3>1. Len(new) \in 0 .. Len(new)
        BY <1>3
      <3> QED
        BY Zenon, <1>5, <1>9, <3>1
    <2> QED
      BY Zenon, <1>3, <1>4, <1>9, <2>1, <2>2, <2>4, <2>7, <2>8
  <1>10. CASE /\ ~same /\ failed' = TRUE
              /\ cand' = Promote(c, {})
              /\ \E m \in 0 .. Len(new) : targets' = tuple(m)
              /\ count' = 0 /\ npromoted' = 0
    <2>1. Marks(c, {})
      BY Zenon, <1>10, PromoteMarks
    <2>2. Promoted(cand)' = {}
      BY Zenon, <2>1 DEF Promoted, Marks
    <2>3. PromotedCounted'
      BY Zenon, <1>10, <2>2, FS_EmptySet DEF PromotedCounted
    <2>4. PromotedAreTargets'
      <3>1. {j \in Slots : cand'[j].promoted} = {} /\ 1 .. 0 = {}
        BY <2>2 DEF Promoted
      <3> QED
        BY Zenon, <1>10, <3>1 DEF PromotedAreTargets
    <2>5. HotIsTargeted'
      BY Zenon, <1>10 DEF HotIsTargeted
    <2>6. targets' \in [1 .. MaxTargets -> Values]
      BY Zenon, <1>5, <1>10
    <2>7. 0 \in 0 .. MaxTargets
      BY CacheConstants
    <2> QED
      BY Zenon, <1>10, <2>1, <2>3, <2>4, <2>5, <2>6, <2>7
  <1> QED
    BY Zenon, <1>6, <1>8, <1>9, <1>10

LEMMA LeastNatural ==
    ASSUME NEW T \in SUBSET Nat, T # {}
    PROVE  \E m \in T : \A n \in T : m <= n
  <1>1. PICK m \in T : \A n \in T : ~ (<<n, m>> \in OpToRel(<, Nat))
    BY Zenon, NatLessThanWellFounded, WFMin
  <1>2. \A n \in T : ~ (n < m)
    BY Zenon, <1>1 DEF OpToRel
  <1> QED
    BY <1>2

LEMMA SmallestIn ==
    ASSUME NEW T \in SUBSET Slots, T # {}
    PROVE  Smallest(T) \in T /\ \A y \in T : Smallest(T) <= y
  <1>1. T \in SUBSET Nat
    BY Zenon, CacheConstants
  <1>2. \E m \in T : \A n \in T : m <= n
    BY Zenon, <1>1, LeastNatural
  <1> QED
    BY Zenon, <1>2 DEF Smallest

\* A slot that is filled or counted leaves the marks of the others alone.
LEMMA SameMarks ==
    ASSUME CacheInv, NEW k \in Slots, ~cand[k].promoted, cand' \in Candidates, ~cand'[k].promoted,
           \A j \in Slots : j # k => cand'[j] = cand[j],
           cand'[k].hits >= Threshold => cand'[k].value = 0,
           UNCHANGED <<npromoted, targets, count, failed>>
    PROVE  PromotedAreTargets' /\ PromotedCounted' /\ HotIsTargeted'
  <1>1. Promoted(cand)' = Promoted(cand)
    BY Zenon DEF Promoted
  <1>2. \A j \in Promoted(cand) : j \in Slots /\ cand'[j] = cand[j]
    BY Zenon DEF Promoted
  <1>3. PromotedCounted'
    BY Zenon, <1>1, <1>2 DEF PromotedCounted, CacheInv
  <1>4. PromotedAreTargets'
    <2>1. Promoted(cand)' = {j \in Slots : cand'[j].promoted} /\ Promoted(cand) = {j \in Slots : cand[j].promoted}
      BY Zenon DEF Promoted
    <2>2. {cand'[j].value : j \in Promoted(cand)} = {cand[j].value : j \in Promoted(cand)}
      BY Zenon, <1>2
    <2>3. PromotedAreTargets /\ npromoted' = npromoted /\ targets' = targets /\ count' = count
      BY Zenon DEF CacheInv, CacheConsistent
    <2>4. {cand'[j].value : j \in Promoted(cand)'} = {cand[j].value : j \in Promoted(cand)}
      BY Zenon, <1>1, <2>2
    <2>5. {cand[j].value : j \in Promoted(cand)} = {targets[j] : j \in 1 .. count} /\ npromoted = count
      BY Zenon, <2>1, <2>3 DEF PromotedAreTargets
    <2>6. {cand'[j].value : j \in Promoted(cand)'} = {targets'[j] : j \in 1 .. count'} /\ npromoted' = count'
      <3>1. {targets'[j] : j \in 1 .. count'} = {targets[j] : j \in 1 .. count}
        BY Zenon, <2>3
      <3> QED
        BY <2>3, <2>4, <2>5, <3>1, Zenon
    <2> QED
      BY <2>1, <2>6, Zenon DEF PromotedAreTargets
  <1>5. HotIsTargeted'
    <2>1. HotIsTargeted
      BY Zenon DEF CacheInv, CacheConsistent
    <2> QED
      BY Zenon, <2>1 DEF HotIsTargeted
  <1> QED
    BY Zenon, <1>3, <1>4, <1>5

LEMMA HitStep ==
    ASSUME CacheInv, NEW k \in Slots, cand[k].value # 0, ~InTargets(cand[k].value), Hit(k)
    PROVE  CacheInv'
  <1> DEFINE c == [cand EXCEPT ![k].hits = @ + 1]
  <1>1. /\ cand \in Candidates /\ ncand \in 0 .. CacheSize /\ dropped \in BOOLEAN
        /\ npromoted \in 0 .. MaxTargets /\ count \in 0 .. MaxTargets
        /\ targets \in [1 .. MaxTargets -> Values] /\ failed \in BOOLEAN
    BY Zenon DEF CacheInv, CacheTypeOK, Candidates
  <1>2. cand[k].hits < MaxHits /\ seen' = Touch(k) /\ UNCHANGED <<ncand, dropped>>
    BY Zenon DEF Hit
  <1>3. c \in Candidates
    <2>1. cand[k].hits + 1 \in 0 .. MaxHits
      BY <1>1, <1>2, CacheConstants DEF Candidates
    <2> QED
      BY Zenon, <1>1, <2>1 DEF Candidates
  <1>4. /\ \A j \in Slots : c[j].value = cand[j].value /\ c[j].promoted = cand[j].promoted
        /\ \A j \in Slots : j # k => c[j] = cand[j]
        /\ c[k].hits = cand[k].hits + 1
    BY Zenon, <1>1 DEF Candidates
  <1>5. ~cand[k].promoted
    <2>1. PromotedAreTargets
      BY Zenon DEF CacheInv, CacheConsistent
    <2> QED
      BY Zenon, <2>1 DEF PromotedAreTargets, InTargets
  <1>6. IF c[k].hits >= Threshold /\ ~c[k].promoted
        THEN relm_cr3_cache_apply(c, seen', ncand)
        ELSE cand' = c /\ UNCHANGED <<npromoted, targets, count, failed>>
    BY Zenon DEF Hit
  <1> HIDE DEF c
  <1>7. CacheTypeOK /\ SeenOrder
    BY Zenon DEF CacheInv
  <1>8. /\ seen' \in [Slots -> 0 .. CacheSize] /\ seen'[k] # 0
        /\ \A j \in Slots : seen[j] # 0 => seen'[j] # 0
        /\ \A j \in Slots : seen'[j] <= Cardinality(Used')
        /\ \A j, l \in Used' : seen'[j] = seen'[l] => j = l
    BY Zenon, <1>2, <1>7, TouchKeepsOrder
  <1>9. \A j \in Slots : cand[j].value # 0 => seen'[j] # 0
    BY Zenon, <1>7, <1>8 DEF SeenOrder
  <1>10. /\ cand' \in Candidates /\ \A j \in Slots : cand'[j].value = cand[j].value
         /\ npromoted' \in 0 .. MaxTargets /\ count' \in 0 .. MaxTargets
         /\ targets' \in [1 .. MaxTargets -> Values] /\ failed' \in BOOLEAN
         /\ PromotedAreTargets' /\ PromotedCounted' /\ HotIsTargeted'
    <2>1. CASE c[k].hits >= Threshold
      <3>1. relm_cr3_cache_apply(c, seen', ncand)
        BY Zenon, <1>4, <1>5, <1>6, <2>1
      <3>2. \A j \in Slots : c[j].value # 0 => seen'[j] # 0
        BY Zenon, <1>4, <1>9
      <3>3. /\ \E s : Marks(c, s)
            /\ npromoted' \in 0 .. MaxTargets /\ count' \in 0 .. MaxTargets
            /\ targets' \in [1 .. MaxTargets -> Values] /\ failed' \in BOOLEAN
            /\ PromotedAreTargets' /\ PromotedCounted' /\ HotIsTargeted'
        BY <1>3, <1>4, <1>8, <3>1, <3>2, ApplyStep
      <3>4. cand' \in Candidates /\ \A j \in Slots : cand'[j].value = cand[j].value
        BY Zenon, <1>4, <3>3 DEF Marks
      <3> QED
        BY Zenon, <3>3, <3>4
    <2>2. CASE ~(c[k].hits >= Threshold)
      <3>1. cand' = c /\ UNCHANGED <<npromoted, targets, count, failed>>
        BY Zenon, <1>6, <2>2
      <3>2. PromotedAreTargets' /\ PromotedCounted' /\ HotIsTargeted'
        BY <1>3, <1>4, <1>5, <2>2, <3>1, SameMarks
      <3> QED
        BY Zenon, <1>1, <1>3, <1>4, <3>1, <3>2
    <2> QED
      BY Zenon, <2>1, <2>2
  <1>11. SeenOrder'
    BY Zenon, <1>8, <1>9, <1>10 DEF SeenOrder
  <1>12. TableDense' /\ NeverDropped'
    <2>1. TableDense /\ NeverDropped
      BY Zenon DEF CacheInv, CacheConsistent
    <2>2. \A j \in 1 .. ncand : j \in Slots
      BY <1>1, CacheConstants DEF Slots
    <2> QED
      BY <1>2, <1>10, <2>1, <2>2 DEF TableDense, NeverDropped
  <1>13. CacheTypeOK'
    BY Zenon, <1>1, <1>2, <1>8, <1>10 DEF CacheTypeOK, Candidates
  <1> QED
    BY Zenon, <1>10, <1>11, <1>12, <1>13 DEF CacheInv, CacheConsistent

\* A miss fills a slot: the first free one, or one that is not promoted.
LEMMA FillStep ==
    ASSUME CacheInv, NEW k \in Slots, NEW v \in Values, v # 0, ~cand[k].promoted, Fill(k, v),
           \A j \in Slots : cand[j].value # v,
           \/ k = ncand + 1 /\ ncand' = ncand + 1
           \/ k <= ncand /\ ncand' = ncand,
           UNCHANGED <<npromoted, targets, count, failed, dropped>>
    PROVE  CacheInv'
  <1>1. /\ cand \in Candidates /\ ncand \in 0 .. CacheSize /\ dropped \in BOOLEAN
        /\ npromoted \in 0 .. MaxTargets /\ count \in 0 .. MaxTargets
        /\ targets \in [1 .. MaxTargets -> Values] /\ failed \in BOOLEAN
    BY Zenon DEF CacheInv, CacheTypeOK, Candidates
  <1>2. /\ cand' \in Candidates /\ \A j \in Slots : j # k => cand'[j] = cand[j]
        /\ cand'[k].value = v /\ cand'[k].hits = 1 /\ ~cand'[k].promoted
    <2>1. 1 \in 0 .. MaxHits
      BY CacheAssumption
    <2> QED
      BY Zenon, <1>1, <2>1 DEF Fill, Candidates
  <1>3. PromotedAreTargets' /\ PromotedCounted' /\ HotIsTargeted'
    <2>1. ~(cand'[k].hits >= Threshold)
      BY <1>2, CacheConstants
    <2> QED
      BY Zenon, <1>2, <2>1, SameMarks
  <1>4. CacheTypeOK /\ SeenOrder /\ TableDense /\ NeverDropped
    BY Zenon DEF CacheInv, CacheConsistent
  <1>5. /\ seen' \in [Slots -> 0 .. CacheSize] /\ seen'[k] # 0
        /\ \A j \in Slots : seen[j] # 0 => seen'[j] # 0
        /\ \A j \in Slots : seen'[j] <= Cardinality(Used')
        /\ \A j, l \in Used' : seen'[j] = seen'[l] => j = l
    BY Zenon, <1>4, TouchKeepsOrder DEF Fill
  <1>6. SeenOrder'
    BY Zenon, <1>2, <1>4, <1>5 DEF SeenOrder
  <1>7. ncand' \in 0 .. CacheSize /\ \A j \in Slots : j <= ncand' <=> j = k \/ j <= ncand
    BY <1>1, CacheConstants DEF Slots
  <1>8. TableDense'
    <2>1. \A j \in Slots : cand'[j].value # 0 <=> j <= ncand'
      BY Zenon, <1>2, <1>4, <1>7 DEF TableDense
    <2>2. ASSUME NEW i \in 1 .. ncand', NEW j \in 1 .. ncand', cand'[i].value = cand'[j].value
          PROVE  i = j
      <3>1. i \in Slots /\ j \in Slots /\ i <= ncand' /\ j <= ncand'
        BY <1>7, CacheConstants DEF Slots
      <3>2. CASE i = k \/ j = k
        BY Zenon, <1>2, <2>2, <3>1, <3>2
      <3>3. CASE i # k /\ j # k
        <4>1. i <= ncand /\ j <= ncand /\ cand[i].value = cand[j].value
          BY Zenon, <1>2, <1>7, <2>2, <3>1, <3>3
        <4>2. i \in 1 .. ncand /\ j \in 1 .. ncand
          BY <1>1, <1>7, <4>1, CacheConstants
        <4> QED
          BY Zenon, <1>4, <4>1, <4>2 DEF TableDense
      <3> QED
        BY Zenon, <3>2, <3>3
    <2> QED
      BY Zenon, <2>1, <2>2 DEF TableDense
  <1>9. NeverDropped'
    BY Zenon, <1>4 DEF NeverDropped
  <1>10. CacheTypeOK'
    BY Zenon, <1>1, <1>2, <1>5, <1>7 DEF CacheTypeOK, Candidates
  <1> QED
    BY Zenon, <1>3, <1>6, <1>8, <1>9, <1>10 DEF CacheInv, CacheConsistent

LEMMA MissStep ==
    ASSUME CacheInv, NEW v \in Values, v # 0, \A j \in Slots : cand[j].value # v, Miss(v)
    PROVE  CacheInv'
  <1> DEFINE free == {k \in Slots : cand[k].value = 0}
             least == {k \in Evictable : \A j \in Evictable : cand[k].hits <= cand[j].hits}
  <1>1. /\ IF free # {} THEN Fill(Smallest(free), v) /\ ncand' = ncand + 1 /\ UNCHANGED dropped
           ELSE IF Evictable # {} THEN Fill(Smallest(least), v) /\ UNCHANGED <<ncand, dropped>>
           ELSE dropped' = TRUE /\ UNCHANGED <<cand, seen, ncand>>
        /\ UNCHANGED <<npromoted, targets, count, failed>>
    BY Zenon DEF Miss
  <1>2. cand \in Candidates /\ ncand \in 0 .. CacheSize /\ npromoted \in 0 .. MaxTargets
    BY Zenon DEF CacheInv, CacheTypeOK, Candidates
  <1>3. TableDense /\ PromotedCounted
    BY Zenon DEF CacheInv, CacheConsistent
  <1>4. CASE free # {}
    <2>1. Smallest(free) \in free /\ \A y \in free : Smallest(free) <= y
      BY Zenon, <1>4, SmallestIn
    <2>2. PICK k \in Slots : k = Smallest(free) /\ cand[k].value = 0 /\ \A y \in free : k <= y
      BY Zenon, <2>1
    <2>3. ~cand[k].promoted
      BY Zenon, <1>3, <2>2 DEF PromotedCounted, Promoted
    <2>4. k = ncand + 1
      <3>1. k > ncand /\ ncand + 1 \in Slots
        BY <1>2, <1>3, <2>2, CacheConstants DEF TableDense, Slots
      <3>2. ncand + 1 \in free
        BY <1>2, <1>3, <3>1 DEF TableDense
      <3>3. k <= ncand + 1 /\ k \in Nat /\ ncand \in Nat
        BY <1>2, <2>2, <3>2, CacheConstants
      <3> QED
        BY <3>1, <3>3
    <2> QED
      BY <1>1, <1>4, <2>2, <2>3, <2>4, FillStep
  <1>5. CASE free = {}
    <2>1. Evictable # {}
      <3>1. SUFFICES ASSUME Evictable = {} PROVE FALSE
        BY Zenon
      <3>2. Promoted(cand) = Slots
        BY Zenon, <3>1 DEF Evictable, Promoted
      <3> QED
        BY <1>2, <1>3, <3>2, CacheConstants DEF PromotedCounted
    <2>2. least # {}
      <3>1. {cand[k].hits : k \in Evictable} \in SUBSET Nat /\ {cand[k].hits : k \in Evictable} # {}
        BY <1>2, <2>1, CacheConstants DEF Evictable, Candidates
      <3>2. PICK m \in {cand[k].hits : k \in Evictable} : \A n \in {cand[k].hits : k \in Evictable} : m <= n
        BY Zenon, <3>1, LeastNatural
      <3>3. PICK k \in Evictable : m = cand[k].hits
        BY Zenon, <3>2
      <3> QED
        BY Zenon, <3>2, <3>3
    <2>3. least \in SUBSET Slots /\ least \subseteq Evictable
      BY Zenon DEF Evictable
    <2>4. Smallest(least) \in least
      BY Zenon, <2>2, <2>3, SmallestIn
    <2>5. PICK k \in Slots : k = Smallest(least) /\ ~cand[k].promoted
      BY Zenon, <2>3, <2>4 DEF Evictable
    <2>6. k <= ncand
      BY Zenon, <1>3, <1>5, <2>5 DEF TableDense
    <2> QED
      BY Zenon, <1>1, <1>5, <2>1, <2>5, <2>6, FillStep
  <1> QED
    BY Zenon, <1>4, <1>5

LEMMA CacheInitInv == CacheInit => CacheInv
  <1> SUFFICES ASSUME CacheInit PROVE CacheInv
    BY Zenon
  <1>1. 0 \in 0 .. CacheSize /\ 0 \in 0 .. MaxTargets /\ 0 \in 0 .. MaxHits /\ 1 .. 0 = {}
    BY CacheConstants
  <1>2. \A k \in Slots : cand[k].value = 0 /\ cand[k].hits = 0 /\ ~cand[k].promoted /\ seen[k] = 0
    BY Zenon DEF CacheInit
  <1>3. Promoted(cand) = {} /\ Used = {} /\ {j \in Slots : cand[j].promoted} = {}
    BY Zenon, <1>2 DEF Promoted, Used
  <1>4. CacheTypeOK
    BY Zenon, <1>1 DEF CacheInit, CacheTypeOK, Values
  <1>5. SeenOrder
    BY <1>2, <1>3, FS_EmptySet DEF SeenOrder
  <1>6. PromotedCounted
    BY Zenon, <1>3, FS_EmptySet DEF PromotedCounted, CacheInit
  <1>7. TableDense
    BY <1>1, <1>2, CacheConstants DEF TableDense, CacheInit
  <1>8. PromotedAreTargets
    BY Zenon, <1>1, <1>3 DEF PromotedAreTargets, CacheInit
  <1>9. NeverDropped /\ HotIsTargeted
    BY Zenon, <1>2 DEF NeverDropped, HotIsTargeted, CacheInit
  <1> QED
    BY Zenon, <1>4, <1>5, <1>6, <1>7, <1>8, <1>9 DEF CacheInv, CacheConsistent

LEMMA CacheStepInv ==
    ASSUME 0 \notin Cr3s, CacheInv, [CacheNext]_cacheVars
    PROVE  CacheInv'
  <1>1. CASE CacheNext
    <2>1. PICK v \in Cr3s : relm_cr3_cache_handle_exit(v)
      BY Zenon, <1>1 DEF CacheNext
    <2> DEFINE found == {k \in Slots : cand[k].value = v}
    <2>2. ~InTargets(v) /\ IF found # {} THEN Hit(Smallest(found)) ELSE Miss(v)
      BY Zenon, <2>1 DEF relm_cr3_cache_handle_exit
    <2>3. v # 0 /\ v \in Values
      BY Zenon DEF Values
    <2>4. CASE found # {}
      <3>1. Smallest(found) \in found
        BY Zenon, <2>4, SmallestIn
      <3>2. PICK k \in Slots : k = Smallest(found) /\ cand[k].value = v
        BY Zenon, <3>1
      <3> QED
        BY Zenon, <2>2, <2>3, <2>4, <3>2, HitStep
    <2>5. CASE found = {}
      <3>1. \A j \in Slots : cand[j].value # v
        BY Zenon, <2>5
      <3> QED
        BY Zenon, <2>2, <2>3, <2>5, <3>1, MissStep
    <2> QED
      BY Zenon, <2>4, <2>5
  <1>2. CASE UNCHANGED cacheVars
    <2>1. /\ cand' = cand /\ seen' = seen /\ ncand' = ncand /\ npromoted' = npromoted
          /\ targets' = targets /\ count' = count /\ dropped' = dropped /\ failed' = failed
      BY Zenon, <1>2 DEF cacheVars
    <2>2. CacheTypeOK'
      BY Zenon, <2>1 DEF CacheInv, CacheTypeOK
    <2>3. SeenOrder'
      BY Zenon, <2>1 DEF CacheInv, SeenOrder, Used
    <2>4. PromotedCounted'
      BY Zenon, <2>1 DEF CacheInv, PromotedCounted, Promoted
    <2>5. TableDense' /\ NeverDropped' /\ HotIsTargeted'
      BY Zenon, <2>1 DEF CacheInv, CacheConsistent, TableDense, NeverDropped, HotIsTargeted
    <2>6. PromotedAreTargets'
      BY <2>1 DEF CacheInv, CacheConsistent, PromotedAreTargets
    <2> QED
      BY Zenon, <2>2, <2>3, <2>4, <2>5, <2>6 DEF CacheInv, CacheConsistent
  <1> QED
    BY Zenon, <1>1, <1>2

LEMMA CacheHolds ==
    ASSUME 0 \notin Cr3s
    PROVE  CacheSpec => []CacheInv
  BY CacheInitInv, CacheStepInv, PTL DEF CacheSpec

\* The cache knows what is in the VMCS, whatever address spaces the guest
\* loads and whichever VMWRITEs fail, as long as it does not load 0, the
\* value that marks a free slot (relm_cr3_cache_record).
THEOREM CacheAlwaysConsistent ==
    ASSUME 0 \notin Cr3s
    PROVE  CacheSpec => []CacheConsistent
  <1>1. CacheInv => CacheConsistent
    BY Zenon DEF CacheInv
  <1> QED
    BY <1>1, CacheHolds, PTL

----------------------------------------------------------------------------
(* The control registers. *)

\* The bits the guest cannot change without an exit are in the real register
\* what they are in the shadow, and both hold the bits VMX fixes among them.
Cr0Tracks ==
    /\ Cr0Fixed0 \ {"PE", "PG"} \subseteq cr0
    /\ Cr0Fixed0 \cap cr0_mask \subseteq shadow0
    /\ shadow0 \cap cr0_mask = cr0 \cap cr0_mask
    /\ lawful => ("PG" \in cr0 => "PE" \in cr0)

\* The same for CR4, where the shadow hides VMXE.
Cr4Tracks ==
    /\ Cr4Fixed0 \subseteq cr4
    /\ (Cr4Fixed0 \cap cr4_mask) \ {"VMXE"} \subseteq shadow4
    /\ shadow4 \cap cr4_mask = (cr4 \cap cr4_mask) \ {"VMXE"}

\* While the guest has never turned paging off it is in long mode, and PAE is
\* set unless a handler carried out a refused write.
LongMode ==
    paged => "PG" \in cr0 /\ efer = {"LME", "LMA"} /\ ia32e /\ (lawful => "PAE" \in cr4)

ModeInv == TypeOK /\ Cr0Tracks /\ Cr4Tracks /\ LongMode /\ ReadsBack

USE DEF cr0_mask, cr4_mask, Cr0Bits, Cr4Bits, Sanitised, Visible

\* vmx_vcpu_init leaves registers that satisfy the invariant.
LEMMA ModeInitHolds == Init => ModeInv
<1> SUFFICES ASSUME Init PROVE ModeInv
  BY Zenon
<1> USE GuestModeAssumption DEF Init, FirstCr0, FirstCr4
<1>1. TypeOK
  BY Zenon DEF TypeOK
<1>2. Cr0Tracks
  BY Zenon DEF Cr0Tracks
<1>3. Cr4Tracks
  BY Zenon DEF Cr4Tracks
<1>4. LongMode
  BY Zenon DEF LongMode
<1>5. Cr0ReadsBack
  BY Zenon DEF Cr0ReadsBack
<1>6. Cr4ReadsBack
  BY Zenon DEF Cr4ReadsBack
<1> QED
  BY Zenon, <1>1, <1>2, <1>3, <1>4, <1>5, <1>6 DEF ModeInv, ReadsBack

\* Every write of the guest, direct or through a handler, keeps it.
LEMMA ModeStepHolds == ModeInv /\ [Next]_vars => ModeInv'
<1> SUFFICES ASSUME ModeInv, [Next]_vars PROVE ModeInv'
  BY Zenon
<1> USE GuestModeAssumption
<1>t. TypeOK /\ Cr0Tracks /\ Cr4Tracks /\ LongMode /\ Cr0ReadsBack /\ Cr4ReadsBack
  BY Zenon DEF ModeInv, ReadsBack
<1>1. ASSUME NEW v \in SUBSET Cr0Bits, DirectCr0(v) PROVE ModeInv'
  <2> USE <1>t, <1>1 DEF DirectCr0, SetPaging, Written0, LegalCr0, Exits, Supported
  <2>1. TypeOK'
    BY Zenon DEF TypeOK
  <2>2. Cr0Tracks'
    BY Zenon DEF Cr0Tracks, TypeOK
  <2>3. Cr4Tracks'
    BY Zenon DEF Cr4Tracks
  <2>4. LongMode'
    BY Zenon DEF LongMode
  <2>5. Cr0ReadsBack'
    <3> SUFFICES ASSUME paged' PROVE (Visible(cr0_mask, shadow0, cr0) = Sanitised(written0, Cr0Fixed0, Cr0Fixed1))'
      BY Zenon DEF Cr0ReadsBack
    <3>1. "PG" \in v
      BY Zenon
    <3>2. v \cap cr0_mask = shadow0 \cap cr0_mask /\ v \cap cr0_mask = cr0 \cap cr0_mask
      BY Zenon DEF Cr0Tracks
    <3>3. cr0' = v
      BY Zenon, <3>2
    <3>4. Cr0Fixed0 \subseteq v /\ v \subseteq Cr0Fixed1
      BY Zenon, <3>1, <3>2, <3>3 DEF Cr0Tracks
    <3> QED
      BY ONLY Zenon, <3>2, <3>3, <3>4, shadow0' = shadow0, written0' = v
  <2>6. Cr4ReadsBack'
    BY Zenon DEF Cr4ReadsBack
  <2> QED
    BY <2>1, <2>2, <2>3, <2>4, <2>5, <2>6 DEF ModeInv, ReadsBack
<1>2. ASSUME NEW v \in SUBSET Cr0Bits, relm_cr0_write_handle_exit(v) PROVE ModeInv'
  <2> USE <1>t, <1>2 DEF relm_cr0_write_handle_exit, Written0, LegalCr0
  <2>1. TypeOK'
    BY Zenon DEF TypeOK
  <2>2. Cr0Tracks'
    BY Zenon DEF Cr0Tracks
  <2>3. Cr4Tracks'
    BY Zenon DEF Cr4Tracks
  <2>4. LongMode'
    BY Zenon DEF LongMode
  <2>5. Cr0ReadsBack'
    BY Zenon DEF Cr0ReadsBack
  <2>6. Cr4ReadsBack'
    BY Zenon DEF Cr4ReadsBack
  <2> QED
    BY <2>1, <2>2, <2>3, <2>4, <2>5, <2>6 DEF ModeInv, ReadsBack
<1>3. ASSUME NEW v \in SUBSET Cr4Bits, DirectCr4(v) PROVE ModeInv'
  <2> USE <1>t, <1>3 DEF DirectCr4, LegalCr4, Exits, Supported
  <2>1. TypeOK'
    BY Zenon DEF TypeOK
  <2>2. Cr0Tracks'
    BY Zenon DEF Cr0Tracks
  <2>3. Cr4Tracks'
    BY Zenon DEF Cr4Tracks, TypeOK
  <2>4. LongMode'
    BY Zenon DEF LongMode, Cr4Tracks, TypeOK
  <2>5. Cr0ReadsBack'
    BY Zenon DEF Cr0ReadsBack
  <2>6. Cr4ReadsBack'
    BY Zenon DEF Cr4ReadsBack, Cr4Tracks, TypeOK
  <2> QED
    BY <2>1, <2>2, <2>3, <2>4, <2>5, <2>6 DEF ModeInv, ReadsBack
<1>4. ASSUME NEW v \in SUBSET Cr4Bits, relm_cr4_write_handle_exit(v) PROVE ModeInv'
  <2> USE <1>t, <1>4 DEF relm_cr4_write_handle_exit, LegalCr4
  <2>1. TypeOK'
    BY Zenon DEF TypeOK
  <2>2. Cr0Tracks'
    BY Zenon DEF Cr0Tracks
  <2>3. Cr4Tracks'
    BY Zenon DEF Cr4Tracks
  <2>4. LongMode'
    BY Zenon DEF LongMode
  <2>5. Cr0ReadsBack'
    BY Zenon DEF Cr0ReadsBack
  <2>6. Cr4ReadsBack'
    BY Zenon DEF Cr4ReadsBack
  <2> QED
    BY <2>1, <2>2, <2>3, <2>4, <2>5, <2>6 DEF ModeInv, ReadsBack
<1>5. ASSUME NEW v \in SUBSET {"LME"}, DirectEfer(v) PROVE ModeInv'
  <2> USE <1>t, <1>5 DEF DirectEfer
  <2>1. ~paged
    BY Zenon DEF LongMode
  <2>2. TypeOK'
    BY Zenon DEF TypeOK
  <2>3. Cr0Tracks' /\ Cr4Tracks'
    BY Zenon DEF Cr0Tracks, Cr4Tracks
  <2>4. LongMode' /\ Cr0ReadsBack' /\ Cr4ReadsBack'
    BY Zenon, <2>1 DEF LongMode, Cr0ReadsBack, Cr4ReadsBack
  <2> QED
    BY Zenon, <2>2, <2>3, <2>4 DEF ModeInv, ReadsBack
<1>6. CASE UNCHANGED vars
  BY Zenon, <1>6, <1>t DEF vars, ModeInv, ReadsBack, TypeOK, Cr0Tracks, Cr4Tracks, LongMode,
     Cr0ReadsBack, Cr4ReadsBack
<1> QED
  BY <1>1, <1>2, <1>3, <1>4, <1>5, <1>6 DEF Next

LEMMA ModeHolds == Spec => []ModeInv
  BY ModeInitHolds, ModeStepHolds, PTL DEF Spec

\* Whatever a guest writes to CR0, CR4 and EFER, and whatever bits the
\* processor fixes, the fixed bits are held; and the next VM entry accepts the
\* registers of a guest in long mode that wrote nothing the processor refuses.
THEOREM EntryAccepted == Spec => []EntryLegal
<1>1. ModeInv => EntryLegal
  BY Zenon DEF ModeInv, TypeOK, Cr0Tracks, Cr4Tracks, LongMode, EntryLegal, EntryAccepts
<1> QED
  BY <1>1, ModeHolds, PTL

\* A guest reads from CR0 and CR4 what it wrote and VMX allows.
THEOREM WhatWasWritten == Spec => []ReadsBack
<1>1. ModeInv => ReadsBack
  BY Zenon DEF ModeInv
<1> QED
  BY <1>1, ModeHolds, PTL

----------------------------------------------------------------------------
(* The three together. *)

\* The three share no state: a step of one leaves the others alone.
LEMMA ThreeParts == MCSpec => Spec /\ CacheSpec /\ VmcsSpec
<1>1. MCInit => Init /\ CacheInit /\ VmcsInit
  BY Zenon DEF MCInit
<1>2. [MCNext]_<<part, vars, cacheVars, vmcsVars>> =>
        [Next]_vars /\ [CacheNext]_cacheVars /\ [VmcsNext]_vmcsVars
  <2> SUFFICES ASSUME [MCNext]_<<part, vars, cacheVars, vmcsVars>>
               PROVE  [Next]_vars /\ [CacheNext]_cacheVars /\ [VmcsNext]_vmcsVars
    BY Zenon
  <2>1. CASE MCNext
    BY <2>1, Zenon DEF MCNext
  <2>2. CASE UNCHANGED <<part, vars, cacheVars, vmcsVars>>
    BY <2>2, Zenon
  <2> QED
    BY Zenon, <2>1, <2>2
<1> QED
  BY <1>1, <1>2, PTL DEF MCSpec, Spec, CacheSpec, VmcsSpec

\* The types of the three hold for every processor and every cache, as long
\* as the guest loads no CR3 of 0.
THEOREM TypesCorrect ==
    ASSUME 0 \notin Cr3s
    PROVE  MCSpec => []TypesOK
<1>1. TypeOK /\ CacheTypeOK /\ VmcsTypeOK => TypesOK
  BY Zenon DEF TypesOK
<1>2. ModeInv => TypeOK
  BY Zenon DEF ModeInv
<1>3. CacheInv => CacheTypeOK
  BY Zenon DEF CacheInv
<1> QED
  BY <1>1, <1>2, <1>3, ThreeParts, ModeHolds, CacheHolds, VmcsTypes, PTL
=============================================================================
