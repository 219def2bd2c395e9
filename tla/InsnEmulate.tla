---------------------------- MODULE InsnEmulate ----------------------------
(***************************************************************************)
(* A guest instruction that touches a device register, emulated: the exit  *)
(* and entry stubs (vmx_asm.S) with handle_vmexit carrying the registers,  *)
(* the decoder (decoder.h, utils.c) and its two users, the virtio-mmio and *)
(* the APIC-access handler.                                                *)
(*                                                                         *)
(* A register has four lanes: bits 7-0, 15-8, 31-16 and 63-32; a width is  *)
(* the set of lanes it covers.  Zydis and the guest's code are external:   *)
(* Insns holds what Zydis reports of the instructions the guest may run.   *)
(* The device is one 32-bit register that reads as it was written; what    *)
(* the real registers do is in VirtioMmio and Apic.                        *)
(***************************************************************************)
EXTENDS Integers

CONSTANTS
    Gprs,       \* register numbers of x86 encodings in use; 4 is RSP
    Contents,   \* register files the guest computes, [Gprs -> Word]
    Insns,      \* instructions, as Zydis reports them
    Lanes01,    \* values of a lane
    RipSpan     \* RIP wraps here

RSP == 4
Lanes == 0 .. 3
Word == [Lanes -> Lanes01]
Zero == [l \in Lanes |-> 0]

\* AH, CH, DH and BH are registers of one byte.
ASSUME InsnAssumption ==
    /\ RSP \in Gprs /\ Gprs \subseteq 0 .. 15 /\ 0 \in Lanes01 /\ RipSpan \in Nat \ {0}
    /\ Contents \subseteq [Gprs -> Word]
    /\ \A i \in Insns : /\ i.len \in Nat /\ i.high \in BOOLEAN /\ i.imm \in Word
                        /\ i.value = "gpr" => i.reg \in Gprs /\ (i.high => i.width = 1)

VARIABLES
    at,      \* "guest", "exit", "handled", "host", "stopped"
    cpu,     \* the general registers of the processor, while the guest runs
    vmcs,    \* GUEST_RIP and GUEST_RSP
    block,   \* the registers the exit stub pushed
    regs,    \* vcpu->arch.regs: the registers and rip
    device,  \* the device's register
    exit,    \* the exit: how it came, its instruction, the offset
    ret,     \* what handle_vmexit returns
    before   \* history: what the guest saw when it exited, until it runs again

ieVars == <<at, cpu, vmcs, block, regs, device, exit, ret, before>>

\* The instruction, the device register it addresses, what VMX reports of an
\* APIC access, and how many bytes of the instruction can be fetched.
Paths == {"virtio", "apic", "hlt"}
Offsets == {"register", "reserved", "unaligned"}
AccessTypes == {"read", "write", "fetch", "event", "physical"}

\* What the guest can see: its registers, RSP among them, RIP and the device.
Visible == [gpr |-> [g \in Gprs |-> IF g = RSP THEN vmcs.rsp ELSE cpu[g]],
            rip |-> vmcs.rip, dev |-> device]

\* While the guest runs there is no exit to remember.
NoExit(x, b) == x = [path |-> "none"] /\ b = [path |-> "none"]

EmuTypeOK ==
    /\ at \in {"guest", "exit", "handled", "host", "stopped"}
    /\ cpu \in [Gprs \ {RSP} -> Word] /\ block \in [Gprs \ {RSP} -> Word]
    /\ vmcs \in [rip : 0 .. RipSpan - 1, rsp : Word]
    /\ regs \in [gpr : [Gprs -> Word], rip : 0 .. RipSpan - 1]
    /\ device \in Word /\ device[3] = 0 /\ ret \in {-1, 0, 1}

EmuInit ==
    /\ at = "host" /\ device = Zero /\ ret = 0
    /\ \E f \in Contents : /\ regs = [gpr |-> f, rip |-> 0]
                           /\ vmcs = [rip |-> 0, rsp |-> f[RSP]]
    /\ cpu = [g \in Gprs \ {RSP} |-> Zero] /\ block = cpu
    /\ NoExit(exit, before)

----------------------------------------------------------------------------
(* The decoder. *)

\* The lanes a value of a width covers; {} for a width that is no power of
\* two up to eight.
relm_width_mask(w) ==
    CASE w = 1 -> {0} [] w = 2 -> {0, 1} [] w = 4 -> {0, 1, 2} [] w = 8 -> Lanes
      [] OTHER -> {}

relm_decoded_has_valid_gpr(d) ==
    /\ d.operand_kind = "gpr" /\ d.gpr_index \in 0 .. 15
    /\ relm_width_mask(d.gpr_width) # {}
    /\ d.gpr_bit_offset = 0 \/ (d.gpr_width = 1 /\ d.gpr_bit_offset = 8)

\* x shifted by the decoded offset (one lane, if it is not zero) to the right,
\* and to the left.
Shifted(x, offset) == [l \in Lanes |-> IF offset = 0 THEN x[l] ELSE IF l = 3 THEN 0 ELSE x[l + 1]]
ShiftedUp(x, offset) == [l \in Lanes |-> IF offset = 0 THEN x[l] ELSE IF l = 0 THEN 0 ELSE x[l - 1]]
Masked(x, mask) == [l \in Lanes |-> IF l \in mask THEN x[l] ELSE 0]

relm_decoded_gpr_extract(d, x) ==
    Masked(Shifted(x, d.gpr_bit_offset), relm_width_mask(d.gpr_width))

relm_decoded_gpr_commit(d, old, x) ==
    LET mask == relm_width_mask(d.gpr_width)
        moved == ShiftedUp(Masked(x, mask), d.gpr_bit_offset)
        lanes == IF d.gpr_bit_offset = 0 THEN mask ELSE {1}
    IN  CASE d.gpr_write_semantics = "merge" -> [l \in Lanes |-> IF l \in lanes THEN moved[l] ELSE old[l]]
          [] d.gpr_write_semantics \in {"zero_extend", "replace"} -> Masked(x, mask)
          [] OTHER -> old

relm_zydis_set_load_semantics(w) ==
    CASE w \in {1, 2} -> "merge" [] w = 4 -> "zero_extend" [] OTHER -> "replace"

\* relm_decode_x86 of instruction i with n bytes fetched: refused unless it is
\* an unlocked MOV between memory and a general register or an immediate.
Decodes(i, n) ==
    /\ n >= i.len                                             \* Zydis: truncated
    /\ i.mnemonic = "mov" /\ ~i.lock
    /\ i.action \in {"read", "write"}                         \* one memory operand
    /\ relm_width_mask(i.width) # {}
    /\ \/ i.value = "gpr"
       \/ i.value = "imm" /\ i.action = "write"

\* relm_zydis_decode_gpr among it: AH, CH, DH and BH start at bit 8.
relm_decode_x86(i) ==
    [length |-> i.len, memory_access |-> i.action, memory_width |-> i.width,
     operand_kind |-> i.value,
     immediate |-> IF i.value = "imm" THEN i.imm ELSE Zero,
     gpr_index |-> IF i.value = "gpr" THEN i.reg ELSE 16,
     gpr_width |-> IF i.value = "gpr" THEN i.width ELSE 0,
     gpr_bit_offset |-> IF i.value = "gpr" /\ i.high THEN 8 ELSE 0,
     gpr_write_semantics |-> IF i.value = "gpr" /\ i.action = "read"
                             THEN relm_zydis_set_load_semantics(i.width) ELSE "none"]

----------------------------------------------------------------------------
(* The handlers. *)

\* A load of a reserved offset reads as zero; a store to one is ignored.
DeviceRead(off) == IF off = "register" THEN device ELSE Zero
DeviceWritten(off, x) == IF off = "register" THEN x ELSE device

StoreValue(d) ==
    IF d.operand_kind = "imm" THEN Masked(d.immediate, relm_width_mask(d.memory_width))
    ELSE relm_decoded_gpr_extract(d, regs.gpr[d.gpr_index])

\* Both copies of RIP.
Advance(len) == (vmcs.rip + len) % RipSpan

\* The store or load goes through, and the guest is to go on behind it.
Emulate(d, off) ==
    /\ ret' = 1
    /\ vmcs' = [vmcs EXCEPT !.rip = Advance(d.length)]
    /\ IF d.memory_access = "write"
       THEN /\ device' = DeviceWritten(off, StoreValue(d))
            /\ regs' = [regs EXCEPT !.rip = Advance(d.length)]
       ELSE /\ regs' = [rip |-> Advance(d.length),
                        gpr |-> [regs.gpr EXCEPT ![d.gpr_index] =
                                   relm_decoded_gpr_commit(d, @, DeviceRead(off))]]
            /\ UNCHANGED device

Leave(r) == ret' = r /\ UNCHANGED <<vmcs, device, regs>>

\* The handlers take aligned dwords only.
Supported(d, off) == d.memory_width = 4 /\ off # "unaligned"

\* handle_ept_violation with relm_virtio_mmio_handle_ept_violation: what cannot
\* be emulated stops the vCPU.
relm_virtio_mmio_handle_ept_violation ==
    LET d == relm_decode_x86(exit.insn)
    IN  IF /\ Decodes(exit.insn, exit.fetched) /\ Supported(d, exit.offset)
           /\ d.operand_kind = "gpr" => relm_decoded_has_valid_gpr(d)
        THEN Emulate(d, exit.offset)
        ELSE Leave(0)

\* The access type VMX reports is one of a store; all others are loads.
IsStore(type) == type \in {"write", "event"}

\* relm_apic_handle_access.  What cannot be emulated is answered with a
\* negative value; of a physical access, a load of a reserved offset leaves
\* the register alone.
relm_apic_handle_access ==
    LET d == relm_decode_x86(exit.insn)
    IN  IF exit.type = "fetch" THEN Leave(0)
        ELSE IF /\ exit.fetched = exit.vmx_len /\ exit.vmx_len > 0
                /\ Decodes(exit.insn, exit.vmx_len) /\ d.length = exit.vmx_len
                /\ Supported(d, exit.offset)
                /\ (d.memory_access = "write") = IsStore(exit.type)
                /\ d.operand_kind = "gpr" => relm_decoded_has_valid_gpr(d)
        THEN IF exit.type = "physical" /\ exit.offset = "reserved"
             THEN /\ ret' = 1 /\ UNCHANGED device
                  /\ vmcs' = [vmcs EXCEPT !.rip = Advance(d.length)]
                  /\ regs' = [regs EXCEPT !.rip = Advance(d.length)]
             ELSE Emulate(d, exit.offset)
        ELSE Leave(-1)

\* handle_hlt: behind the instruction, and out to the run loop.
handle_hlt ==
    /\ ret' = 0
    /\ vmcs' = [vmcs EXCEPT !.rip = Advance(1)]
    /\ UNCHANGED <<device, regs>>

----------------------------------------------------------------------------
(* Entry and exit. *)

\* The guest computes something that does not exit.
GuestRuns ==
    /\ at = "guest"
    /\ \E f \in Contents :
          /\ cpu' = [g \in Gprs \ {RSP} |-> f[g]]
          /\ vmcs' = [vmcs EXCEPT !.rsp = f[RSP]]
    /\ UNCHANGED <<at, block, regs, device, exit, ret, before>>

\* The guest exits; the stub pushes the registers and handle_vmexit imports
\* them, with RSP and RIP from the VMCS.
Exits(x) ==
    /\ at = "guest" /\ at' = "exit"
    /\ exit' = x
    /\ block' = cpu
    /\ regs' = [gpr |-> [g \in Gprs |-> IF g = RSP THEN vmcs.rsp ELSE cpu[g]], rip |-> vmcs.rip]
    /\ before' = Visible
    /\ UNCHANGED <<cpu, vmcs, device, ret>>

\* The fetch of 16 bytes yields all of the instruction or, when it crosses into
\* a page that is not mapped, less.
VirtioExit ==
    \E i \in Insns, off \in Offsets : \E n \in {i.len - 1, i.len} :
       Exits([path |-> "virtio", insn |-> i, offset |-> off, fetched |-> n])

\* The hardware reports the length and direction of the access it made; for
\* an event or a physical access RIP may point to any instruction.
ApicExit ==
    \E i \in Insns, off \in Offsets, type \in AccessTypes : \E len \in {0, i.len}, n \in {0, i.len} :
       /\ type \in {"read", "write"} => type = i.action /\ len = i.len
       /\ n <= len
       /\ Exits([path |-> "apic", insn |-> i, offset |-> off, type |-> type,
                 vmx_len |-> len, fetched |-> n])

HltExit == Exits([path |-> "hlt"])

\* Mutant: the registers are copied back before the handler runs.
handle_vmexit_Mut ==
    /\ at = "exit" /\ at' = "handled"
    /\ CASE exit.path = "virtio" -> relm_virtio_mmio_handle_ept_violation
         [] exit.path = "apic" -> relm_apic_handle_access
         [] OTHER -> handle_hlt
    /\ block' = [g \in Gprs \ {RSP} |-> regs.gpr[g]]
    /\ UNCHANGED <<cpu, exit, before>>

\* The handler, and the registers copied back into the block.
handle_vmexit ==
    /\ at = "exit" /\ at' = "handled"
    /\ CASE exit.path = "virtio" -> relm_virtio_mmio_handle_ept_violation
         [] exit.path = "apic" -> relm_apic_handle_access
         [] OTHER -> handle_hlt
    /\ block' = [g \in Gprs \ {RSP} |-> regs'.gpr[g]]
    /\ UNCHANGED <<cpu, exit, before>>

\* The stub tests for zero, so a negative value resumes the guest as well.
Resume ==
    /\ at = "handled" /\ ret # 0
    /\ at' = "guest" /\ cpu' = block
    /\ NoExit(exit', before')
    /\ UNCHANGED <<vmcs, block, regs, device, ret>>

\* relm_vcpu_loop goes on after HLT and ends otherwise.
Unwind ==
    /\ at = "handled" /\ ret = 0
    /\ at' = IF exit.path = "hlt" THEN "host" ELSE "stopped"
    /\ UNCHANGED <<cpu, vmcs, block, regs, device, exit, ret, before>>

\* relm_vmentry_asm loads the registers but RSP, RIP and RFLAGS.
relm_vmentry_asm ==
    /\ at = "host" /\ at' = "guest"
    /\ cpu' = [g \in Gprs \ {RSP} |-> regs.gpr[g]]
    /\ NoExit(exit', before')
    /\ UNCHANGED <<vmcs, block, regs, device, ret>>

EmuNext ==
    \/ GuestRuns \/ VirtioExit \/ ApicExit \/ HltExit
    \/ handle_vmexit \/ Resume \/ Unwind \/ relm_vmentry_asm

EmuSpec == EmuInit /\ [][EmuNext]_ieVars

----------------------------------------------------------------------------
(* Properties. *)

\* What the processor does for MOV, written from its definition: a load of a
\* byte or word leaves the rest of the register, of a dword clears it.
LaneOf(i) == IF i.high THEN {1} ELSE relm_width_mask(i.width)
Loaded(i, old, x) ==
    [l \in Lanes |->
       IF l \in LaneOf(i) THEN x[IF i.high THEN 0 ELSE l]
       ELSE IF i.width = 4 THEN 0 ELSE old[l]]
Stored(i, x) ==
    [l \in Lanes |-> IF l \in relm_width_mask(i.width) THEN x[IF i.high THEN 1 ELSE l] ELSE 0]

Executed(b, x) ==
    LET i == x.insn
        value == IF i.value = "imm" THEN Masked(i.imm, relm_width_mask(i.width))
                 ELSE Stored(i, b.gpr[i.reg])
        read == IF x.offset = "register" THEN b.dev ELSE Zero
    IN  [gpr |-> IF i.action = "read" THEN [b.gpr EXCEPT ![i.reg] = Loaded(i, @, read)] ELSE b.gpr,
         rip |-> (b.rip + i.len) % RipSpan,
         dev |-> IF i.action = "write" /\ x.offset = "register" THEN value ELSE b.dev]

LoadsRsp == exit.path \in {"virtio", "apic"}
            /\ exit.insn.value = "gpr" /\ exit.insn.action = "read" /\ exit.insn.reg = RSP
ReservedPhysical == exit.path = "apic" /\ exit.type = "physical" /\ exit.offset = "reserved"

\* The lanes the decoder takes a value from and puts one in are those of the
\* processor, also for the widths no handler takes yet.
LanesMatch(i) ==
    Decodes(i, i.len) /\ i.value = "gpr" =>
        LET d == relm_decode_x86(i)
            x == regs.gpr[i.reg]
        IN  /\ relm_decoded_has_valid_gpr(d)
            /\ relm_decoded_gpr_extract(d, x) = Stored(i, x)
            /\ i.action = "read" => relm_decoded_gpr_commit(d, x, device) = Loaded(i, x, device)

\* A step of the emulator that does to the guest what the processor would.
EmulatedStep ==
    /\ at = "exit" /\ exit.path # "hlt" => LanesMatch(exit.insn)
    /\ at = "handled" /\ at' = "guest" /\ ~LoadsRsp /\ ~ReservedPhysical =>
          Visible' \in {before, Executed(before, exit)}
    /\ at = "host" /\ at' = "guest" /\ exit.path = "hlt" =>
          Visible' = [before EXCEPT !.rip = (@ + 1) % RipSpan]
    /\ at' = "stopped" => /\ regs.gpr = before.gpr /\ device = before.dev
                          /\ vmcs.rip = before.rip

\* When the guest runs again after an access that trapped, it sees either what
\* the processor would have made of the instruction, in every register, RIP
\* and the device, or nothing at all (a refusal that is tried again).  When it
\* is stopped, none of it has happened.  Excepted are loads of RSP (see
\* LoadReachesRsp) and physical accesses to reserved offsets, which only skip
\* the instruction.  Entered again through the run loop after HLT, it finds
\* all of its registers as they were.
EmulatedExactly == [][EmulatedStep]_ieVars

----------------------------------------------------------------------------
(* A comment the code does not meet. *)

\* vcpu_arch.h on the accessors, RSP being number 4: "Exit handlers may write
\* through these: handle_vmexit() syncs vcpu->arch.regs back".  RSP is imported
\* from the VMCS and never written back, so VMRESUME loads the old one.
LoadReachesRsp ==
    at = "handled" /\ LoadsRsp /\ vmcs.rip # before.rip =>
        vmcs.rsp = Executed(before, exit).gpr[RSP]
=============================================================================
