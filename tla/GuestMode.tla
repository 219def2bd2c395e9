------------------------------ MODULE GuestMode ------------------------------
(***************************************************************************)
(* Control registers and paging mode of the guest: the VMCS fields that    *)
(* vmx_vcpu_init leaves, the writes the processor lets through and the     *)
(* ones it turns into exits, and the exit handlers of vmx.c.               *)
(*                                                                         *)
(* A register is the set of its bits that are 1.  The processor is         *)
(* external: which writes exit, what a write that does not exit changes,   *)
(* and what VM entry checks.  A write that exits does so before the        *)
(* processor looks at its value, so the handlers meet values that it would *)
(* have refused with #GP; they check nothing and carry them out.  The MSR  *)
(* bitmap does not intercept IA32_EFER, so a guest's write of it is one of *)
(* the writes that go through.                                             *)
(***************************************************************************)
EXTENDS Integers, FiniteSets

CONSTANTS
    Cr0Fixed0, Cr0Fixed1,  \* IA32_VMX_CR0_FIXED0 and FIXED1 of the processor
    Cr4Fixed0, Cr4Fixed1

Cr0Bits == {"PE", "PG", "NE", "CD", "NW", "WP", "TS"}
Cr4Bits == {"PAE", "PSE", "VMXE", "PGE"}

ASSUME GuestModeAssumption ==
    /\ {"PE", "PG", "NE"} \subseteq Cr0Fixed1 /\ Cr0Fixed0 \subseteq Cr0Fixed1
    /\ {"PAE", "VMXE"} \subseteq Cr4Fixed1 /\ Cr4Fixed0 \subseteq Cr4Fixed1
    /\ Cr0Fixed1 \subseteq Cr0Bits /\ Cr4Fixed1 \subseteq Cr4Bits
    /\ "PG" \in Cr0Fixed0 => "PE" \in Cr0Fixed0

VARIABLES
    cr0, cr4,        \* GUEST_CR0 and GUEST_CR4
    shadow0, shadow4,\* CR0_READ_SHADOW and CR4_READ_SHADOW
    efer,            \* GUEST_IA32_EFER, of LME and LMA
    ia32e,           \* VM_ENTRY_IA32E_MODE of the entry controls
    written0, written4, \* history: what the guest last wrote to CR0 and CR4
    paged,           \* history: the guest has never turned paging off
    lawful           \* history: no handler has carried out a write the processor refuses

vars == <<cr0, cr4, shadow0, shadow4, efer, ia32e, written0, written4, paged, lawful>>

\* Type invariant. The registers hold bits the processor has, and VMXE is never in the shadow.
TypeOK ==
    /\ cr0 \subseteq Cr0Fixed1 /\ shadow0 \subseteq Cr0Fixed1
    /\ cr4 \subseteq Cr4Fixed1 /\ shadow4 \subseteq Cr4Fixed1 \ {"VMXE"}
    /\ efer \subseteq {"LME", "LMA"} /\ ia32e \in BOOLEAN
    /\ written0 \subseteq Cr0Bits /\ written4 \subseteq Cr4Bits
    /\ paged \in BOOLEAN /\ lawful \in BOOLEAN

----------------------------------------------------------------------------
(* Set-up. *)

Sanitised(v, fixed0, fixed1) == (v \cup fixed0) \cap fixed1

cr0_mask == {"PE", "NE", "CD", "NW"}
cr4_mask == {"PAE", "PSE", "VMXE"}

FirstCr0 == Sanitised({"PG", "PE", "NE", "WP"}, Cr0Fixed0, Cr0Fixed1)
FirstCr4 == Sanitised({"PAE"}, Cr4Fixed0, Cr4Fixed1)

\* relm_setup_cr_controls, then relm_setup_guest_state_longmode.
Init ==
    /\ cr0 = FirstCr0 /\ shadow0 = FirstCr0
    /\ cr4 = FirstCr4 /\ shadow4 = FirstCr4 \ {"VMXE"}
    /\ efer = {"LME", "LMA"} /\ ia32e = TRUE
    /\ written0 = FirstCr0 /\ written4 = FirstCr4 \ {"VMXE"} /\ paged = TRUE /\ lawful = TRUE

----------------------------------------------------------------------------
(* What the guest reads, and the values it may write. *)

Visible(mask, shadow, real) == (shadow \cap mask) \cup (real \ mask)
Exits(v, mask, shadow) == v \cap mask # shadow \cap mask

\* The values the processor does not refuse.
LegalCr0(v) ==
    /\ "PG" \in v => "PE" \in v
    /\ "NW" \in v => "CD" \in v
    /\ "PG" \in v /\ "LME" \in efer => "PAE" \in cr4

LegalCr4(v) == "LMA" \in efer => "PAE" \in v

\* A write that does not exit faults in the guest when VMX operation does not
\* support its result; PE and PG are exempt, the guest is unrestricted.
Supported(v, fixed0, fixed1) == fixed0 \ {"PE", "PG"} \subseteq v /\ v \subseteq fixed1

Written0(v) == written0' = v /\ paged' = (paged /\ "PG" \in v)

\* LMA follows PG when LME is set, and the entry control follows LMA.
SetPaging(pg) ==
    LET lma == pg /\ "LME" \in efer
    IN  /\ efer' = IF lma THEN efer \cup {"LMA"} ELSE efer \ {"LMA"}
        /\ ia32e' = lma

\* The checks of VM entry; PE and PG are exempt from the fixed bits.  When one
\* fails handle_invalid_guest_state ends the vCPU.
EntryAccepts ==
    /\ Cr0Fixed0 \ {"PE", "PG"} \subseteq cr0 /\ cr0 \subseteq Cr0Fixed1
    /\ Cr4Fixed0 \subseteq cr4 /\ cr4 \subseteq Cr4Fixed1
    /\ "PG" \in cr0 => "PE" \in cr0
    /\ ia32e => "PG" \in cr0 /\ "PAE" \in cr4
    /\ ia32e <=> "LMA" \in efer
    /\ "PG" \in cr0 => ("LMA" \in efer <=> "LME" \in efer)

----------------------------------------------------------------------------
(* Writes that do not exit. *)

DirectCr0(v) ==
    /\ LegalCr0(v) /\ ~Exits(v, cr0_mask, shadow0)
    /\ cr0' = (v \ cr0_mask) \cup (cr0 \cap cr0_mask)
    /\ Supported(cr0', Cr0Fixed0, Cr0Fixed1)
    /\ SetPaging("PG" \in v)
    /\ Written0(v)
    /\ UNCHANGED <<cr4, shadow0, shadow4, written4, lawful>>

DirectCr4(v) ==
    /\ LegalCr4(v) /\ ~Exits(v, cr4_mask, shadow4)
    /\ cr4' = (v \ cr4_mask) \cup (cr4 \cap cr4_mask)
    /\ Supported(cr4', Cr4Fixed0, Cr4Fixed1)
    /\ written4' = v
    /\ UNCHANGED <<cr0, shadow0, shadow4, efer, ia32e, written0, paged, lawful>>

\* LME may change only while paging is off.
DirectEfer(v) ==
    /\ "PG" \notin cr0
    /\ efer' = v
    /\ UNCHANGED <<cr0, cr4, shadow0, shadow4, ia32e, written0, written4, paged, lawful>>

----------------------------------------------------------------------------
(* Writes that exit. *)

\* Mutant: the bits VMX wants at 1 are not forced.
relm_cr0_write_handle_exit_Mut(v) ==
    /\ Exits(v, cr0_mask, shadow0)
    /\ cr0' = v \cap Cr0Fixed1
    /\ shadow0' = cr0'
    /\ Written0(v) /\ lawful' = (lawful /\ LegalCr0(v))
    /\ UNCHANGED <<cr4, shadow4, efer, ia32e, written4>>

\* Mutant: the read shadow is not written.
relm_cr0_write_handle_exit_MutShadow(v) ==
    /\ Exits(v, cr0_mask, shadow0)
    /\ cr0' = Sanitised(v, Cr0Fixed0, Cr0Fixed1)
    /\ Written0(v) /\ lawful' = (lawful /\ LegalCr0(v))
    /\ UNCHANGED <<cr4, shadow0, shadow4, efer, ia32e, written4>>

\* EFER and the entry controls are left as the exit saved them.
relm_cr0_write_handle_exit(v) ==
    /\ Exits(v, cr0_mask, shadow0)
    /\ cr0' = Sanitised(v, Cr0Fixed0, Cr0Fixed1)
    /\ shadow0' = cr0'
    /\ Written0(v) /\ lawful' = (lawful /\ LegalCr0(v))
    /\ UNCHANGED <<cr4, shadow4, efer, ia32e, written4>>

\* Mutant: the shadow gets the value with VMXE.
relm_cr4_write_handle_exit_Mut(v) ==
    /\ Exits(v, cr4_mask, shadow4)
    /\ cr4' = Sanitised(v, Cr4Fixed0, Cr4Fixed1)
    /\ shadow4' = cr4'
    /\ written4' = v /\ lawful' = (lawful /\ LegalCr4(v))
    /\ UNCHANGED <<cr0, shadow0, efer, ia32e, written0, paged>>

relm_cr4_write_handle_exit(v) ==
    /\ Exits(v, cr4_mask, shadow4)
    /\ cr4' = Sanitised(v, Cr4Fixed0, Cr4Fixed1)
    /\ shadow4' = cr4' \ {"VMXE"}
    /\ written4' = v /\ lawful' = (lawful /\ LegalCr4(v))
    /\ UNCHANGED <<cr0, shadow0, efer, ia32e, written0, paged>>

\* The guest runs when the last entry was accepted.
Next ==
    /\ EntryAccepts
    /\ \/ \E v \in SUBSET Cr0Bits : DirectCr0(v) \/ relm_cr0_write_handle_exit(v)
       \/ \E v \in SUBSET Cr4Bits : DirectCr4(v) \/ relm_cr4_write_handle_exit(v)
       \/ \E v \in SUBSET {"LME"} : DirectEfer(v)

Spec == Init /\ [][Next]_vars

----------------------------------------------------------------------------
(* Properties. *)

\* Whatever the guest writes, also values the processor would have refused,
\* the bits VMX fixes are held through the handlers' "(requested | fixed0) &
\* fixed1" and through the writes that do not exit.  A guest that has stayed in
\* long mode and whose writes were all ones the processor allows is accepted by
\* the next VM entry: its mode bits, kept in four fields that the handlers and
\* the processor change separately, still agree.
EntryLegal ==
    /\ Cr0Fixed0 \ {"PE", "PG"} \subseteq cr0 /\ Cr4Fixed0 \subseteq cr4
    /\ cr0 \subseteq Cr0Fixed1 /\ cr4 \subseteq Cr4Fixed1
    /\ lawful /\ paged => EntryAccepts

\* A guest that stays in long mode reads back from CR0 what it wrote, apart
\* from the bits VMX holds at 1, over any mix of writes that exit and writes that do not.
Cr0ReadsBack ==
    paged => Visible(cr0_mask, shadow0, cr0) = Sanitised(written0, Cr0Fixed0, Cr0Fixed1)

\* The same for CR4, in which the guest never sees VMXE although it is set.
Cr4ReadsBack ==
    Visible(cr4_mask, shadow4, cr4) = Sanitised(written4, Cr4Fixed0, Cr4Fixed1) \ {"VMXE"}

\* Neither the exit handlers nor the split between bits that exit and bits
\* that do not ever show the guest a value it did not write.
ReadsBack == Cr0ReadsBack /\ Cr4ReadsBack

----------------------------------------------------------------------------
(* Claims of comments and documents that the code does not meet. *)

\* vmx.c:2105 "this must write back the FULL requested value's real-register
\* bits ourselves - both the trapped bits and the passthrough ones (PG, WP".
PassthroughKept ==
    [][\A v \in SUBSET Cr0Bits : relm_cr0_write_handle_exit(v) =>
         cr0' \ cr0_mask = (v \cap Cr0Fixed1) \ cr0_mask]_vars

\* vmexit.c:116 "an exit we can't emulate correctly cannot be silently resumed".
\* A write that the processor refuses with #GP is carried out and the guest
\* resumed behind it, or, when it clears PAE in long mode, refused at VM entry.
RefusedNotResumed == lawful
=============================================================================
