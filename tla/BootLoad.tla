------------------------------ MODULE BootLoad ------------------------------
(***************************************************************************)
(* Loading a Linux guest (boot.c, e820.c and the guest page tables of      *)
(* ept.c): what each step puts where in guest memory, up to the point      *)
(* where the vCPU is given its first RIP, RSI and CR3.                     *)
(*                                                                         *)
(* Guest memory is a row of cells and each cell remembers whose bytes it   *)
(* holds.  The layout of loader.h is given by constants, in cells; the     *)
(* steps of relm_boot_load run in order and an error ends the load.        *)
(***************************************************************************)
EXTENDS Integers, Sequences, FiniteSets

CONSTANTS
    Ram,                          \* total_guest_ram
    AddrSpan,                     \* GPAs wrap at this value
    Gdt, Idt, Stubs, Params, Cmdline,  \* one-cell structures of low memory
    VgaBase, Extended,            \* RELM_E820_VGA_RESERVED_BASE .. EXTENDED_BASE
    BiosBase,                     \* RELM_E820_BIOS_ROM_BASE, one cell
    KernelGpa, KernelMax,         \* RELM_KERNEL_LOAD_GPA, RELM_KERNEL_MAX_SIZE
    InitrdGpa, InitrdMax,         \* RELM_INITRD_LOAD_GPA, RELM_INITRD_MAX_SIZE
    Kernels,                      \* images: header accepted or not, size, pref_address
    Initrds                       \* sizes of initrd files; the file may also be missing

Setup == 1     \* cells of an image before the protected-mode kernel
Tables == 1    \* cells of the guest page tables, at the end of RAM

ASSUME LayoutAssumption ==
    /\ {VgaBase, Extended, KernelGpa, KernelMax, InitrdGpa, InitrdMax, Ram, BiosBase, AddrSpan}
           \subseteq Nat
    /\ {Gdt, Idt, Stubs, Params, Cmdline} \subseteq 1 .. VgaBase - 1
    /\ Gdt \notin {Idt, Stubs, Params, Cmdline} /\ Idt \notin {Stubs, Params, Cmdline}
    /\ Stubs \notin {Params, Cmdline} /\ Params # Cmdline
    /\ VgaBase < Extended /\ Extended <= KernelGpa /\ KernelGpa < InitrdGpa
    /\ KernelGpa + KernelMax <= Ram - Tables
    /\ InitrdGpa < Ram - Tables /\ InitrdGpa + InitrdMax <= Ram - Tables
    /\ Ram <= BiosBase /\ BiosBase < AddrSpan
    /\ Kernels \subseteq [good : BOOLEAN, size : Nat, pref : 0 .. AddrSpan - 1]
    /\ Initrds \subseteq Nat \ {0}

VARIABLES
    mem,     \* whose bytes each cell of guest RAM holds
    step,    \* the next step of creation and boot
    image,   \* the kernel image that was loaded
    load,    \* where
    initrd,  \* initrd_size
    params,  \* what boot_params says: initrd address and size, e820 map
    vm       \* pml4_gpa, boot_params_gpa and kernel_entry_gpa, 0 when not set

vars == <<mem, step, image, load, initrd, params, vm>>

Cells == 0 .. Ram - 1
Owners == {"none", "tables", "kernel", "initrd", "cmdline", "params", "gdt", "idt", "stubs"}
Span(a, n) == a .. a + n - 1
NoParams == [ramdisk |-> 0, size |-> 0, e820 |-> <<>>]
E820Type == [from : 0 .. AddrSpan, size : 0 .. AddrSpan, ram : BOOLEAN]

\* Type invariant. Guest memory, boot_params and what the VM was told.
TypeOK ==
    /\ mem \in [Cells -> Owners] /\ image \in Kernels /\ load \in 0 .. AddrSpan - 1
    /\ step \in {"tables", "kernel", "initrd", "cmdline", "params", "idt", "vcpu", "run", "failed"}
    /\ initrd \in 0 .. InitrdMax /\ params.ramdisk \in {0, InitrdGpa}
    /\ params.size \in 0 .. InitrdMax
    /\ params.e820 \in Seq(E820Type)
    /\ vm \in [pml4 : {0, Ram - Tables}, params : {0, Params}, entry : 0 .. AddrSpan - 1]

Init ==
    /\ mem = [c \in Cells |-> "none"] /\ step = "tables"
    /\ image \in Kernels /\ load = 0 /\ initrd = 0 /\ params = NoParams
    /\ vm = [pml4 |-> 0, params |-> 0, entry |-> 0]

----------------------------------------------------------------------------
\* relm_vm_copy_to_guest and relm_vm_zero_guest_memory of a range inside RAM.
Put(m, a, n, owner) == [c \in Cells |-> IF c \in Span(a, n) THEN owner ELSE m[c]]

Then(s) == step' = s

Fail == Then("failed") /\ UNCHANGED <<mem, image, load, initrd, params, vm>>

relm_ept_create_guest_page_tables ==
    /\ step = "tables"
    /\ \/ /\ mem' = Put(mem, Ram - Tables, Tables, "tables")
          /\ vm' = [vm EXCEPT !.pml4 = Ram - Tables]
          /\ Then("kernel") /\ UNCHANGED <<image, load, initrd, params>>
       \/ Fail   \* no memory for the scratch page

\* relm_kernel_load; the sum that is compared with RAM wraps.
relm_kernel_load ==
    LET pm == image.size - Setup
        gpa == IF image.pref # 0 THEN image.pref ELSE KernelGpa
        accepted == /\ image.good /\ image.size > Setup /\ pm <= KernelMax
                    /\ (gpa + pm) % AddrSpan <= Ram
    IN  /\ step = "kernel"
        /\ \/ /\ accepted
              /\ gpa < Ram     \* else relm_vm_copy_to_guest finds no region
              /\ mem' = Put(mem, gpa, pm, "kernel") /\ load' = gpa
              /\ Then("initrd") /\ UNCHANGED <<image, initrd, params, vm>>
           \/ (~accepted \/ gpa >= Ram) /\ Fail
           \/ Fail     \* request_firmware finds no image

\* Mutant: an image that is too large is announced all the same.
relm_initrd_load_Mut ==
    /\ step = "initrd"
    /\ \E n \in Initrds :
        /\ initrd' = n /\ mem' = IF n <= InitrdMax THEN Put(mem, InitrdGpa, n, "initrd") ELSE mem
        /\ Then("cmdline") /\ UNCHANGED <<image, load, params, vm>>

\* relm_initrd_load; without a file the guest boots without one.
relm_initrd_load ==
    /\ step = "initrd"
    /\ \/ initrd' = 0 /\ Then("cmdline") /\ UNCHANGED <<mem, image, load, params, vm>>
       \/ \E n \in Initrds :
            IF n <= InitrdMax /\ InitrdGpa + n <= Ram
            THEN /\ mem' = Put(mem, InitrdGpa, n, "initrd") /\ initrd' = n
                 /\ Then("cmdline") /\ UNCHANGED <<image, load, params, vm>>
            ELSE Fail

relm_cmdline_load ==
    /\ step = "cmdline"
    /\ mem' = Put(mem, Cmdline, 1, "cmdline")
    /\ Then("params") /\ UNCHANGED <<image, load, initrd, params, vm>>

relm_e820_build ==
    << [from |-> 0, size |-> VgaBase, ram |-> TRUE],
       [from |-> VgaBase, size |-> Extended - VgaBase, ram |-> FALSE],
       [from |-> Extended, size |-> Ram - Extended, ram |-> TRUE],
       [from |-> BiosBase, size |-> 1, ram |-> FALSE] >>

\* Mutant: the limit is announced as the size.
relm_boot_params_build_Mut ==
    /\ step = "params"
    /\ mem' = Put(mem, Params, 1, "params")
    /\ params' = [ramdisk |-> InitrdGpa, size |-> InitrdMax, e820 |-> relm_e820_build]
    /\ vm' = [vm EXCEPT !.params = Params]
    /\ Then("idt") /\ UNCHANGED <<image, load, initrd>>

relm_boot_params_build ==
    /\ step = "params"
    /\ mem' = Put(mem, Params, 1, "params")
    /\ params' = [ramdisk |-> IF initrd # 0 THEN InitrdGpa ELSE 0, size |-> initrd,
                  e820 |-> relm_e820_build]
    /\ vm' = [vm EXCEPT !.params = Params]
    /\ Then("idt") /\ UNCHANGED <<image, load, initrd>>

\* relm_install_diag_idt_gdt, and the last line of relm_boot_load.
relm_install_diag_idt_gdt ==
    /\ step = "idt"
    /\ mem' = Put(Put(Put(mem, Gdt, 1, "gdt"), Idt, 1, "idt"), Stubs, 1, "stubs")
    /\ vm' = [vm EXCEPT !.entry = load]
    /\ Then("vcpu") /\ UNCHANGED <<image, load, initrd, params>>

\* relm_setup_guest_state_longmode.
relm_setup_guest_state_longmode ==
    /\ step = "vcpu"
    /\ Then(IF vm.pml4 # 0 /\ vm.entry # 0 /\ vm.params # 0 THEN "run" ELSE "failed")
    /\ UNCHANGED <<mem, image, load, initrd, params, vm>>

Next ==
    \/ relm_ept_create_guest_page_tables \/ relm_kernel_load \/ relm_initrd_load
    \/ relm_cmdline_load \/ relm_boot_params_build \/ relm_install_diag_idt_gdt
    \/ relm_setup_guest_state_longmode

Spec == Init /\ [][Next]_vars

----------------------------------------------------------------------------
(* Properties. *)

KernelCells == Span(load, image.size - Setup)
InitrdCells == IF params.size = 0 THEN {} ELSE Span(params.ramdisk, params.size)
Holds(cells, owner) == \A c \in cells : c \in Cells /\ mem[c] = owner
DefaultLoad == load = KernelGpa

\* A guest that runs finds the structures RSI, CR3, GDTR and IDTR point to,
\* and the initrd boot_params announces, whole and where they are announced,
\* for every image loaded at the default address, however large.
StructuresIntact ==
    step = "run" /\ DefaultLoad =>
        /\ Holds({vm.params}, "params") /\ Holds(Span(vm.pml4, Tables), "tables")
        /\ Holds({Gdt}, "gdt") /\ Holds({Idt}, "idt") /\ Holds({Stubs}, "stubs")
        /\ Holds({Cmdline}, "cmdline")
        /\ Holds(InitrdCells, "initrd") /\ {c \in Cells : mem[c] = "initrd"} = InitrdCells

\* The memory map the guest is given: its RAM entries lie in guest RAM, no
\* two entries overlap, and everything that was loaded at the default
\* addresses lies in a RAM entry, so the guest may use what it was given.
E820Describes ==
    step = "run" /\ DefaultLoad =>
        LET at(k) == Span(params.e820[k].from, params.e820[k].size)
            idx == DOMAIN params.e820
            ram == UNION {at(k) : k \in {j \in idx : params.e820[j].ram}}
        IN  /\ ram \subseteq Cells
            /\ \A j, k \in idx : j # k => at(j) \cap at(k) = {}
            /\ {c \in Cells : mem[c] # "none"} \subseteq ram

\* A guest that starts finds everything it is told about, where it is told.
AnnouncedIsThere == StructuresIntact /\ E820Describes

----------------------------------------------------------------------------
(* Claims of comments and documents that the code does not meet. *)

\* The layout of loader.h:10-18, "protected-mode kernel image" below "initrd
\* image" below "guest page tables": a guest that runs finds every byte of a
\* kernel loaded at the default address in place.
KernelIntact == step = "run" /\ DefaultLoad => Holds(KernelCells, "kernel")

\* "from guest RAM at a high address to avoid conflicts" (ept.c:741-742): the
\* page tables a running guest starts with are those that were built.
TablesIntact == step = "run" => Holds(Span(vm.pml4, Tables), "tables")
=============================================================================
