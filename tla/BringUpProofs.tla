---------------------------- MODULE BringUpProofs ----------------------------
(***************************************************************************)
(* Proofs of the two ways to put something to run into guest memory, for   *)
(* any layout that satisfies loader.h, any images and any items: the Linux *)
(* loader (BootLoad) and the items of the firmware (Firmware); and of the  *)
(* types of everything before a guest runs.                                *)
(***************************************************************************)
EXTENDS MCBringUp, VmLifetimeProofs

----------------------------------------------------------------------------
(* The Linux loader. *)

\* The steps after each structure is in place.
AfterTables == {"kernel", "initrd", "cmdline", "params", "idt", "vcpu", "run"}
AfterInitrd == {"cmdline", "params", "idt", "vcpu", "run"}
AfterCmdline == {"params", "idt", "vcpu", "run"}
AfterParams == {"idt", "vcpu", "run"}
AfterIdt == {"vcpu", "run"}

\* The kernel is, or can still be, at the default address.
AtDefault == step \in {"tables", "kernel"} \/ (step # "failed" /\ DefaultLoad)

\* What the VM and boot_params have been told.
Told ==
    /\ step \in AfterTables => vm.pml4 = Ram - Tables
    /\ step \in AfterParams =>
        /\ vm.params = Params
        /\ params = [ramdisk |-> IF initrd # 0 THEN InitrdGpa ELSE 0, size |-> initrd,
                     e820 |-> relm_e820_build]
    /\ step \notin AfterInitrd \cup {"failed"} => initrd = 0

\* Where the bytes are: nothing between the low structures and extended memory,
\* the initrd in its range and nowhere else, and each structure in its cell.
Placed ==
    /\ \A c \in Cells : mem[c] # "none" => c < VgaBase \/ c >= Extended
    /\ \A c \in Cells : mem[c] = "initrd" <=> c \in Span(InitrdGpa, initrd)
    /\ step \in AfterTables => mem[Ram - Tables] = "tables"
    /\ step \in AfterCmdline => mem[Cmdline] = "cmdline"
    /\ step \in AfterParams => mem[Params] = "params"
    /\ step \in AfterIdt => mem[Gdt] = "gdt" /\ mem[Idt] = "idt" /\ mem[Stubs] = "stubs"

BootInv == TypeOK /\ Told /\ (AtDefault => Placed)

\* The layout in numbers.
LEMMA LayoutFacts ==
    /\ VgaBase \in Nat /\ Extended \in Nat /\ KernelGpa \in Nat /\ KernelMax \in Nat
    /\ InitrdGpa \in Nat /\ InitrdMax \in Nat /\ Ram \in Nat /\ BiosBase \in Nat /\ AddrSpan \in Nat
    /\ Gdt \in Nat /\ Idt \in Nat /\ Stubs \in Nat /\ Params \in Nat /\ Cmdline \in Nat
    /\ 0 < Gdt /\ 0 < Idt /\ 0 < Stubs /\ 0 < Params /\ 0 < Cmdline
    /\ Gdt < VgaBase /\ Idt < VgaBase /\ Stubs < VgaBase /\ Params < VgaBase /\ Cmdline < VgaBase
    /\ VgaBase < Extended /\ Extended <= KernelGpa /\ KernelGpa < InitrdGpa
    /\ KernelGpa + KernelMax <= Ram - 1 /\ InitrdGpa + InitrdMax <= Ram - 1 /\ InitrdGpa < Ram - 1
    /\ Ram <= BiosBase /\ BiosBase < AddrSpan /\ Tables = 1 /\ Setup = 1
  BY LayoutAssumption DEF Tables, Setup

LEMMA OneIsNat == 1 \in Nat
  BY Zenon

LEMMA LowCellsDistinct ==
    /\ Gdt # Idt /\ Gdt # Stubs /\ Gdt # Params /\ Gdt # Cmdline /\ Idt # Stubs /\ Idt # Params
    /\ Idt # Cmdline /\ Stubs # Params /\ Stubs # Cmdline /\ Params # Cmdline
  BY Zenon, LayoutAssumption

\* An image accepted at address a leaves cells of RAM behind a.
LEMMA ImageFacts ==
    ASSUME TypeOK
    PROVE  image.size \in Nat /\ image.pref \in Nat /\ image.pref < AddrSpan
<1>1. image \in [good : BOOLEAN, size : Nat, pref : 0 .. AddrSpan - 1]
  BY Zenon, LayoutAssumption DEF TypeOK
<1> QED
  BY <1>1, LayoutFacts

\* Putting something changes the cells of its range and no other.
LEMMA PutFacts ==
    ASSUME NEW m \in [Cells -> Owners], NEW a \in Nat, NEW n \in Nat, NEW owner \in Owners
    PROVE  /\ Put(m, a, n, owner) \in [Cells -> Owners]
           /\ \A c \in Cells : Put(m, a, n, owner)[c] = IF a <= c /\ c < a + n THEN owner ELSE m[c]
<1>1. \A c \in Cells : c \in Int
  BY LayoutFacts DEF Cells
<1>2. \A c \in Cells : c \in Span(a, n) <=> a <= c /\ c < a + n
  BY <1>1 DEF Span
<1> QED
  BY Zenon, <1>2 DEF Put

LEMMA BootInit == Init => BootInv
<1> SUFFICES ASSUME Init PROVE BootInv
  BY Zenon
<1>1. TypeOK
  BY LayoutFacts DEF Init, TypeOK, NoParams, Owners
<1>2. Told
  BY Zenon DEF Init, Told, AfterTables, AfterParams
<1>3. Placed
  BY LayoutFacts DEF Init, Placed, AfterTables, AfterCmdline, AfterParams, AfterIdt, Span
<1> QED
  BY Zenon, <1>1, <1>2, <1>3 DEF BootInv

\* The memory map lies in the address space.
LEMMA MapTyped == relm_e820_build \in Seq(E820Type)
<1>1. /\ [from |-> 0, size |-> VgaBase, ram |-> TRUE] \in E820Type
      /\ [from |-> VgaBase, size |-> Extended - VgaBase, ram |-> FALSE] \in E820Type
      /\ [from |-> Extended, size |-> Ram - Extended, ram |-> TRUE] \in E820Type
      /\ [from |-> BiosBase, size |-> 1, ram |-> FALSE] \in E820Type
  BY LayoutFacts DEF E820Type
<1> HIDE DEF E820Type
<1> QED
  BY <1>1 DEF relm_e820_build

\* What the invariant says of the memory and the step, in numbers.
LEMMA BootFacts ==
    ASSUME BootInv
    PROVE  /\ mem \in [Cells -> Owners] /\ initrd \in Nat /\ initrd <= InitrdMax /\ load \in Nat
           /\ \A c \in Cells : c \in Nat /\ c < Ram
           /\ \A c \in Nat : c < Ram => c \in Cells
           /\ \A n \in Nat : \A c \in Cells :
                  c \in Span(InitrdGpa, n) <=> InitrdGpa <= c /\ c < InitrdGpa + n
<1>1. mem \in [Cells -> Owners]
  BY Zenon DEF BootInv, TypeOK
<1>2. initrd \in 0 .. InitrdMax /\ load \in 0 .. AddrSpan - 1
  BY Zenon DEF BootInv, TypeOK
<1>3. /\ \A c \in Cells : c \in Nat /\ c < Ram
      /\ \A c \in Nat : c < Ram => c \in Cells
  BY LayoutFacts DEF Cells
<1>4. \A n \in Nat : \A c \in Cells :
          c \in Span(InitrdGpa, n) <=> InitrdGpa <= c /\ c < InitrdGpa + n
  BY LayoutFacts, <1>3 DEF Span
<1> QED
  BY <1>1, <1>2, <1>3, <1>4, LayoutFacts

LEMMA FailStep == ASSUME BootInv, Fail PROVE BootInv'
<1>1. TypeOK'
  BY Zenon DEF BootInv, Fail, Then, TypeOK, Cells, Owners
<1>2. Told' /\ ~AtDefault'
  BY Zenon DEF Fail, Then, Told, AtDefault, AfterTables, AfterParams, AfterInitrd
<1> QED
  BY Zenon, <1>1, <1>2 DEF BootInv

LEMMA TablesStep == ASSUME BootInv, relm_ept_create_guest_page_tables PROVE BootInv'
<1>1. CASE Fail
  BY Zenon, <1>1, FailStep
<1>2. CASE /\ mem' = Put(mem, Ram - Tables, Tables, "tables")
           /\ vm' = [vm EXCEPT !.pml4 = Ram - Tables]
           /\ Then("kernel") /\ UNCHANGED <<image, load, initrd, params>>
  <2>0. step = "tables" /\ step' = "kernel"
    BY Zenon, <1>2 DEF relm_ept_create_guest_page_tables, Then
  <2>1. Placed /\ initrd = 0
    BY Zenon, <2>0 DEF BootInv, AtDefault, Told, AfterInitrd
  <2>2. /\ mem' \in [Cells -> Owners]
        /\ \A c \in Cells : mem'[c] = IF Ram - 1 <= c /\ c < Ram THEN "tables" ELSE mem[c]
    <3>1. mem \in [Cells -> Owners] /\ "tables" \in Owners
      BY Zenon, BootFacts DEF Owners
    <3>2. Ram - 1 \in Nat /\ mem' = Put(mem, Ram - 1, 1, "tables")
      BY <1>2, LayoutFacts
    <3>3. 1 \in Nat /\ Ram - 1 + 1 = Ram
      BY LayoutFacts
    <3>4. /\ mem' \in [Cells -> Owners]
          /\ \A c \in Cells :
                 mem'[c] = IF Ram - 1 <= c /\ c < Ram - 1 + 1 THEN "tables" ELSE mem[c]
      BY Zenon, <3>1, <3>2, <3>3, PutFacts
    <3> QED
      BY Zenon, <3>3, <3>4
  <2>3. TypeOK'
    BY Zenon, <1>2, <2>0, <2>2 DEF BootInv, TypeOK, Cells
  <2>4. Told'
    BY Zenon, <1>2, <2>0, <2>1 DEF BootInv, TypeOK, Told, AfterTables, AfterParams, AfterInitrd
  <2>5. Placed'
    BY <1>2, <2>0, <2>1, <2>2, BootFacts, LayoutFacts
       DEF Placed, AfterTables, AfterParams, AfterIdt, AfterCmdline
  <2> QED
    BY Zenon, <2>3, <2>4, <2>5 DEF BootInv
<1> QED
  BY Zenon, <1>1, <1>2 DEF relm_ept_create_guest_page_tables

LEMMA KernelStep == ASSUME BootInv, relm_kernel_load PROVE BootInv'
<1> DEFINE pm == image.size - Setup
           to == IF image.pref # 0 THEN image.pref ELSE KernelGpa
<1>0. step = "kernel"
  BY Zenon DEF relm_kernel_load
<1>1. CASE Fail
  BY Zenon, <1>1, FailStep
<1>2. CASE /\ image.size > Setup /\ pm <= KernelMax /\ to < Ram
           /\ mem' = Put(mem, to, pm, "kernel") /\ load' = to
           /\ Then("initrd") /\ UNCHANGED <<image, initrd, params, vm>>
  <2>0. step' = "initrd" /\ Placed /\ initrd = 0
    BY Zenon, <1>0, <1>2 DEF BootInv, AtDefault, Told, AfterInitrd, Then
  <2>1. to \in Nat /\ to < AddrSpan /\ pm \in Nat
    BY <1>2, ImageFacts, LayoutFacts DEF BootInv
  <2> HIDE DEF to, pm
  <2>2. /\ mem' \in [Cells -> Owners]
        /\ \A c \in Cells : mem'[c] = IF to <= c /\ c < to + pm THEN "kernel" ELSE mem[c]
    <3>1. mem \in [Cells -> Owners] /\ "kernel" \in Owners
      BY Zenon, BootFacts DEF Owners
    <3> QED
      BY ZenonT(30), <1>2, <2>1, <3>1, PutFacts
  <2>3. TypeOK'
    BY <1>2, <2>0, <2>1, <2>2, LayoutFacts DEF BootInv, TypeOK, Cells
  <2>4. Told'
    BY Zenon, <1>0, <1>2, <2>0 DEF BootInv, Told, AfterTables, AfterParams, AfterInitrd
  <2>5. ASSUME AtDefault' PROVE Placed'
    <3>1. to = KernelGpa
      BY Zenon, <1>2, <2>0, <2>5 DEF AtDefault, DefaultLoad
    <3>2. \A c \in Cells : mem'[c] = IF KernelGpa <= c /\ c < KernelGpa + pm THEN "kernel" ELSE mem[c]
      BY Zenon, <2>2, <3>1
    <3>3. mem[Ram - Tables] = "tables" /\ pm <= KernelMax
      BY Zenon, <1>0, <1>2, <2>0 DEF Placed, AfterTables
    <3> QED
      BY <1>2, <2>0, <2>1, <3>2, <3>3, BootFacts, LayoutFacts
         DEF Placed, AfterTables, AfterParams, AfterIdt, AfterCmdline
  <2> QED
    BY Zenon, <2>3, <2>4, <2>5 DEF BootInv
<1> QED
  BY Zenon, <1>1, <1>2 DEF relm_kernel_load

LEMMA InitrdStep == ASSUME BootInv, relm_initrd_load PROVE BootInv'
<1>0. step = "initrd"
  BY Zenon DEF relm_initrd_load
<1>1. CASE Fail
  BY Zenon, <1>1, FailStep
<1>2. CASE initrd' = 0 /\ Then("cmdline") /\ UNCHANGED <<mem, image, load, params, vm>>
  <2>0. step' = "cmdline" /\ initrd = 0 /\ initrd' = initrd
    BY Zenon, <1>0, <1>2 DEF BootInv, Told, AfterInitrd, Then
  <2>1. TypeOK' /\ Told'
    BY Zenon, <1>0, <1>2, <2>0 DEF BootInv, TypeOK, Told, AfterTables, AfterParams, AfterInitrd, Cells, Owners
  <2>2. AtDefault' => AtDefault
    BY Zenon, <1>0, <1>2, <2>0 DEF AtDefault, DefaultLoad
  <2>3. Placed => Placed'
    BY Zenon, <1>0, <1>2, <2>0 DEF Placed, AfterTables, AfterParams, AfterIdt, AfterCmdline
  <2> QED
    BY Zenon, <2>1, <2>2, <2>3 DEF BootInv
<1>3. ASSUME NEW n \in Initrds, n <= InitrdMax, mem' = Put(mem, InitrdGpa, n, "initrd"),
             initrd' = n, Then("cmdline"), UNCHANGED <<image, load, params, vm>>
      PROVE  BootInv'
  <2>0. step' = "cmdline" /\ initrd = 0 /\ n \in Nat
    BY Zenon, <1>0, <1>3, LayoutAssumption DEF BootInv, Told, AfterInitrd, Then
  <2>1. /\ mem' \in [Cells -> Owners]
        /\ \A c \in Cells :
               mem'[c] = IF InitrdGpa <= c /\ c < InitrdGpa + n THEN "initrd" ELSE mem[c]
    <3>1. mem \in [Cells -> Owners] /\ "initrd" \in Owners
      BY Zenon, BootFacts DEF Owners
    <3> QED
      BY <1>3, <2>0, <3>1, PutFacts, LayoutFacts
  <2>2. TypeOK'
    BY <1>3, <2>0, <2>1, LayoutFacts DEF BootInv, TypeOK, Cells
  <2>3. Told'
    BY Zenon, <1>0, <1>3, <2>0 DEF BootInv, Told, AfterTables, AfterParams, AfterInitrd
  <2>4. AtDefault' => AtDefault
    BY Zenon, <1>0, <1>3, <2>0 DEF AtDefault, DefaultLoad
  <2>5. ASSUME Placed PROVE Placed'
    <3>1. mem[Ram - Tables] = "tables" /\ \A c \in Cells : mem[c] # "initrd"
      BY <1>0, <2>0, <2>5, BootFacts, LayoutFacts DEF Placed, AfterTables
    <3>2. \A c \in Cells : mem'[c] # "none" => c < VgaBase \/ c >= Extended
      BY <2>0, <2>1, <2>5, BootFacts, LayoutFacts DEF Placed
    <3>3. \A c \in Cells : mem'[c] = "initrd" <=> c \in Span(InitrdGpa, initrd')
      BY Zenon, <1>3, <2>0, <2>1, <3>1, BootFacts
    <3>4. mem'[Ram - Tables] = "tables"
      BY <1>3, <2>0, <2>1, <3>1, BootFacts, LayoutFacts
    <3> QED
      BY Zenon, <2>0, <3>2, <3>3, <3>4 DEF Placed, AfterTables, AfterParams, AfterIdt, AfterCmdline, Tables
  <2> QED
    BY Zenon, <2>2, <2>3, <2>4, <2>5 DEF BootInv
<1> QED
  BY Zenon, <1>1, <1>2, <1>3 DEF relm_initrd_load

\* m2 is m with the low cell a given to "owner".
OneCell(m, m2, a, owner) ==
    /\ m2 \in [Cells -> Owners] /\ a \in Cells /\ m2[a] = owner
    /\ \A c \in Cells : c # a => m2[c] = m[c]

LowCells == {Gdt, Idt, Stubs, Params, Cmdline}
Memories == [Cells -> Owners]

\* Putting a structure into one low cell disturbs nothing but that cell.
LEMMA LowPut ==
    \A m \in Memories, a \in LowCells, owner \in Owners : OneCell(m, Put(m, a, 1, owner), a, owner)
<1> SUFFICES ASSUME NEW m \in [Cells -> Owners], NEW a \in LowCells, NEW owner \in Owners
             PROVE  OneCell(m, Put(m, a, 1, owner), a, owner)
  BY Zenon DEF Memories
<1>1. a \in Nat /\ a \in Cells /\ Cells \subseteq Nat
  BY LayoutFacts DEF Cells, LowCells
<1>2. \A c \in Cells : Put(m, a, 1, owner)[c] = IF a <= c /\ c < a + 1 THEN owner ELSE m[c]
  BY Zenon, <1>1, OneIsNat, PutFacts
<1>3. \A c \in Cells : (a <= c /\ c < a + 1) <=> c = a
  BY <1>1
<1>4. Put(m, a, 1, owner) \in [Cells -> Owners]
  BY Zenon, PutFacts, <1>1, OneIsNat
<1> QED
  BY Zenon, <1>1, <1>2, <1>3, <1>4 DEF OneCell

LEMMA LowKeeps ==
    ASSUME BootInv, Placed, NEW a \in Cells, a < VgaBase, NEW m,
           \A c \in Cells : c # a => m[c] = mem[c], m[a] # "initrd", m[a] # "none"
    PROVE  /\ \A c \in Cells : m[c] # "none" => c < VgaBase \/ c >= Extended
           /\ \A c \in Cells : m[c] = "initrd" <=> c \in Span(InitrdGpa, initrd)
<1>1. a \in Nat /\ a \notin Span(InitrdGpa, initrd)
  BY BootFacts, LayoutFacts
<1> QED
  BY Zenon, <1>1 DEF Placed

LEMMA CmdlineStep == ASSUME BootInv, relm_cmdline_load PROVE BootInv'
<1>0. /\ step = "cmdline" /\ step' = "params" /\ mem' = Put(mem, Cmdline, 1, "cmdline")
      /\ UNCHANGED <<image, load, initrd, params, vm>>
  BY Zenon DEF relm_cmdline_load, Then
<1>1. /\ mem' \in [Cells -> Owners] /\ Cmdline \in Cells /\ mem'[Cmdline] = "cmdline"
      /\ \A c \in Cells : c # Cmdline => mem'[c] = mem[c]
  <2>1. mem \in Memories /\ "cmdline" \in Owners /\ Cmdline \in LowCells
    BY Zenon, BootFacts DEF Owners, LowCells, Memories
  <2>2. OneCell(mem, mem', Cmdline, "cmdline")
    BY Zenon, <1>0, <2>1, LowPut
  <2> QED
    BY Zenon, <2>2 DEF OneCell
<1>2. TypeOK'
  BY Zenon, <1>0, <1>1 DEF BootInv, TypeOK, Cells
<1>3. Told'
  BY Zenon, <1>0 DEF BootInv, Told, AfterTables, AfterParams, AfterInitrd
<1>4. AtDefault' => AtDefault
  BY Zenon, <1>0 DEF AtDefault, DefaultLoad
<1>5. ASSUME Placed PROVE Placed'
  <2>1. /\ \A c \in Cells : mem'[c] # "none" => c < VgaBase \/ c >= Extended
        /\ \A c \in Cells : mem'[c] = "initrd" <=> c \in Span(InitrdGpa, initrd)
    BY Zenon, <1>1, <1>5, LowKeeps, LayoutFacts
  <2>2. mem'[Ram - Tables] = "tables"
    BY SMTT(30), <1>0, <1>1, <1>5, BootFacts, LayoutFacts DEF Placed, AfterTables
  <2> QED
    BY Zenon, <1>0, <1>1, <2>1, <2>2 DEF Placed, AfterTables, AfterParams, AfterIdt, AfterCmdline, Tables
<1> QED
  BY Zenon, <1>2, <1>3, <1>4, <1>5 DEF BootInv

LEMMA ParamsStep == ASSUME BootInv, relm_boot_params_build PROVE BootInv'
<1>0. /\ step = "params" /\ step' = "idt" /\ mem' = Put(mem, Params, 1, "params")
      /\ params' = [ramdisk |-> IF initrd # 0 THEN InitrdGpa ELSE 0, size |-> initrd,
                    e820 |-> relm_e820_build]
      /\ vm' = [vm EXCEPT !.params = Params] /\ UNCHANGED <<image, load, initrd>>
  BY Zenon DEF relm_boot_params_build, Then
<1>1. /\ mem' \in [Cells -> Owners] /\ Params \in Cells /\ mem'[Params] = "params"
      /\ \A c \in Cells : c # Params => mem'[c] = mem[c]
  <2>1. mem \in Memories /\ "params" \in Owners /\ Params \in LowCells
    BY Zenon, BootFacts DEF Owners, LowCells, Memories
  <2>2. OneCell(mem, mem', Params, "params")
    BY Zenon, <1>0, <2>1, LowPut
  <2> QED
    BY Zenon, <2>2 DEF OneCell
<1>2. TypeOK'
  <2>1. vm' \in [pml4 : {0, Ram - Tables}, params : {0, Params}, entry : 0 .. AddrSpan - 1]
    BY Zenon, <1>0 DEF BootInv, TypeOK
  <2>2. params'.ramdisk \in {0, InitrdGpa} /\ params'.size = initrd /\ params'.e820 = relm_e820_build
    BY Zenon, <1>0
  <2> QED
    BY Zenon, <1>0, <1>1, <2>1, <2>2, MapTyped DEF BootInv, TypeOK, Cells
<1>3. Told'
  <2>1. vm'.params = Params /\ vm'.pml4 = vm.pml4 /\ vm.pml4 = Ram - Tables
    BY Zenon, <1>0 DEF BootInv, TypeOK, Told, AfterTables
  <2> QED
    BY Zenon, <1>0, <2>1 DEF Told, AfterTables, AfterParams, AfterInitrd, relm_e820_build
<1>4. AtDefault' => AtDefault
  BY Zenon, <1>0 DEF AtDefault, DefaultLoad
<1>5. ASSUME Placed PROVE Placed'
  <2>1. /\ \A c \in Cells : mem'[c] # "none" => c < VgaBase \/ c >= Extended
        /\ \A c \in Cells : mem'[c] = "initrd" <=> c \in Span(InitrdGpa, initrd)
    BY Zenon, <1>1, <1>5, LowKeeps, LayoutFacts
  <2>2. mem'[Ram - Tables] = "tables" /\ mem'[Cmdline] = "cmdline"
    BY SMTT(30), <1>0, <1>1, <1>5, BootFacts, LayoutFacts, LowCellsDistinct DEF Placed, AfterTables, AfterCmdline
  <2> QED
    BY Zenon, <1>0, <1>1, <2>1, <2>2 DEF Placed, AfterTables, AfterParams, AfterIdt, AfterCmdline, Tables
<1> QED
  BY Zenon, <1>2, <1>3, <1>4, <1>5 DEF BootInv

LEMMA IdtStep == ASSUME BootInv, relm_install_diag_idt_gdt PROVE BootInv'
<1> DEFINE m1 == Put(mem, Gdt, 1, "gdt")
           m2 == Put(m1, Idt, 1, "idt")
<1>0. /\ step = "idt" /\ step' = "vcpu" /\ mem' = Put(m2, Stubs, 1, "stubs")
      /\ vm' = [vm EXCEPT !.entry = load] /\ UNCHANGED <<image, load, initrd, params>>
  BY Zenon DEF relm_install_diag_idt_gdt, Then
<1>o. /\ mem \in Memories /\ "gdt" \in Owners /\ "idt" \in Owners /\ "stubs" \in Owners
      /\ Gdt \in LowCells /\ Idt \in LowCells /\ Stubs \in LowCells
  BY Zenon, BootFacts DEF Owners, LowCells, Memories
<1>a. /\ m1 \in [Cells -> Owners] /\ Gdt \in Cells /\ m1[Gdt] = "gdt"
      /\ \A c \in Cells : c # Gdt => m1[c] = mem[c]
  <2>0. mem \in Memories
    BY Zenon, <1>o DEF Memories
  <2>1. OneCell(mem, m1, Gdt, "gdt")
    BY Zenon, <1>o, <2>0, LowPut
  <2> QED
    BY Zenon, <2>1 DEF OneCell
<1> HIDE DEF m1
<1>b. /\ m2 \in [Cells -> Owners] /\ Idt \in Cells /\ m2[Idt] = "idt"
      /\ \A c \in Cells : c # Idt => m2[c] = m1[c]
  <2>0. m1 \in Memories
    BY Zenon, <1>a, <1>o DEF Memories
  <2>1. OneCell(m1, m2, Idt, "idt")
    BY Zenon, <1>o, <2>0, LowPut
  <2> QED
    BY Zenon, <2>1 DEF OneCell
<1> HIDE DEF m2
<1>c. /\ mem' \in [Cells -> Owners] /\ Stubs \in Cells /\ mem'[Stubs] = "stubs"
      /\ \A c \in Cells : c # Stubs => mem'[c] = m2[c]
  <2>0. m2 \in Memories
    BY Zenon, <1>0, <1>b, <1>o DEF Memories
  <2>1. OneCell(m2, mem', Stubs, "stubs")
    BY Zenon, <1>0, <1>o, <2>0, LowPut
  <2> QED
    BY Zenon, <2>1 DEF OneCell
<1>1. /\ mem'[Gdt] = "gdt" /\ mem'[Idt] = "idt" /\ mem'[Stubs] = "stubs"
      /\ \A c \in Cells : c \notin {Gdt, Idt, Stubs} => mem'[c] = mem[c]
  BY Zenon, <1>a, <1>b, <1>c, LowCellsDistinct
<1>2. TypeOK'
  <2>1. vm' \in [pml4 : {0, Ram - Tables}, params : {0, Params}, entry : 0 .. AddrSpan - 1]
    BY Zenon, <1>0 DEF BootInv, TypeOK
  <2> QED
    BY Zenon, <1>0, <1>c, <2>1 DEF BootInv, TypeOK, Cells
<1>3. Told'
  <2>1. vm'.params = vm.params /\ vm'.pml4 = vm.pml4
    BY Zenon, <1>0 DEF BootInv, TypeOK
  <2> QED
    BY Zenon, <1>0, <2>1 DEF BootInv, Told, AfterTables, AfterParams, AfterInitrd
<1>4. AtDefault' => AtDefault
  BY Zenon, <1>0 DEF AtDefault, DefaultLoad
<1>5. ASSUME Placed PROVE Placed'
  <2>0. \A c \in {Gdt, Idt, Stubs} : c \in Nat /\ c < VgaBase /\ c \notin Span(InitrdGpa, initrd)
    BY <1>a, <1>b, <1>c, BootFacts, LayoutFacts
  <2>1. /\ \A c \in Cells : mem'[c] # "none" => c < VgaBase \/ c >= Extended
        /\ \A c \in Cells : mem'[c] = "initrd" <=> c \in Span(InitrdGpa, initrd)
    BY Zenon, <1>1, <1>5, <2>0, <1>o DEF Placed
  <2>2. mem'[Ram - Tables] = "tables" /\ mem'[Cmdline] = "cmdline" /\ mem'[Params] = "params"
    BY <1>0, <1>1, <1>5, BootFacts, LayoutFacts, LowCellsDistinct
       DEF Placed, AfterTables, AfterCmdline, AfterParams
  <2> QED
    BY Zenon, <1>0, <1>1, <2>1, <2>2 DEF Placed, AfterTables, AfterParams, AfterIdt, AfterCmdline, Tables
<1> QED
  BY Zenon, <1>2, <1>3, <1>4, <1>5 DEF BootInv

LEMMA VcpuStep == ASSUME BootInv, relm_setup_guest_state_longmode PROVE BootInv'
<1>0. /\ step = "vcpu" /\ step' \in {"run", "failed"}
      /\ UNCHANGED <<mem, image, load, initrd, params, vm>>
  BY Zenon DEF relm_setup_guest_state_longmode, Then
<1>1. CASE step' = "failed"
  BY Zenon, <1>0, <1>1, FailStep DEF Fail, Then
<1>2. CASE step' = "run"
  <2>1. TypeOK'
    BY Zenon, <1>0, <1>2 DEF BootInv, TypeOK, Cells, Owners
  <2>2. Told'
    BY Zenon, <1>0, <1>2 DEF BootInv, Told, AfterTables, AfterParams, AfterInitrd
  <2>3. AtDefault' => AtDefault
    BY Zenon, <1>0, <1>2 DEF AtDefault, DefaultLoad
  <2>4. Placed => Placed'
    <3>1. /\ mem' = mem /\ initrd' = initrd /\ step \in AfterTables /\ step \in AfterCmdline
          /\ step \in AfterParams /\ step \in AfterIdt
      BY Zenon, <1>0 DEF AfterTables, AfterParams, AfterIdt, AfterCmdline
    <3> QED
      BY Zenon, <3>1 DEF Placed
  <2> QED
    BY Zenon, <2>1, <2>2, <2>3, <2>4 DEF BootInv
<1> QED
  BY Zenon, <1>0, <1>1, <1>2

LEMMA BootNext == ASSUME BootInv, [Next]_vars PROVE BootInv'
<1>1. CASE UNCHANGED vars
  <2>1. TypeOK' /\ Told'
    BY Zenon, <1>1 DEF vars, BootInv, TypeOK, Told
  <2>2. AtDefault' => AtDefault
    BY Zenon, <1>1 DEF vars, AtDefault, DefaultLoad
  <2>3. Placed => Placed'
    BY Zenon, <1>1 DEF vars, Placed
  <2> QED
    BY Zenon, <2>1, <2>2, <2>3 DEF BootInv
<1> QED
  BY Zenon, <1>1, TablesStep, KernelStep, InitrdStep, CmdlineStep, ParamsStep, IdtStep, VcpuStep DEF Next

LEMMA RunFacts ==
    ASSUME BootInv, step = "run", DefaultLoad
    PROVE  /\ Placed /\ mem[Ram - Tables] = "tables" /\ mem[Cmdline] = "cmdline"
           /\ mem[Params] = "params" /\ mem[Gdt] = "gdt" /\ mem[Idt] = "idt" /\ mem[Stubs] = "stubs"
           /\ vm.pml4 = Ram - Tables /\ vm.params = Params
           /\ params = [ramdisk |-> IF initrd # 0 THEN InitrdGpa ELSE 0, size |-> initrd,
                        e820 |-> relm_e820_build]
<1>1. Placed
  BY Zenon DEF BootInv, AtDefault
<1>2. step \in AfterTables /\ step \in AfterCmdline /\ step \in AfterParams /\ step \in AfterIdt
  BY Zenon DEF AfterTables, AfterCmdline, AfterParams, AfterIdt
<1> QED
  BY Zenon, <1>1, <1>2 DEF BootInv, Told, Placed

LEMMA StructuresStay == BootInv => StructuresIntact
<1> SUFFICES ASSUME BootInv, step = "run", DefaultLoad
             PROVE  /\ Holds({vm.params}, "params") /\ Holds(Span(vm.pml4, Tables), "tables")
                    /\ Holds({Gdt}, "gdt") /\ Holds({Idt}, "idt") /\ Holds({Stubs}, "stubs")
                    /\ Holds({Cmdline}, "cmdline")
                    /\ Holds(InitrdCells, "initrd") /\ {c \in Cells : mem[c] = "initrd"} = InitrdCells
  BY Zenon DEF StructuresIntact
<1>1. Gdt \in Cells /\ Idt \in Cells /\ Stubs \in Cells /\ Params \in Cells /\ Cmdline \in Cells
  BY LayoutFacts DEF Cells
<1>2. /\ Holds({vm.params}, "params")
      /\ Holds({Gdt}, "gdt") /\ Holds({Idt}, "idt") /\ Holds({Stubs}, "stubs")
      /\ Holds({Cmdline}, "cmdline")
  BY Zenon, <1>1, RunFacts DEF Holds
<1>3. Holds(Span(vm.pml4, Tables), "tables")
  <2>1. Ram - Tables \in Cells /\ Span(Ram - Tables, Tables) = {Ram - Tables}
    BY LayoutFacts DEF Cells, Span
  <2> QED
    BY Zenon, <2>1, RunFacts DEF Holds
<1>4. /\ Span(InitrdGpa, initrd) \subseteq Cells /\ (initrd = 0 => Span(InitrdGpa, initrd) = {})
  BY BootFacts, LayoutFacts DEF Cells, Span
<1>5. InitrdCells = Span(InitrdGpa, initrd)
  <2>0. params = [ramdisk |-> IF initrd # 0 THEN InitrdGpa ELSE 0, size |-> initrd,
                   e820 |-> relm_e820_build]
    BY Zenon, RunFacts
  <2>1. params.size = initrd /\ params.ramdisk = IF initrd # 0 THEN InitrdGpa ELSE 0
    BY Zenon, <2>0
  <2> QED
    BY Zenon, <1>4, <2>1 DEF InitrdCells
<1>6. \A c \in Cells : mem[c] = "initrd" <=> c \in Span(InitrdGpa, initrd)
  BY Zenon, RunFacts DEF Placed
<1>7. Holds(InitrdCells, "initrd")
  BY Zenon, <1>4, <1>5, <1>6 DEF Holds
<1>8. {c \in Cells : mem[c] = "initrd"} = InitrdCells
  BY Zenon, <1>4, <1>5, <1>6
<1> QED
  BY Zenon, <1>2, <1>3, <1>7, <1>8

LEMMA MapDescribes == BootInv => E820Describes
<1> SUFFICES ASSUME BootInv, step = "run", DefaultLoad PROVE E820Describes
  BY Zenon DEF E820Describes
<1> DEFINE cells(k) == Span(params.e820[k].from, params.e820[k].size)
           idx == DOMAIN params.e820
           ram == UNION {cells(k) : k \in {j \in idx : params.e820[j].ram}}
<1>0. params = [ramdisk |-> IF initrd # 0 THEN InitrdGpa ELSE 0, size |-> initrd,
                   e820 |-> relm_e820_build]
  BY Zenon, RunFacts
<1>1. params.e820 = relm_e820_build
  BY Zenon, <1>0
<1>2. /\ idx = 1 .. 4
      /\ cells(1) = 0 .. VgaBase - 1 /\ cells(2) = VgaBase .. Extended - 1
      /\ cells(3) = Extended .. Ram - 1 /\ cells(4) = BiosBase .. BiosBase
      /\ params.e820[1].ram /\ ~params.e820[2].ram /\ params.e820[3].ram /\ ~params.e820[4].ram
  <2> DEFINE e == params.e820
  <2>1. /\ idx = DOMAIN e
        /\ e = << [from |-> 0, size |-> VgaBase, ram |-> TRUE],
                  [from |-> VgaBase, size |-> Extended - VgaBase, ram |-> FALSE],
                  [from |-> Extended, size |-> Ram - Extended, ram |-> TRUE],
                  [from |-> BiosBase, size |-> 1, ram |-> FALSE] >>
    BY Zenon, <1>1 DEF relm_e820_build
  <2>2. \A k : cells(k) = e[k].from .. e[k].from + e[k].size - 1
    BY Zenon DEF Span
  <2> HIDE DEF e, cells, idx, ram
  <2>3. DOMAIN e = 1 .. 4 /\ e[1].ram /\ ~e[2].ram /\ e[3].ram /\ ~e[4].ram
    BY ONLY <2>1
  <2>4. /\ e[1].from = 0 /\ e[1].size = VgaBase
        /\ e[2].from = VgaBase /\ e[2].size = Extended - VgaBase
        /\ e[3].from = Extended /\ e[3].size = Ram - Extended
        /\ e[4].from = BiosBase /\ e[4].size = 1
    BY ONLY <2>1
  <2>5. /\ 0 + VgaBase - 1 = VgaBase - 1
        /\ VgaBase + (Extended - VgaBase) - 1 = Extended - 1
        /\ Extended + (Ram - Extended) - 1 = Ram - 1 /\ BiosBase + 1 - 1 = BiosBase
    BY LayoutFacts
  <2>6. /\ cells(1) = 0 .. VgaBase - 1 /\ cells(2) = VgaBase .. Extended - 1
        /\ cells(3) = Extended .. Ram - 1 /\ cells(4) = BiosBase .. BiosBase
    BY Zenon, <2>2, <2>4, <2>5
  <2> QED
    BY Zenon, <2>1, <2>3, <2>6 DEF e
<1>3. ram = cells(1) \cup cells(3)
  <2> HIDE DEF cells
  <2>1. {j \in idx : params.e820[j].ram} = {1, 3}
    BY <1>2
  <2> QED
    BY Zenon, <2>1
<1> HIDE DEF cells, idx, ram
<1>4. ram \subseteq Cells
  BY <1>2, <1>3, LayoutFacts DEF Cells
<1>5. \A j, k \in idx : j # k => cells(j) \cap cells(k) = {}
  <2>1. \A j \in idx : j = 1 \/ j = 2 \/ j = 3 \/ j = 4
    BY <1>2
  <2>2. /\ cells(1) \cap cells(2) = {} /\ cells(1) \cap cells(3) = {} /\ cells(1) \cap cells(4) = {}
        /\ cells(2) \cap cells(3) = {} /\ cells(2) \cap cells(4) = {} /\ cells(3) \cap cells(4) = {}
    BY <1>2, LayoutFacts
  <2> QED
    BY <2>1, <2>2
<1>6. {c \in Cells : mem[c] # "none"} \subseteq ram
  <2>1. \A c \in Cells : mem[c] # "none" => c < VgaBase \/ c >= Extended
    BY Zenon, RunFacts DEF Placed
  <2> QED
    BY <1>2, <1>3, <2>1, LayoutFacts DEF Cells
<1> QED
  BY Zenon, <1>4, <1>5, <1>6 DEF E820Describes, cells, idx, ram

\* For every layout loader.h allows and all sizes of the images: when a guest
\* with its kernel at the default address starts, the page tables, the GDT,
\* the IDT with its stubs, the command line, boot_params and the initrd are
\* whole and where it is told, and the e820 entries do not overlap, lie in
\* guest RAM where they say RAM, and cover all that was loaded.
THEOREM BootSafety == Spec => []AnnouncedIsThere
<1>1. BootInv /\ [Next]_vars => BootInv'
  BY Zenon, BootNext
<1>2. BootInv => AnnouncedIsThere
  BY Zenon, StructuresStay, MapDescribes DEF AnnouncedIsThere
<1> QED
  BY BootInit, <1>1, <1>2, PTL DEF Spec

----------------------------------------------------------------------------
(* The items of the firmware. *)

Known == Len(WellKnown)
Named == Len(Files)

\* The key of the i-th item relm_fw_cfg_setup registers.
KeyAt(i) == IF i <= Known THEN WellKnown[i].key ELSE IF i <= Known + Named THEN FILE_FIRST + (i - Known - 1) ELSE FILE_DIR

\* The directory of a sequence of items.
DirOf(s) == {<<s[i].key, s[i].size>> : i \in {j \in 1 .. Len(s) : s[j].key >= FILE_FIRST}}

\* Setup has come to reg_step, and the guest reads only after it.
SetupAt ==
    /\ phase \in {"rom", "map", "items", "run", "failed", "down"}
    /\ mapped \in 0 .. RomPages
    /\ phase = "rom" \/ phase = "map" => mapped < RomPages
    /\ reg_step \in Nat /\ 1 <= reg_step /\ reg_step <= Steps + 1
    /\ phase \in {"rom", "map", "items"} => reg_step <= Steps
    /\ phase = "run" => reg_step = Steps + 1
    /\ phase \in {"rom", "map", "items", "run"} => Len(items) = reg_step - 1
    /\ phase # "run" => selected = 0 /\ got = <<>>

\* The key that is free before registration r.
NextKey(r) == FILE_FIRST + (IF r <= Known THEN 0 ELSE IF r <= Known + Named THEN r - Known - 1 ELSE Named)

\* The next file gets the next key.
KeysTaken ==
    /\ next_file_key \in Nat /\ FILE_FIRST <= next_file_key /\ next_file_key <= FILE_FIRST + Named
    /\ phase \in {"rom", "map", "items"} =>
        next_file_key = NextKey(reg_step)

\* The items registered so far, with the directory last.
Registered ==
    /\ items \in Seq(Item) /\ Len(items) <= MaxItems /\ Len(items) <= Steps
    /\ \A i \in 1 .. Len(items) : items[i].key = KeyAt(i) /\ items[i].cursor <= items[i].size
    /\ Len(items) = Steps => items[Steps].lists = DirOf(items)

Bytes == Nat \X Nat

\* The cursor of the selected item is where the guest's reading has come to.
Reading ==
    /\ selected \in Nat /\ selected <= Len(items)
    /\ got \in Seq(Bytes) /\ Len(got) <= MaxGot
    /\ selected # 0 =>
        items[selected].cursor = IF Len(got) <= items[selected].size THEN Len(got) ELSE items[selected].size
    /\ ReadsInOrder

FwInv == rom \in BOOLEAN /\ SetupAt /\ KeysTaken /\ Registered /\ Reading

LEMMA FileKeys == FILE_FIRST \in Nat /\ FILE_DIR \in Nat /\ FILE_DIR < FILE_FIRST
  BY DEF FILE_FIRST, FILE_DIR

LEMMA Counts ==
    /\ Known \in Nat /\ Named \in Nat /\ Steps \in Nat /\ Steps = Known + Named + 1 /\ MaxGot \in Nat
    /\ MaxItems \in Nat /\ RomPages \in Nat /\ 0 < RomPages
    /\ \A i \in 1 .. Known : WellKnown[i].key \in Nat /\ WellKnown[i].key < FILE_FIRST /\ WellKnown[i].size \in Nat
    /\ \A i \in 1 .. Named : Files[i] \in Nat
  <1> DEFINE Rec == [key : 0 .. FILE_FIRST - 1, size : Nat]
  <1>0. Known \in Nat /\ Named \in Nat /\ \A i \in 1 .. Known : WellKnown[i] \in Rec
    <2> HIDE DEF Rec
    <2>1. WellKnown \in Seq(Rec) /\ Files \in Seq(Nat)
      BY Zenon, FirmwareAssumption DEF Rec
    <2> QED
      BY <2>1 DEF Known, Named
  <1>1. \A i \in 1 .. Named : Files[i] \in Nat
    BY FirmwareAssumption DEF Named
  <1>2. \A i \in 1 .. Known : WellKnown[i].key \in Nat /\ WellKnown[i].key < FILE_FIRST /\ WellKnown[i].size \in Nat
    BY <1>0, FileKeys
  <1> HIDE DEF Rec
  <1>3. Steps = Known + Named + 1
    BY Zenon DEF Steps, Known, Named
  <1>4. MaxGot \in Nat /\ MaxItems \in Nat /\ RomPages \in Nat /\ RomPages # 0
    BY Zenon, FirmwareAssumption
  <1>5. Steps \in Nat /\ 0 < RomPages
    BY <1>0, <1>3, <1>4
  <1> QED
    BY Zenon, <1>0, <1>1, <1>2, <1>3, <1>4, <1>5

LEMMA KeyFacts ==
    ASSUME NEW i \in Nat, 1 <= i, i <= Steps
    PROVE  /\ KeyAt(i) \in Nat
           /\ KeyAt(i) >= FILE_FIRST <=> Known < i /\ i <= Known + Named
           /\ Known < i /\ i <= Known + Named => KeyAt(i) = FILE_FIRST + (i - Known - 1)
  <1>1. CASE i <= Known
    <2>1. KeyAt(i) = WellKnown[i].key /\ i \in 1 .. Known
      BY <1>1, Counts DEF KeyAt
    <2> QED
      BY <1>1, <2>1, Counts, FileKeys
  <1>2. CASE i > Known /\ i <= Known + Named
    BY <1>2, Counts, FileKeys DEF KeyAt
  <1>3. CASE i > Known + Named
    BY <1>3, Counts, FileKeys DEF KeyAt
  <1> QED
    BY <1>1, <1>2, <1>3, Counts

\* The directory depends on the keys and sizes of the files only.
LEMMA DirKept ==
    ASSUME NEW s, NEW t, Len(s) \in Nat, Len(t) \in Nat, Len(s) <= Len(t),
           \A i \in 1 .. Len(s) : t[i].key = s[i].key /\ t[i].size = s[i].size,
           \A i \in 1 .. Len(t) : i > Len(s) => ~(t[i].key >= FILE_FIRST)
    PROVE  DirOf(t) = DirOf(s)
  <1>1. {j \in 1 .. Len(t) : t[j].key >= FILE_FIRST} = {j \in 1 .. Len(s) : s[j].key >= FILE_FIRST}
    <2>1. \A j \in 1 .. Len(s) : j \in 1 .. Len(t)
      OBVIOUS
    <2>2. \A j \in 1 .. Len(t) : j \in 1 .. Len(s) \/ j > Len(s)
      OBVIOUS
    <2> QED
      BY Zenon, <2>1, <2>2
  <1> DEFINE J == {j \in 1 .. Len(s) : s[j].key >= FILE_FIRST}
  <1>2. \A i \in J : <<t[i].key, t[i].size>> = <<s[i].key, s[i].size>>
    BY Zenon
  <1>3. DirOf(t) = {<<t[i].key, t[i].size>> : i \in J} /\ DirOf(s) = {<<s[i].key, s[i].size>> : i \in J}
    BY Zenon, <1>1 DEF DirOf
  <1> HIDE DEF J
  <1> QED
    BY ZenonT(30), <1>2, <1>3

\* The directory has one entry for each file.
LEMMA DirCount ==
    ASSUME NEW s, Len(s) = Steps, \A i \in 1 .. Len(s) : s[i].key = KeyAt(i)
    PROVE  Cardinality(DirOf(s)) = Named
  <1> DEFINE f == [k \in 1 .. Named |-> <<s[Known + k].key, s[Known + k].size>>]
             J == {j \in 1 .. Len(s) : s[j].key >= FILE_FIRST}
  <1>1. \A k \in 1 .. Named : Known + k \in 1 .. Len(s) /\ s[Known + k].key = FILE_FIRST + (k - 1) /\ Known + k \in J
    <2> SUFFICES ASSUME NEW k \in 1 .. Named
                 PROVE  Known + k \in 1 .. Len(s) /\ s[Known + k].key = FILE_FIRST + (k - 1) /\ Known + k \in J
      BY Zenon
    <2>1. Known + k \in Nat /\ 1 <= Known + k /\ Known + k <= Steps /\ Known < Known + k /\ Known + k <= Known + Named /\ Known + k \in 1 .. Len(s)
      BY Counts
    <2>2. s[Known + k].key = KeyAt(Known + k) /\ KeyAt(Known + k) = FILE_FIRST + ((Known + k) - Known - 1)
      BY Zenon, <2>1, KeyFacts
    <2> QED
      BY <2>1, <2>2, Counts, FileKeys
  <1>2. \A j \in J : j - Known \in 1 .. Named /\ Known + (j - Known) = j
    <2> SUFFICES ASSUME NEW j \in J PROVE j - Known \in 1 .. Named /\ Known + (j - Known) = j
      BY Zenon
    <2>1. j \in Nat /\ 1 <= j /\ j <= Steps /\ j \in 1 .. Len(s) /\ s[j].key >= FILE_FIRST
      BY Counts
    <2>2. Known < j /\ j <= Known + Named
      BY Zenon, <2>1, KeyFacts
    <2> QED
      BY <2>1, <2>2, Counts
  <1>3. DirOf(s) = {<<s[j].key, s[j].size>> : j \in J}
    BY Zenon DEF DirOf
  <1> HIDE DEF J
  <1>4. f \in [1 .. Named -> DirOf(s)]
    BY Zenon, <1>1, <1>3
  <1>5. \A a, b \in 1 .. Named : f[a] = f[b] => a = b
    <2> SUFFICES ASSUME NEW a \in 1 .. Named, NEW b \in 1 .. Named, f[a] = f[b] PROVE a = b
      BY Zenon
    <2>1. s[Known + a].key = s[Known + b].key
      BY Zenon
    <2>2. s[Known + a].key = FILE_FIRST + (a - 1) /\ s[Known + b].key = FILE_FIRST + (b - 1)
      BY Zenon, <1>1
    <2>3. a \in Nat /\ b \in Nat /\ FILE_FIRST + (a - 1) = FILE_FIRST + (b - 1)
      BY SMTT(30), <2>1, <2>2, Counts
    <2> QED
      BY <2>3, FileKeys
  <1>6. \A e \in DirOf(s) : \E k \in 1 .. Named : f[k] = e
    BY Zenon, <1>2, <1>3
  <1> HIDE DEF f
  <1>7. f \in Bijection(1 .. Named, DirOf(s))
    BY Zenon, <1>4, <1>5, <1>6 DEF Bijection, Injection, Surjection, IsInjective
  <1>8. ExistsBijection(1 .. Named, DirOf(s))
    BY Zenon, <1>7 DEF ExistsBijection
  <1>9. IsFiniteSet(1 .. Named) /\ Cardinality(1 .. Named) = Named
    BY FS_Interval, Counts
  <1> QED
    BY Zenon, <1>8, <1>9, FS_Bijection

LEMMA FwInit == FirmwareInit => FwInv
  <1> SUFFICES ASSUME FirmwareInit PROVE FwInv
    BY Zenon
  <1>0. rom \in BOOLEAN /\ items = <<>> /\ got = <<>>
    BY Zenon DEF FirmwareInit
  <1>1. SetupAt /\ KeysTaken
    BY Counts, FileKeys DEF FirmwareInit, SetupAt, KeysTaken, NextKey
  <1>2. Registered /\ Reading
    BY <1>0, Counts DEF FirmwareInit, Registered, Reading, ReadsInOrder
  <1> QED
    BY Zenon, <1>0, <1>1, <1>2 DEF FwInv

\* A step that leaves the items and the ports alone.
LEMMA FwQuiet ==
    ASSUME FwInv, UNCHANGED <<items, selected, got>>
    PROVE  Registered' /\ Reading'
  BY Zenon DEF FwInv, Registered, Reading, DirOf, ReadsInOrder, ByteOf, NoByte

LEMMA RomSteps ==
    ASSUME FwInv, LoadRom \/ LoadRomFails \/ MapRom \/ MapRomFails
    PROVE  FwInv'
  <1>0. /\ UNCHANGED <<items, reg_step, next_file_key, selected, got>>
        /\ phase \in {"rom", "map"} /\ phase' \in {"map", "failed", "items"}
    BY Zenon DEF LoadRom, LoadRomFails, MapRom, MapRomFails
  <1>1. rom' \in BOOLEAN
    BY Zenon DEF LoadRom, LoadRomFails, MapRom, MapRomFails, FwInv, romVars
  <1>2. mapped' \in 0 .. RomPages /\ (phase' = "map" => mapped' < RomPages)
    BY Counts DEF LoadRom, LoadRomFails, MapRom, MapRomFails, FwInv, SetupAt, romVars
  <1>3. SetupAt' /\ KeysTaken'
    BY Zenon, <1>0, <1>2 DEF FwInv, SetupAt, KeysTaken
  <1> QED
    BY Zenon, <1>0, <1>1, <1>3, FwQuiet DEF FwInv

LEMMA KeyTaken ==
    ASSUME FwInv, phase = "items", TakeKey
    PROVE  /\ next_file_key' \in Nat /\ FILE_FIRST <= next_file_key' /\ next_file_key' <= FILE_FIRST + Named
           /\ reg_step + 1 <= Steps =>
                next_file_key' = NextKey(reg_step + 1)
  <1>1. /\ reg_step \in Nat /\ 1 <= reg_step /\ reg_step <= Steps
        /\ next_file_key = NextKey(reg_step)
    BY Zenon DEF FwInv, SetupAt, KeysTaken
  <1>2. next_file_key' = IF reg_step > Known /\ reg_step < Steps THEN next_file_key + 1 ELSE next_file_key
    BY Zenon DEF TakeKey, Known
  <1> QED
    BY <1>1, <1>2, Counts, FileKeys DEF NextKey

LEMMA RegisterFailsStep == ASSUME FwInv, RegisterFails PROVE FwInv'
  <1>0. /\ UNCHANGED <<mapped, items, reg_step, selected, got>> /\ phase = "items" /\ phase' = "failed" /\ TakeKey
    BY Zenon DEF RegisterFails
  <1>1. rom' \in BOOLEAN
    BY Zenon DEF RegisterFails
  <1>2. SetupAt'
    BY Zenon, <1>0 DEF FwInv, SetupAt
  <1>3. KeysTaken'
    BY Zenon, <1>0, KeyTaken DEF KeysTaken
  <1> QED
    BY Zenon, <1>0, <1>1, <1>2, <1>3, FwQuiet DEF FwInv

LEMMA DestroyStep == ASSUME FwInv, Destroy PROVE FwInv'
  <1>0. /\ UNCHANGED <<romVars, reg_step, next_file_key>> /\ phase' = "down"
        /\ items' = <<>> /\ selected' = 0 /\ got' = <<>>
    BY Zenon DEF Destroy
  <1>1. rom' \in BOOLEAN
    BY Zenon, <1>0 DEF FwInv, romVars
  <1>2. SetupAt' /\ KeysTaken'
    BY Zenon, <1>0 DEF FwInv, SetupAt, KeysTaken, romVars
  <1>3. Registered' /\ Reading'
    BY <1>0, Counts DEF Registered, Reading, ReadsInOrder
  <1> QED
    BY Zenon, <1>1, <1>2, <1>3 DEF FwInv

\* What the sequence of items says of each.
LEMMA ItemFacts ==
    ASSUME Registered
    PROVE  /\ Len(items) \in Nat
           /\ \A i \in 1 .. Len(items) :
                /\ items[i] \in Item /\ items[i].key \in Nat /\ items[i].size \in Nat
                /\ items[i].cursor \in Nat /\ items[i].lists \in SUBSET (Nat \X Nat)
  <1> DEFINE P == SUBSET (Nat \X Nat)
  <1>1. Item = [key : Nat, size : Nat, cursor : Nat, lists : P]
    BY Zenon DEF Item
  <1> HIDE DEF P
  <1>2. Len(items) \in Nat /\ \A i \in 1 .. Len(items) : items[i] \in Item
    BY DEF Registered
  <1>3. \A r \in Item : r.key \in Nat /\ r.size \in Nat /\ r.cursor \in Nat /\ r.lists \in P
    BY Zenon, <1>1
  <1> QED
    BY Zenon, <1>2, <1>3 DEF P

LEMMA DirTyped ==
    ASSUME Registered
    PROVE  DirOf(items) \in SUBSET (Nat \X Nat)
  <1>1. \A i \in 1 .. Len(items) : <<items[i].key, items[i].size>> \in Nat \X Nat
    BY Zenon, ItemFacts
  <1> QED
    BY Zenon, <1>1 DEF DirOf

\* relm_fw_cfg_setup registers the items in the order of their keys' table.
LEMMA Registers ==
    ASSUME FwInv, phase = "items"
    PROVE  /\ ToRegister \in Item /\ ToRegister.key = KeyAt(reg_step) /\ ToRegister.cursor = 0
           /\ reg_step = Steps => ToRegister.lists = DirOf(items)
  <1>0. /\ reg_step \in Nat /\ 1 <= reg_step /\ reg_step <= Steps /\ Registered
        /\ next_file_key \in Nat
        /\ next_file_key = NextKey(reg_step)
    BY Zenon DEF FwInv, SetupAt, KeysTaken
  <1> DEFINE P == SUBSET (Nat \X Nat)
  <1>1. /\ Item = [key : Nat, size : Nat, cursor : Nat, lists : P]
        /\ {} \in P /\ DirOf(items) \in P
    BY Zenon, <1>0, DirTyped DEF Item
  <1> HIDE DEF P
  <1>2. relm_fw_cfg_build_file_dir = DirOf(items)
    BY Zenon DEF relm_fw_cfg_build_file_dir, DirOf, IsFile
  <1>3. CASE reg_step <= Known
    <2>1. ToRegister = [key |-> WellKnown[reg_step].key, size |-> WellKnown[reg_step].size,
                        cursor |-> 0, lists |-> {}]
      BY Zenon, <1>3 DEF ToRegister, Known
    <2>2. WellKnown[reg_step].key \in Nat /\ WellKnown[reg_step].size \in Nat /\ reg_step # Steps
      BY <1>0, <1>3, Counts
    <2>3. KeyAt(reg_step) = WellKnown[reg_step].key
      BY Zenon, <1>3 DEF KeyAt
    <2> QED
      BY Zenon, <1>1, <2>1, <2>2, <2>3
  <1>4. CASE ~(reg_step <= Known) /\ reg_step < Steps
    <2>1. ToRegister = [key |-> next_file_key, size |-> Files[reg_step - Known], cursor |-> 0, lists |-> {}]
      BY Zenon, <1>4 DEF ToRegister, Known
    <2>2. Files[reg_step - Known] \in Nat /\ reg_step <= Known + Named
      BY <1>0, <1>4, Counts
    <2>3. KeyAt(reg_step) = next_file_key
      BY Zenon, <1>0, <1>4, <2>2 DEF KeyAt, NextKey
    <2> QED
      BY <1>0, <1>1, <1>4, <2>1, <2>2, <2>3
  <1>5. CASE ~(reg_step <= Known) /\ ~(reg_step < Steps)
    <2>0. reg_step = Steps /\ ~(reg_step <= Known + Named)
      BY <1>0, <1>5, Counts
    <2>1. ToRegister = [key |-> FILE_DIR, size |-> 1 + Cardinality(DirOf(items)),
                        cursor |-> 0, lists |-> DirOf(items)]
      BY Zenon, <1>2, <1>5 DEF ToRegister, Known
    <2>2. KeyAt(reg_step) = FILE_DIR
      BY Zenon, <1>5, <2>0 DEF KeyAt
    <2>3. Cardinality(DirOf(items)) \in Nat
      <3> DEFINE J == 1 .. Len(items)
                 g == [i \in J |-> <<items[i].key, items[i].size>>]
      <3>1. IsFiniteSet(J)
        BY <1>0, ItemFacts, FS_Interval
      <3>2. DirOf(items) \subseteq {g[i] : i \in J}
        BY Zenon DEF DirOf
      <3>3. g \in Surjection(J, {g[i] : i \in J})
        <4>1. g \in [J -> {g[i] : i \in J}]
          BY Zenon
        <4> HIDE DEF g, J
        <4> QED
          BY Zenon, <4>1 DEF Surjection
      <3> HIDE DEF g, J
      <3>4. IsFiniteSet({g[i] : i \in J})
        BY Zenon, <3>1, <3>3, FS_Surjection
      <3>5. IsFiniteSet(DirOf(items))
        BY Zenon, <3>2, <3>4, FS_Subset
      <3> QED
        BY Zenon, <3>5, FS_CardinalityType
    <2> QED
      BY SMTT(30), <1>1, <2>1, <2>2, <2>3, FileKeys
  <1> QED
    BY Zenon, <1>3, <1>4, <1>5

LEMMA RegisterStep == ASSUME FwInv, Register PROVE FwInv'
  <1> DEFINE new == ToRegister
  <1>0. /\ phase = "items" /\ items' = Append(items, new) /\ Len(items) < MaxItems /\ TakeKey
        /\ reg_step' = reg_step + 1 /\ phase' = IF reg_step = Steps THEN "run" ELSE phase
        /\ UNCHANGED <<rom, mapped, selected, got>>
    BY Zenon DEF Register, Accepts, romVars
  <1>1. /\ new \in Item /\ new.key = KeyAt(reg_step) /\ new.cursor = 0
        /\ reg_step = Steps => new.lists = DirOf(items)
    BY Zenon, <1>0, Registers
  <1> HIDE DEF new
  <1>2. /\ Registered /\ reg_step \in Nat /\ 1 <= reg_step /\ reg_step <= Steps /\ Len(items) = reg_step - 1
        /\ selected = 0 /\ got = <<>> /\ mapped \in 0 .. RomPages
    BY Zenon, <1>0 DEF FwInv, SetupAt
  <1>3. /\ items' \in Seq(Item) /\ Len(items') = reg_step /\ items'[reg_step] = new
        /\ \A i \in 1 .. Len(items) : items'[i] = items[i]
    <2>1. items \in Seq(Item)
      BY Zenon, <1>2 DEF Registered
    <2> QED
      BY SMTT(30), <1>0, <1>1, <1>2, <2>1
  <1>4. rom' \in BOOLEAN
    BY Zenon, <1>0 DEF FwInv
  <1>5. SetupAt'
    BY <1>0, <1>2, <1>3, Counts DEF SetupAt
  <1>6. KeysTaken'
    <2>1. phase' \in {"rom", "map", "items"} => reg_step + 1 <= Steps
      BY <1>0, <1>2, Counts
    <2>2. /\ next_file_key' \in Nat /\ FILE_FIRST <= next_file_key' /\ next_file_key' <= FILE_FIRST + Named
          /\ reg_step + 1 <= Steps =>
               next_file_key' = NextKey(reg_step + 1)
      BY Zenon, <1>0, KeyTaken
    <2> QED
      <3>1. reg_step' = reg_step + 1
        BY Zenon, <1>0
      <3>2. phase' \in {"rom", "map", "items"} => next_file_key' = NextKey(reg_step')
        BY Zenon, <2>1, <2>2, <3>1
      <3> QED
        BY Zenon, <2>2, <3>2 DEF KeysTaken
  <1>7. Registered'
    <2>1. Len(items') <= MaxItems /\ Len(items') <= Steps
      BY SMTT(30), <1>0, <1>2, <1>3, Counts
    <2>2. \A i \in 1 .. Len(items') : i \in 1 .. Len(items) \/ i = reg_step
      BY <1>2, <1>3
    <2>3. \A i \in 1 .. Len(items) : items'[i].key = KeyAt(i) /\ items'[i].cursor <= items'[i].size
      BY Zenon, <1>2, <1>3 DEF Registered
    <2>4. new.cursor <= new.size
      BY <1>1 DEF Item
    <2>5. \A i \in 1 .. Len(items') : items'[i].key = KeyAt(i) /\ items'[i].cursor <= items'[i].size
      BY Zenon, <1>1, <1>3, <2>2, <2>3, <2>4
    <2>6. ASSUME Len(items') = Steps PROVE items'[Steps].lists = DirOf(items')
      <3>1. reg_step = Steps /\ Len(items) \in Nat /\ Len(items') \in Nat /\ Len(items) <= Len(items')
        BY <1>2, <1>3, <2>6
      <3>2. \A i \in 1 .. Len(items') : i > Len(items) => i = Steps
        BY SMTT(30), <1>2, <3>1, <1>3
      <3>3. Steps \in Nat /\ 1 <= Steps /\ Steps <= Steps /\ ~(Known < Steps /\ Steps <= Known + Named)
        BY Counts
      <3>4. ~(items'[Steps].key >= FILE_FIRST)
        BY Zenon, <1>1, <1>3, <3>1, <3>3, KeyFacts
      <3>5. \A i \in 1 .. Len(items') : i > Len(items) => ~(items'[i].key >= FILE_FIRST)
        BY Zenon, <3>2, <3>4
      <3>6. \A i \in 1 .. Len(items) : items'[i].key = items[i].key /\ items'[i].size = items[i].size
        BY Zenon, <1>3
      <3>7. DirOf(items') = DirOf(items)
        BY Zenon, <3>1, <3>5, <3>6, DirKept
      <3> QED
        BY Zenon, <1>1, <1>3, <3>1, <3>7
    <2> QED
      BY Zenon, <1>3, <2>1, <2>5, <2>6 DEF Registered
  <1>8. Reading'
    <2>1. selected' = 0 /\ got' = <<>> /\ Len(items') \in Nat
      BY Zenon, <1>0, <1>2, <1>3
    <2> QED
      BY <2>1, Counts DEF Reading, ReadsInOrder
  <1> QED
    BY Zenon, <1>4, <1>5, <1>6, <1>7, <1>8 DEF FwInv

\* Moving one cursor keeps everything else.
LEMMA CursorMoved ==
    ASSUME Registered, NEW i \in 1 .. Len(items), NEW c \in Nat, c <= items[i].size,
           items' = [items EXCEPT ![i].cursor = c]
    PROVE  /\ Registered' /\ Len(items') = Len(items) /\ items'[i].cursor = c
           /\ \A j \in 1 .. Len(items) : items'[j].key = items[j].key /\ items'[j].size = items[j].size
  <1>0. items \in Seq(Item) /\ Len(items) \in Nat /\ DOMAIN items = 1 .. Len(items)
    BY DEF Registered
  <1> DEFINE P == SUBSET (Nat \X Nat)
             R == [key : Nat, size : Nat, cursor : Nat, lists : P]
  <1>1. items[i] \in R /\ R = Item
    BY Zenon, ItemFacts DEF Item
  <1>2. items' = [items EXCEPT ![i] = [items[i] EXCEPT !.cursor = c]]
    BY Zenon
  <1> HIDE DEF P
  <1>3. /\ [items[i] EXCEPT !.cursor = c] \in R /\ [items[i] EXCEPT !.cursor = c].cursor = c
        /\ [items[i] EXCEPT !.cursor = c].key = items[i].key
        /\ [items[i] EXCEPT !.cursor = c].size = items[i].size
        /\ [items[i] EXCEPT !.cursor = c].lists = items[i].lists
    BY Zenon, <1>1
  <1> HIDE DEF R
  <1>4. /\ items' \in Seq(Item) /\ Len(items') = Len(items)
        /\ items'[i] = [items[i] EXCEPT !.cursor = c]
        /\ \A j \in 1 .. Len(items) : j # i => items'[j] = items[j]
    BY <1>0, <1>1, <1>2, <1>3
  <1>5. \A j \in 1 .. Len(items) :
            /\ items'[j].key = items[j].key /\ items'[j].size = items[j].size
            /\ items'[j].lists = items[j].lists
    BY Zenon, <1>3, <1>4
  <1>6. \A j \in 1 .. Len(items) : items'[j].cursor <= items'[j].size
    <2>1. items'[i].cursor <= items'[i].size
      BY Zenon, <1>3, <1>4
    <2>2. \A j \in 1 .. Len(items) : items[j].cursor <= items[j].size
      BY Zenon DEF Registered
    <2> QED
      BY Zenon, <1>4, <2>1, <2>2
  <1>7. DirOf(items') = DirOf(items)
    <2>1. /\ Len(items') \in Nat /\ Len(items) <= Len(items')
          /\ \A j \in 1 .. Len(items') : ~(j > Len(items))
      BY <1>0, <1>4
    <2> QED
      BY Zenon, <1>0, <1>5, <2>1, DirKept
  <1>8. Len(items) = Steps => Steps \in 1 .. Len(items)
    BY <1>0, Counts
  <1>9. Registered'
    BY Zenon, <1>4, <1>5, <1>6, <1>7, <1>8 DEF Registered
  <1> QED
    BY Zenon, <1>3, <1>4, <1>5, <1>9

LEMMA SelectStep ==
    ASSUME FwInv, NEW v, NEW size, OutSelector(v, size)
    PROVE  FwInv'
  <1>0. /\ phase = "run" /\ phase' = phase /\ UNCHANGED <<rom, mapped, reg_step, next_file_key>> /\ got' = <<>>
        /\ \/ \E i \in 1 .. Len(items) : selected' = i /\ items' = [items EXCEPT ![i].cursor = 0]
           \/ selected' = 0 /\ items' = items
    BY Zenon DEF OutSelector, relm_fw_cfg_select, romVars
  <1>r. Registered /\ Len(items) \in Nat
    BY Zenon, ItemFacts DEF FwInv
  <1>g. got' \in Seq(Bytes) /\ Len(got') = 0
    BY <1>0
  <1>1. Registered' /\ Len(items') = Len(items) /\ Reading'
    <2>1. CASE selected' = 0 /\ items' = items
      <3>1. Registered'
        BY Zenon, <2>1, <1>r DEF Registered
      <3> QED
        BY <1>r, <1>g, <2>1, <3>1, Counts DEF Reading, ReadsInOrder
    <2>2. ASSUME NEW i \in 1 .. Len(items), selected' = i, items' = [items EXCEPT ![i].cursor = 0]
          PROVE  Registered' /\ Len(items') = Len(items) /\ Reading'
      <3>1. 0 \in Nat /\ 0 <= items[i].size /\ items[i].size \in Nat
        BY <1>r, ItemFacts
      <3>2. /\ Registered' /\ Len(items') = Len(items) /\ items'[i].cursor = 0
            /\ items'[i].size = items[i].size
        BY Zenon, <1>r, <2>2, <3>1, CursorMoved
      <3>3. Reading'
        BY SMTT(30), <1>r, <1>g, <2>2, <3>1, <3>2, Counts DEF Reading, ReadsInOrder
      <3> QED
        BY Zenon, <3>2, <3>3
    <2> QED
      BY Zenon, <1>0, <2>1, <2>2
  <1>2. rom' \in BOOLEAN
    BY Zenon, <1>0 DEF FwInv
  <1>3. SetupAt' /\ KeysTaken'
    BY Zenon, <1>0, <1>1 DEF FwInv, SetupAt, KeysTaken
  <1> QED
    BY Zenon, <1>1, <1>2, <1>3 DEF FwInv

LEMMA ByteTyped ==
    ASSUME Registered, NEW i \in Nat, i <= Len(items), NEW n \in Nat
    PROVE  ByteOf(i, n) \in Bytes
  <1>1. NoByte \in Bytes
    BY Zenon DEF NoByte, Bytes
  <1>2. i # 0 => <<items[i].key, n>> \in Bytes
    BY ItemFacts DEF Bytes
  <1> QED
    BY Zenon, <1>1, <1>2 DEF ByteOf

LEMMA ReadStep ==
    ASSUME FwInv, NEW size \in {1, 2, 4}, InData(size)
    PROVE  FwInv'
  <1> DEFINE next(b) == IF selected = 0 THEN b ELSE items[selected].cursor + b
             new == [b \in 1 .. size |-> ByteOf(selected, next(b))]
  <1>0. /\ phase = "run" /\ phase' = phase /\ UNCHANGED <<rom, mapped, reg_step, next_file_key, selected>>
        /\ Len(got) + size <= MaxGot /\ got' = got \o new
        /\ items' = IF selected = 0 THEN items
                    ELSE [items EXCEPT ![selected].cursor = CursorAfter(selected, size)]
    BY Zenon DEF InData, romVars
  <1>r. Registered /\ Reading /\ Len(items) \in Nat /\ size \in Nat
    BY ItemFacts DEF FwInv
  <1>s. /\ selected \in Nat /\ selected <= Len(items) /\ got \in Seq(Bytes) /\ Len(got) \in Nat
        /\ \A n \in 1 .. Len(got) : got[n] = ByteOf(selected, n)
    BY <1>r DEF Reading, ReadsInOrder
  <1>c. selected # 0 =>
           /\ selected \in 1 .. Len(items) /\ items[selected].cursor \in Nat /\ items[selected].size \in Nat
           /\ items[selected].cursor = IF Len(got) <= items[selected].size THEN Len(got) ELSE items[selected].size
    BY <1>r, <1>s, ItemFacts DEF Reading
  <1>1. \A b \in 1 .. size : next(b) \in Nat /\ ByteOf(selected, next(b)) = ByteOf(selected, Len(got) + b)
    <2> SUFFICES ASSUME NEW b \in 1 .. size
                 PROVE  next(b) \in Nat /\ ByteOf(selected, next(b)) = ByteOf(selected, Len(got) + b)
      BY Zenon
    <2>0. b \in Nat /\ 1 <= b
      BY <1>r
    <2>1. CASE selected = 0
      BY Zenon, <2>0, <2>1 DEF ByteOf
    <2>2. CASE selected # 0 /\ Len(got) <= items[selected].size
      <3>1. next(b) = Len(got) + b
        BY Zenon, <1>c, <2>2
      <3>2. Len(got) + b \in Nat
        BY ONLY SMTT(30), <1>s, <2>0
      <3> QED
        BY Zenon, <3>1, <3>2
    <2>3. CASE selected # 0 /\ ~(Len(got) <= items[selected].size)
      BY SMTT(30), <1>s, <1>c, <2>0, <2>3 DEF ByteOf
    <2> QED
      BY Zenon, <2>1, <2>2, <2>3
  <1>2. \A b \in 1 .. size : new[b] = ByteOf(selected, Len(got) + b) /\ new[b] \in Bytes
    BY Zenon, <1>r, <1>s, <1>1, ByteTyped
  <1>n. new = [b \in 1 .. size |-> new[b]]
    BY Zenon
  <1> HIDE DEF new, next
  <1>3. new \in Seq(Bytes) /\ Len(new) = size
    BY SMTT(30), <1>r, <1>2, <1>n
  <1>4. /\ got' \in Seq(Bytes) /\ Len(got') = Len(got) + size
        /\ \A n \in 1 .. Len(got') : got'[n] = IF n <= Len(got) THEN got[n] ELSE new[n - Len(got)]
    BY <1>0, <1>r, <1>s, <1>3
  <1>5. \A n \in 1 .. Len(got') : got'[n] = ByteOf(selected, n)
    <2> SUFFICES ASSUME NEW n \in 1 .. Len(got') PROVE got'[n] = ByteOf(selected, n)
      BY Zenon
    <2>1. CASE n <= Len(got)
      <3>1. n \in 1 .. Len(got)
        BY <1>s, <2>1
      <3> QED
        BY Zenon, <1>4, <1>s, <2>1, <3>1
    <2>2. CASE ~(n <= Len(got))
      <3>1. n - Len(got) \in 1 .. size /\ Len(got) + (n - Len(got)) = n
        BY <1>r, <1>s, <1>4, <2>2
      <3>2. new[n - Len(got)] = ByteOf(selected, Len(got) + (n - Len(got)))
        BY Zenon, <1>2, <3>1
      <3> QED
        BY Zenon, <1>4, <2>2, <3>1, <3>2
    <2> QED
      BY Zenon, <2>1, <2>2
  <1>6. Registered' /\ Len(items') = Len(items) /\ Reading'
    <2>1. CASE selected = 0
      <3>1. items' = items /\ Registered'
        BY Zenon, <1>0, <1>r, <2>1 DEF Registered
      <3>2. \A n : ByteOf(selected, n)' = ByteOf(selected, n)
        BY Zenon, <1>0, <3>1 DEF ByteOf, NoByte
      <3>3. ReadsInOrder'
        BY Zenon, <1>5, <3>2 DEF ReadsInOrder
      <3>4. Len(got') <= MaxGot
        BY Zenon, <1>0, <1>4
      <3> QED
        BY Zenon, <1>0, <1>s, <1>4, <2>1, <3>1, <3>3, <3>4 DEF Reading
    <2>2. CASE selected # 0
      <3> DEFINE c == CursorAfter(selected, size)
      <3>1. /\ c \in Nat /\ c <= items[selected].size
            /\ c = IF Len(got) + size <= items[selected].size THEN Len(got) + size ELSE items[selected].size
        <4>1. PICK z : z = items[selected].size
          BY Zenon
        <4>2. PICK n : n = Len(got)
          BY Zenon
        <4>3. z \in Nat /\ n \in Nat /\ items[selected].cursor = IF n <= z THEN n ELSE z
          BY ONLY Zenon, <1>s, <1>c, <2>2, <4>1, <4>2
        <4>4. c = IF items[selected].cursor + size <= z THEN items[selected].cursor + size ELSE z
          BY ONLY Zenon, <4>1 DEF CursorAfter
        <4>5. size \in Nat
          BY Zenon, <1>r
        <4> HIDE DEF c
        <4>6. c \in Nat /\ c <= z /\ c = IF n + size <= z THEN n + size ELSE z
          BY ONLY <4>3, <4>4, <4>5
        <4> QED
          BY ONLY Zenon, <4>1, <4>2, <4>6
      <3>2. items' = [items EXCEPT ![selected].cursor = c]
        BY Zenon, <1>0, <2>2
      <3> HIDE DEF c
      <3>3. /\ Registered' /\ Len(items') = Len(items) /\ items'[selected].cursor = c
            /\ items'[selected].key = items[selected].key /\ items'[selected].size = items[selected].size
        BY Zenon, <1>r, <1>c, <2>2, <3>1, <3>2, CursorMoved
      <3>k. /\ selected' = selected /\ items'[selected'].key = items[selected].key
            /\ items'[selected'].size = items[selected].size
        BY Zenon, <1>0, <3>3
      <3>4. \A n : ByteOf(selected, n)' = ByteOf(selected, n)
        BY Zenon, <3>k DEF ByteOf, NoByte
      <3>5. ReadsInOrder'
        BY Zenon, <1>5, <3>4 DEF ReadsInOrder
      <3>6. Len(got') <= MaxGot
        BY Zenon, <1>0, <1>4
      <3> QED
        BY Zenon, <1>0, <1>s, <1>4, <3>1, <3>3, <3>5, <3>6 DEF Reading
    <2> QED
      BY Zenon, <2>1, <2>2
  <1>7. rom' \in BOOLEAN
    BY Zenon, <1>0 DEF FwInv
  <1>8. SetupAt' /\ KeysTaken'
    BY Zenon, <1>0, <1>6 DEF FwInv, SetupAt, KeysTaken
  <1> QED
    BY Zenon, <1>6, <1>7, <1>8 DEF FwInv

LEMMA FwNext == ASSUME FwInv, [FirmwareNext]_firmwareVars PROVE FwInv'
  <1>1. CASE UNCHANGED firmwareVars
    <2>1. UNCHANGED <<phase, rom, mapped, items, reg_step, next_file_key, selected, got>>
      BY Zenon, <1>1 DEF firmwareVars
    <2>2. rom' \in BOOLEAN /\ SetupAt' /\ KeysTaken'
      BY Zenon, <2>1 DEF FwInv, SetupAt, KeysTaken
    <2> QED
      BY Zenon, <2>1, <2>2, FwQuiet DEF FwInv
  <1> QED
    BY Zenon, <1>1, RomSteps, RegisterStep, RegisterFailsStep, DestroyStep, SelectStep, ReadStep DEF FirmwareNext

LEMMA FwTyped == FwInv => FirmwareTypeOK
  <1> SUFFICES ASSUME FwInv PROVE FirmwareTypeOK
    BY Zenon
  <1>1. rom \in BOOLEAN /\ mapped \in 0 .. RomPages /\ phase \in {"rom", "map", "items", "run", "failed", "down"}
    BY Zenon DEF FwInv, SetupAt
  <1>2. \A i \in 1 .. Len(items) : items[i] \in Item /\ items[i].cursor <= items[i].size
    BY Zenon, ItemFacts DEF FwInv, Registered
  <1>3. /\ Len(items) <= MaxItems /\ reg_step \in 1 .. Steps + 1 /\ selected \in 0 .. Len(items)
        /\ next_file_key \in FILE_FIRST .. FILE_FIRST + Len(Files) /\ Len(got) <= MaxGot
    <2>1. Len(items) \in Nat /\ Named = Len(Files)
      BY Zenon, ItemFacts DEF FwInv, Named
    <2> QED
      BY <2>1, Counts, FileKeys DEF FwInv, SetupAt, KeysTaken, Registered, Reading
  <1> QED
    BY Zenon, <1>1, <1>2, <1>3 DEF FirmwareTypeOK

\* For all items, files and sizes of reads: a selected item is read from its
\* first byte on, each byte once and in order (relm_fw_cfg_select,
\* relm_fw_cfg_read), and the directory relm_fw_cfg_build_file_dir builds lists
\* exactly the named files, with the keys that select them.
THEOREM FirmwareSafety == FirmwareSpec => []ItemsServed
  <1>1. FwInv /\ [FirmwareNext]_firmwareVars => FwInv'
    BY Zenon, FwNext
  <1>2. FwInv => ItemsServed
    <2> SUFFICES ASSUME FwInv PROVE ReadsInOrder /\ DirectoryComplete
      BY Zenon DEF ItemsServed
    <2>1. ReadsInOrder
      BY Zenon DEF FwInv, Reading
    <2>2. ASSUME phase = "run"
          PROVE  \E d \in 1 .. Len(items) :
                    /\ items[d].key = FILE_DIR
                    /\ items[d].lists = {<<items[i].key, items[i].size>> : i \in {j \in 1 .. Len(items) : IsFile(j)}}
                    /\ Cardinality(items[d].lists) = Len(Files)
      <3>1. Len(items) = Steps /\ Steps \in 1 .. Len(items)
        BY SMTT(30), <2>2, Counts DEF FwInv, SetupAt
      <3>2. items[Steps].key = KeyAt(Steps) /\ items[Steps].lists = DirOf(items)
        BY Zenon, <3>1 DEF FwInv, Registered
      <3>3. KeyAt(Steps) = FILE_DIR
        <4>1. Known \in Nat /\ Named \in Nat /\ Steps = Known + Named + 1
          BY Zenon, Counts
        <4> HIDE DEF Known, Named, Steps
        <4>2. ~(Steps <= Known) /\ ~(Steps <= Known + Named)
          BY ONLY <4>1
        <4> QED
          BY ONLY Zenon, <4>2 DEF KeyAt
      <3>4. Cardinality(DirOf(items)) = Len(Files)
        BY Zenon, <3>1, DirCount DEF FwInv, Registered, Named
      <3>5. DirOf(items) = {<<items[i].key, items[i].size>> : i \in {j \in 1 .. Len(items) : IsFile(j)}}
        BY Zenon DEF DirOf, IsFile
      <3> QED
        BY Zenon, <3>1, <3>2, <3>3, <3>4, <3>5
    <2> QED
      BY Zenon, <2>1, <2>2 DEF DirectoryComplete
  <1> QED
    BY FwInit, <1>1, <1>2, PTL DEF FirmwareSpec

----------------------------------------------------------------------------
(* The types of the module, the VM, the vCPU, the loader and the firmware. *)

\* Every variable of the module, the VM, the vCPU, the loader and the fw_cfg
\* device keeps its type, whichever way the guest is brought up.
THEOREM TypesCorrect == MCSpec => []TypesOK
<1> DEFINE Types == LifetimeTypes /\ BootInv /\ FwInv
<1>1. MCInit => Types
  BY Zenon, LifetimeTypesInit, BootInit, FwInit DEF MCInit
<1>2. ASSUME Types, [MCNext]_<<way, lifetimeVars, vars, firmwareVars>> PROVE Types'
  <2>1. /\ [LifetimeNext]_lifetimeVars /\ [Next]_vars /\ [FirmwareNext]_firmwareVars
    BY Zenon, <1>2 DEF MCNext
  <2>2. LifetimeTypes' /\ BootInv' /\ FwInv'
    BY Zenon, <1>2, <2>1, LifetimeTypesStep, BootNext, FwNext
  <2> QED
    BY Zenon, <2>2
<1>3. Types => TypesOK
  BY Zenon, LifetimeTyped, FwTyped DEF BootInv, TypesOK
<1> HIDE DEF Types
<1> QED
  BY <1>1, <1>2, <1>3, PTL DEF MCSpec
=============================================================================
