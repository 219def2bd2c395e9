------------------------------ MODULE Firmware ------------------------------
(***************************************************************************)
(* The SeaBIOS path: relm_seabios_setup loads the ROM, maps it into the    *)
(* guest and fills the fw_cfg device, from which the guest then reads one  *)
(* item at a time through a selector port and a data port.                 *)
(*                                                                         *)
(* No caller of relm_seabios_setup, relm_fw_cfg_init or relm_fw_cfg_destroy*)
(* exists yet; the model calls them in the order their names say.  A byte  *)
(* of an item is the pair of its key and its offset, and sizes are counted *)
(* in the units of the CONSTANTS.                                          *)
(***************************************************************************)
EXTENDS Integers, Sequences, FiniteSets

CONSTANTS WellKnown,   \* the well-known items: a sequence of [key, size]
          Files,       \* the sizes of the named files, in order
          MaxItems,    \* FW_CFG_MAX_ITEMS
          RomPages,    \* SEABIOS_SIZE in pages
          Selectors,   \* the values the guest writes to the selector port
          MaxGot       \* bound on the bytes read after one selection

FILE_DIR   == 25       \* FW_CFG_FILE_DIR
FILE_FIRST == 32768    \* FW_CFG_FILE_FIRST

\* The well-known keys are below those of the files (fw_cfg.h).
ASSUME FirmwareAssumption ==
    /\ WellKnown \in Seq([key : 0 .. FILE_FIRST - 1, size : Nat]) /\ Files \in Seq(Nat)
    /\ MaxItems \in Nat /\ RomPages \in Nat \ {0} /\ Selectors \subseteq Nat /\ MaxGot \in Nat

VARIABLES
    phase,             \* where setup is, then "run", "failed" or "down"
    rom,            \* the ROM image is allocated (fw_data->seabios_hva # 0)
    mapped,         \* how many of its pages the EPT maps
    items,          \* fw->items[0 .. item_count - 1]
    reg_step,       \* the next item relm_fw_cfg_setup registers
    next_file_key,
    selected,       \* index of the selected item, 0 for NULL
    got             \* what the guest has read since it last selected

firmwareVars == <<phase, rom, mapped, items, reg_step, next_file_key, selected, got>>
romVars == <<rom, mapped>>

Item == [key : Nat, size : Nat, cursor : Nat, lists : SUBSET (Nat \X Nat)]

\* The number of registrations of relm_fw_cfg_setup: the directory is last.
Steps == Len(WellKnown) + Len(Files) + 1

\* relm_fw_cfg_init.
FirmwareInit ==
    /\ phase = "rom" /\ rom = FALSE /\ mapped = 0
    /\ items = <<>> /\ reg_step = 1 /\ next_file_key = FILE_FIRST
    /\ selected = 0 /\ got = <<>>

-----------------------------------------------------------------------------
(* relm_seabios_load and relm_seabios_unload.                              *)

\* request_firmware, the size test and the allocation succeed.
LoadRom ==
    /\ phase = "rom"
    /\ rom' = TRUE
    /\ phase' = "map"
    /\ UNCHANGED <<mapped, items, reg_step, next_file_key, selected, got>>

LoadRomFails ==
    /\ phase = "rom"
    /\ phase' = "failed"
    /\ UNCHANGED <<romVars, items, reg_step, next_file_key, selected, got>>

\* One page of the ROM is mapped.
MapRom ==
    /\ phase = "map"
    /\ mapped' = mapped + 1
    /\ phase' = IF mapped' = RomPages THEN "items" ELSE phase
    /\ UNCHANGED <<rom, items, reg_step, next_file_key, selected, got>>

\* relm_ept_map_page fails; relm_seabios_setup returns at once.
MapRomFails ==
    /\ phase = "map"
    /\ phase' = "failed"
    /\ UNCHANGED <<romVars, items, reg_step, next_file_key, selected, got>>

-----------------------------------------------------------------------------
(* relm_fw_cfg_setup.                                                      *)

IsFile(i) == items[i].key >= FILE_FIRST

\* The entries of the directory.
relm_fw_cfg_build_file_dir ==
    {<<items[i].key, items[i].size>> : i \in {j \in 1 .. Len(items) : IsFile(j)}}

\* What the current step registers; the directory has a header and one entry
\* for each file.
ToRegister ==
    IF reg_step <= Len(WellKnown)
    THEN [key |-> WellKnown[reg_step].key, size |-> WellKnown[reg_step].size,
          cursor |-> 0, lists |-> {}]
    ELSE IF reg_step < Steps
    THEN [key |-> next_file_key, size |-> Files[reg_step - Len(WellKnown)],
          cursor |-> 0, lists |-> {}]
    ELSE [key |-> FILE_DIR, size |-> 1 + Cardinality(relm_fw_cfg_build_file_dir),
          cursor |-> 0, lists |-> relm_fw_cfg_build_file_dir]

\* relm_fw_cfg_register_file takes a key whether or not it can use it.
TakeKey ==
    next_file_key' = IF reg_step > Len(WellKnown) /\ reg_step < Steps
                     THEN next_file_key + 1 ELSE next_file_key

\* The tests of relm_fw_cfg_register.
Accepts(item) ==
    /\ Len(items) < MaxItems
    /\ \A i \in 1 .. Len(items) : items[i].key # item.key

Register ==
    /\ phase = "items" /\ Accepts(ToRegister)
    /\ items' = Append(items, ToRegister)
    /\ TakeKey
    /\ reg_step' = reg_step + 1
    /\ phase' = IF reg_step = Steps THEN "run" ELSE phase
    /\ UNCHANGED <<romVars, selected, got>>

\* A test or an allocation fails (an empty item needs none), or, for a file,
\* relm_e820_build; the -EEXIST that relm_fw_cfg_build_file_dir tolerates
\* cannot occur in one setup.  relm_seabios_unload frees the ROM, which stays
\* mapped.
RegisterFails ==
    /\ phase = "items"
    /\ ToRegister.size > 0 \/ ~Accepts(ToRegister)
    /\ TakeKey
    /\ rom' = FALSE
    /\ phase' = "failed"
    /\ UNCHANGED <<mapped, items, reg_step, selected, got>>

-----------------------------------------------------------------------------
(* The guest's side: handle_io_instruction and relm_fw_cfg_handle_io.      *)

\* The key in an OUT of "size" bytes to the selector port.
Key(value, size) == IF size = 1 THEN value % 256 ELSE value % 65536

\* Mutant: selecting an item again goes on where the last read stopped.
relm_fw_cfg_select_Mut(key) ==
    /\ got' = <<>>
    /\ IF \E i \in 1 .. Len(items) : items[i].key = key
       THEN \E i \in 1 .. Len(items) : items[i].key = key /\ selected' = i
       ELSE selected' = 0
    /\ UNCHANGED items

\* The item's cursor is reset; an unknown key selects nothing.
relm_fw_cfg_select(key) ==
    /\ got' = <<>>
    /\ IF \E i \in 1 .. Len(items) : items[i].key = key
       THEN \E i \in 1 .. Len(items) :
                /\ items[i].key = key
                /\ selected' = i
                /\ items' = [items EXCEPT ![i].cursor = 0]
       ELSE selected' = 0 /\ UNCHANGED items

OutSelector(value, size) ==
    /\ phase = "run"
    /\ relm_fw_cfg_select(Key(value, size))
    /\ UNCHANGED <<phase, romVars, reg_step, next_file_key>>

NoByte == <<0, 0>>

\* Byte "n" of item i, counted from 1; zero when there is none.
ByteOf(i, n) ==
    IF i # 0 /\ n <= items[i].size THEN <<items[i].key, n>> ELSE NoByte

\* The cursor after n calls of relm_fw_cfg_read.
CursorAfter(i, n) ==
    IF items[i].cursor + n <= items[i].size THEN items[i].cursor + n
    ELSE items[i].size

\* IN of "size" bytes from the data port: one relm_fw_cfg_read for each.
InData(size) ==
    /\ phase = "run" /\ Len(got) + size <= MaxGot
    /\ got' = got \o [b \in 1 .. size |->
                        ByteOf(selected, IF selected = 0 THEN b
                                         ELSE items[selected].cursor + b)]
    /\ items' = IF selected = 0 THEN items
                ELSE [items EXCEPT ![selected].cursor = CursorAfter(selected, size)]
    /\ UNCHANGED <<phase, romVars, reg_step, next_file_key, selected>>

\* relm_fw_cfg_destroy.
Destroy ==
    /\ phase \in {"run", "failed"}
    /\ items' = <<>> /\ selected' = 0 /\ got' = <<>>
    /\ phase' = "down"
    /\ UNCHANGED <<romVars, reg_step, next_file_key>>

FirmwareNext ==
    \/ LoadRom \/ LoadRomFails \/ MapRom \/ MapRomFails
    \/ Register \/ RegisterFails \/ Destroy
    \/ \E v \in Selectors, size \in {1, 2, 4} : OutSelector(v, size)
    \/ \E size \in {1, 2, 4} : InData(size)

FirmwareSpec == FirmwareInit /\ [][FirmwareNext]_firmwareVars

-----------------------------------------------------------------------------
(* Properties.                                                             *)

\* Type invariant. The items with their cursors, and the ports.
FirmwareTypeOK ==
    /\ phase \in {"rom", "map", "items", "run", "failed", "down"}
    /\ rom \in BOOLEAN /\ mapped \in 0 .. RomPages
    /\ Len(items) <= MaxItems
    /\ \A i \in 1 .. Len(items) :
           items[i] \in Item /\ items[i].cursor <= items[i].size
    /\ reg_step \in 1 .. Steps + 1
    /\ next_file_key \in FILE_FIRST .. FILE_FIRST + Len(Files)
    /\ selected \in 0 .. Len(items)
    /\ Len(got) <= MaxGot

\* Whatever the sizes of its reads, and however often it has read the item
\* before, the guest gets the bytes of the item it selected, from the first
\* on, each once and in order, and zeros after the last (relm_fw_cfg_select,
\* relm_fw_cfg_read).
ReadsInOrder == \A n \in 1 .. Len(got) : got[n] = ByteOf(selected, n)

\* When the guest runs, the directory lists every named file with the key
\* that selects it and its size, and nothing else (relm_fw_cfg_register_file,
\* relm_fw_cfg_build_file_dir).
DirectoryComplete ==
    phase = "run" =>
        \E d \in 1 .. Len(items) :
            /\ items[d].key = FILE_DIR
            /\ items[d].lists = {<<items[i].key, items[i].size>> :
                                    i \in {j \in 1 .. Len(items) : IsFile(j)}}
            /\ Cardinality(items[d].lists) = Len(Files)

\* The firmware finds every item and reads all of it.
ItemsServed == ReadsInOrder /\ DirectoryComplete

----------------------------------------------------------------------------
(* Claims of comments and documents that the code does not meet. *)

\* src/firmware/seabios.c:90, when a page of the ROM cannot be mapped:
\* "cleanup is done by relm_seabios_unload()".
RomFreedOnFailure == phase = "failed" => ~rom

=============================================================================
