------------------------------ MODULE MCBringUp ------------------------------
(***************************************************************************)
(* Everything that happens before a guest runs: the module with its VM and *)
(* vCPU (VmLifetime) and the two ways to put something to run into guest   *)
(* memory, relm_boot_load for a Linux kernel (BootLoad) and                *)
(* relm_seabios_setup for a firmware image (Firmware).  The three share no *)
(* state: a behaviour exercises one of them.                               *)
(***************************************************************************)
EXTENDS VmLifetime, BootLoad, Firmware

VARIABLE way

\* The MSRs relm names, with neighbours in the other half of the bitmap, at
\* its edge and outside it.
MCMsrs ==
    Listed \cup {IA32_SYSENTER_CS, MSR_IA32_APIC_BASE}
        \cup {<<"high", 27>>, <<"low", 8191>>, <<"out", 372>>}

MCWrites == {4}

\* Images of every size around the limits, at the default address, in low
\* memory, at the end of RAM and where the address sum wraps.
MCKernels == [good : BOOLEAN, size : {1, 3, 13, 14, 17, 18}, pref : {0, 10, 30, 36, 63}]

\* Three well-known items (the last one empty, as FW_CFG_NUMA is), two files,
\* and in the cfg a registry with room for exactly these and the directory.
MCWellKnown == <<[key |-> 0, size |-> 4], [key |-> 5, size |-> 2], [key |-> 13, size |-> 0]>>
MCFiles == <<3, 4>>

\* A well-known item, the empty one, the directory, a file, an unknown key.
MCSelectors == {0, 13, FILE_DIR, FILE_FIRST + 1, FILE_FIRST + 9}

MCInit ==
    /\ way \in {"module", "linux", "seabios"}
    /\ LifetimeInit /\ Init /\ FirmwareInit
    /\ way # "linux" => image = CHOOSE k \in Kernels : TRUE
    /\ way # "module" => online = Cpus

MCNext ==
    /\ UNCHANGED way
    /\ \/ way = "module" /\ LifetimeNext /\ UNCHANGED <<vars, firmwareVars>>
       \/ way = "linux" /\ Next /\ UNCHANGED <<lifetimeVars, firmwareVars>>
       \/ way = "seabios" /\ FirmwareNext /\ UNCHANGED <<lifetimeVars, vars>>

MCSpec == MCInit /\ [][MCNext]_<<way, lifetimeVars, vars, firmwareVars>>

\* Type invariant of all of them.
TypesOK == ModuleTypeOK /\ VcpuTypeOK /\ TypeOK /\ FirmwareTypeOK
=============================================================================
