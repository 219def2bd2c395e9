CONSTANTS
    Ram = 38
    AddrSpan = 64
    Gdt = 1
    Idt = 2
    Stubs = 3
    Params = 4
    Cmdline = 5
    VgaBase = 6
    Extended = 7
    BiosBase = 62
    KernelGpa = 10
    KernelMax = 16
    InitrdGpa = 22
    InitrdMax = 15
    Kernels <- MCKernels
    Initrds = {1, 7, 15, 16}
    WellKnown <- MCWellKnown
    Files <- MCFiles
    MaxItems = 6
    RomPages = 2
    Selectors <- MCSelectors
    MaxGot = 6
    N = 2
    Msrs <- MCMsrs
    Writes <- MCWrites
SPECIFICATION MCSpec
CHECK_DEADLOCK FALSE
INVARIANT KernelIntact
