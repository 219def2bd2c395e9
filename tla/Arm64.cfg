CONSTANTS
    Callers = {a, b}
    Fan = 2
    StartLevel = 1
    PaPages = 8
    Regions <- MCRegions
    Windows <- MCWindows
    HostIds <- MCHostIds
    VmIds <- MCVmIds
    MaxTables = 5
    El2 = {"sctlr", "cptr", "elr", "esr"}
    El2Ctls = {"cptr"}
    Return = {"elr"}
    Syndrome = {"esr"}
    HostTimers = {"cnthv"}
    Borrowed = {"vttbr"}
    El12 = {"sctlr_el12"}
    Shared = {"sp_el1"}
    GuestTimers = {"cntv_cval"}
    TimerCtls = {"cntv_ctl"}
    Callee = {"x19"}
    Scratch = {"x2"}
    X01 = {"x0"}
    SpEl0 = "sp_el0"
    Fp = "q0"
    Values = {0, 1}
    Zero = 0
    Entry = 1
    HostHcrs <- MCHostHcrs
    Features <- MCFeatures
    HostFiles <- MCHostFiles
    GuestFiles <- MCGuestFiles
    Interruptions <- MCInterruptions
SPECIFICATION MCSpec
INVARIANTS TypesOK TreeExact HostRestored GuestPreserved GuestConfined
PROPERTIES TreeIsGuestMap
CHECK_DEADLOCK FALSE
SYMMETRY MCSymmetry
