CONSTANTS
    Frames <- MCFrames
    DevBase = 101
    Idx = {0, 1}
    Ram <- MCRam
    Mmio <- MCMmio
    Apic <- MCApic
    LpCallers = {a, b}
    Fan = 2
    Banks <- MCBanks
    Windows <- MCWindows
    MaxTables = 6
    PageShift = 1
    AddrTop = 6
    WordBits = 8
SPECIFICATION MCSpec
INVARIANTS TypesOK TablesExact Isolation ViewsAgree
PROPERTY ImplementsGuestMap
SYMMETRY MCSymmetry
