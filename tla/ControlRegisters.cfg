CONSTANTS
    Cr0Fixed0 = {"PE", "PG", "NE"}
    Cr0Fixed1 = {"PE", "PG", "NE", "CD", "NW", "WP", "TS"}
    Cr4Fixed0 = {"VMXE"}
    Cr4Fixed1 = {"PAE", "PSE", "VMXE", "PGE"}
    Cr3s = {1, 2, 3, 4}
    CacheSize = 3
    MaxTargets = 2
    Threshold = 3
    MaxHits = 5
    Processors <- MCProcessors
    Mms = {1, 2}
SPECIFICATION MCSpec
INVARIANTS TypesOK EntryLegal ReadsBack CacheConsistent ControlsLegal
CHECK_DEADLOCK FALSE
