CONSTANTS
    Devs = {d1, d2}
    Pages = {0, 1, 2, 3}
    RamPages = {0}
    QueueCount = 1
    QueueSels = {0, 1}
    FeatureSels = {0, 1}
    Features = {0, 1}
    Statuses <- MCStatuses
    Rings = {"desc", "used"}
    Halves = {"low", "high"}
    MaxRegions = 2
    MaxDevices = 2
    Gprs = {0, 1, 4}
    Contents <- MCContents
    Insns <- MCInsns
    Lanes01 = {0, 1}
    RipSpan = 4
SYMMETRY Symmetry
SPECIFICATION MCSpec
INVARIANT LoadReachesRsp
CHECK_DEADLOCK FALSE
