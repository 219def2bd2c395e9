SPECIFICATION IdlingGuestSpec
CONSTANTS
    Cpus = {c0, c1, c2}
    Target = c1
INVARIANTS TypeOK PinnedGuestIsOwned LaunchFlagMatchesVmcs TeardownOrder
PROPERTIES WakeNotLost StopCompletes
CHECK_DEADLOCK FALSE
