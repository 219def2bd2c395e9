SPECIFICATION FairSpec
CONSTANTS
    Cpus = {c0, c1}
    Target = c1
PROPERTY
    HaltEndsOnInterrupt
CHECK_DEADLOCK FALSE
