SPECIFICATION Spec
CONSTANTS
    Cpus = {c0, c1}
    Target = c1
INVARIANT
    NoDanglingSlot
CHECK_DEADLOCK FALSE
