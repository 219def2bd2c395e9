CONSTANTS
    Vcpus = {0, 1}
    Vectors = {32, 48}
    Dests = {0, 1}
    Ldrs = {1, 2}
    Tprs = {0, 40}
    Counts = {1, 3}
    Dcrs = {4, 8, 11}
    MaxNow = 34
SPECIFICATION MCSpec
INVARIANTS TypesOK PageMirrorsModel DeliveryExact CountIsExact
