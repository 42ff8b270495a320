\* Two Function instances over one store, nothing fails or stops.
CONSTANTS
    Instances = {i1, i2}
    Players = {p1, p2}
    RunIds = {r1, r2, r3}
    None = None
    Faults = {}
    MaxCrashes = 0
SPECIFICATION Spec
PROPERTY ResultsAreRetained
CHECK_DEADLOCK FALSE
