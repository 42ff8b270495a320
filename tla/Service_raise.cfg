\* One process, nothing stops, the Blob store refuses a write.
CONSTANTS
    Instances = {i1}
    Players = {p1, p2}
    RunIds = {r1, r2, r3}
    None = None
    Faults = {"blob"}
    MaxCrashes = 0
SPECIFICATION Spec
INVARIANT SuccessIsAnswered
CHECK_DEADLOCK FALSE
