\* Two processes that share the store, may stop, and whose writes may fail.
CONSTANTS
    Instances = {i1, i2}
    Players = {p1, p2}
    RunIds = {r1, r2, r3}
    None = None
    Faults = {"cache", "blob", "log"}
    MaxCrashes = 1
SPECIFICATION Spec
SYMMETRY Symmetry
INVARIANTS
    LiveCallOwnsRun
    JobResultIsRetained
    ResultsBelongToTheirPlayer
    CoachingHasARun
CHECK_DEADLOCK FALSE
