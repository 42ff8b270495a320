\* One process, one restart: a run left running beside an ended one.
CONSTANTS
    Instances = {i1}
    Players = {p1, p2}
    RunIds = {r1, r2, r3}
    None = None
    Faults = {}
    MaxCrashes = 1
SPECIFICATION Spec
INVARIANT PreparedJobIsReusable
CHECK_DEADLOCK FALSE
