\* One process lifetime: the artifacts may not be writable, nothing stops.
CONSTANTS
    Instances = {i1}
    Players = {p1, p2}
    RunIds = {r1, r2, r3}
    None = None
    Faults = {"cache"}
    MaxCrashes = 0
SPECIFICATION FairSpec
INVARIANTS
    SuccessIsAnswered
    PreparedJobIsReusable
PROPERTIES
    RunsEnd
    SelectionsAreAnswered
CHECK_DEADLOCK FALSE
