\* One process, which may stop and restart twice at any step.
CONSTANTS
    Instances = {i1}
    Players = {p1, p2}
    RunIds = {r1, r2, r3, r4}
    None = None
    Faults = {}
    MaxCrashes = 2
SPECIFICATION Spec
SYMMETRY Symmetry
INVARIANTS
    TypeOK
    RestartRebuildsRuns
    IntentExplainsTheShownRun
    AnsweredResultIsServed
PROPERTIES
    ResultsAreRetained
    ImplementsPlayerRuns
CHECK_DEADLOCK FALSE
