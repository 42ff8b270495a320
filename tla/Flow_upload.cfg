\* An upload and its two players, to two coaching requests.
CONSTANTS
    Players = {p1, p2}
    RunIds = {r1, r2}
    None = None
    Replays = {u1, u2}
    Analyses = {a1, a2}
    Sample = None
    Playerless = {}
    MaxRequests = 2
    MaxHistory = 4
SYMMETRY Symmetry
SPECIFICATION Spec
INVARIANTS
    FlowTypeOK
    ShownRunIsOfTheSelection
PROPERTIES
    DirectAnswersMatch
