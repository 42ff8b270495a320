\* The hosted sample, one player: every wait ends.
CONSTANTS
    Players = {p1}
    RunIds = {r1, r2}
    None = None
    Replays = {s1}
    Analyses = {a1, a2}
    Sample = s1
    Playerless = {}
    MaxRequests = 2
    MaxHistory = 3
SPECIFICATION FairSpec
PROPERTIES
    RecoveryIsAboutTheRun
    EveryWaitEnds
