\* The way back to the players through the browser history.
CONSTANTS
    Players = {p1, p2}
    RunIds = {r1, r2}
    None = None
    Replays = {u1, u2}
    Analyses = {a1, a2}
    Sample = None
    Playerless = {}
    MaxRequests = 2
    MaxHistory = 4
SYMMETRY Symmetry
SPECIFICATION Spec
PROPERTIES
    ReturnsToPlayers
