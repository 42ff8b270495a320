CONSTANTS
    Players = {1, 2, 3}
    Rounds = {1, 2, 3}
    Zones = {"A", "B"}
    None = None
    Side <- Sides
    Lead = 2
    Horizon = 3
    TradeTicks = 2
    Lookback = 2
    ActionTicks = 1
    MaxWindows = 8
    CloseTicks = 2
    MaxDecisions = 8
    TimelineEvery = 2
    MaxTimeline = 5
    MaxKnownEvents = 3
    AnalysesPerPlayer = 2
    MaxReaction = 3
    TeamTicks = 2
    Records <- AllRecords
    CoachedRecords <- Matches
    Texts <- PlayerTexts
    MaxEntries = 2
    Corpora <- TheCorpora
    HeldOutPercent = 20
    MaxSplits = 2
    MaxSelections = 2
    MaxLosses = 1
    ToolCalls = {1, 2}
    Tools = {"simulate", "analyze", "compare"}
    ToolLimit <- ToolLimits
    AllowedTools = {"simulate", "analyze"}
    MaxCallsPerTurn = 2
    Sizes = {1, 4, 6}
    MaxResponse = 5
    MaxOutput = 3
    MaxTurns = 2
    Fighters = {1, 2, 3}
    TeamOf <- Teams
    Places = {"A", "S"}
    Adjacent <- Neighbours
    BombSite = "S"
    DecisionTicks = 2
    RoundTicks = 4
    BombTicks = 4
    PlantTicks = 2
    DefuseTicks = 3
    UtilityTicks = 2
    LimitTicks = 3
    SecondTicks = 1
    NumFiles = 2
    Budget = 4
    MaxRuns = 2
    Operators = {o1, o2}
    Versions = {v1, v2}
    NoVersion = NoVersion
    MaxBuilds = 2
    Inputs <- TheInputs
    SampleEvery = 1
    DecisionWindow = 1
    ActionWindow = 1
    MaxRoundTicks = 5
    TeamSize = 2
    MaxCommands = 4
    Shuffles <- TheShuffles
    Sealable <- TheSealable
    Askable <- TheAskable
    MaxExports = 2
SPECIFICATION Spec
INVARIANTS
    BackendTypeOK
    MomentsAreFirstContacts
    InputsPrecedeOutcomes
    CoachingIsAboutItsMoment
    ShownMomentsCanBeExplained
    FactsAreOutcomeBlind
    AdviceIsGrounded
    ToolCallsAreContained
    RoundIsDecided
    DatasetIsWhole
    SnapshotsMatchTheirRounds
    ScoresAreOfUnseenMatches
    ActiveReleaseIsWhole
    ProgressIsTheLog
PROPERTIES
    FirstEndIsReported
    ToolCallsEnd
CHECK_DEADLOCK FALSE
