SPECIFICATION Spec
CONSTANTS
    NArticles = 2
    ServerCfg <- MCServerCfg
    Options <- MCOptions
    Recovery = 0
    EarlySample = 2
    QueueCap = 1
    ResultCap = 1
    Scenario <- MCScenario
INVARIANTS OneFetcher EmittedIsInHand GiveUpIsEarned
CHECK_DEADLOCK FALSE
PROPERTY AllResolved
