SPECIFICATION ForecastSpec
CONSTANTS
    a = a
    b = b
    Task <- MCTask
    User = {a, b}
    NoProject = NoProject
    NoUser = NoUser
    NoDay = NoDay
    NoHours = NoHours
    Scenario <- MCScenario
    Horizon = 4
    DateMax = 99
    DefaultHours = 12
INVARIANTS
    ForecastTypeOK
    StartsRespectDependencies
    RingsWait
    UnknownsArePassedOn
    FinishFloorsHold
PROPERTIES
    NoIdleHands
    ForecastEnds
CHECK_DEADLOCK FALSE
