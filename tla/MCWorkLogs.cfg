SPECIFICATION WorkLogSpec
CONSTANTS
    ann = ann
    bob = bob
    User = {ann, bob}
    Task = {1, 2, 3}
    Item = {"item"}
    Slot = {s1, s2}
    TrackerUser = {ann}
    Parent <- MCParent
    TaskHome <- MCTaskHome
    Months <- MCMonths
    ReportRange <- MCRange
    Delivery <- MCDelivery
    FirstHalfLastDay = 2
    WeekLength = 3
    NoProject = NoProject
    NoHours = NoHours
    NoSeconds = NoSeconds
    NoTask = NoTask
    Idle = Idle
    Keep = Keep
    Mixed = Mixed
    Day = {4}
    Hours = {150}
    Remaining = {400}
    Estimate = 100
    MaxEntries = 2
    LogIds = {1, 2, 3, 4}
    MaxRequests = 4
SYMMETRY SlotSymmetry
INVARIANTS
    WorkLogTypeOK
    PeriodIsAsLastSent
    BreakdownAddsUp
PROPERTY
    AskedAfterClosing
CHECK_DEADLOCK FALSE
