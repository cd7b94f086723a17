SPECIFICATION MigrationSpec
CONSTANTS
    Release <- MCRelease
    User = {u1, u2}
    DefaultUser = u1
    Day = {d1}
    None = None
    MaxDisruptions = 3
    MaxEntries = 3
INVARIANTS
    VersionTellsTheSchema
    StatementsFollowOn
    TablesAreTheModels
PROPERTIES
    HolidaysKept
    RootsKeepTheirPeople
    EventuallyServes
    UpgradesAreAtomic
CHECK_DEADLOCK FALSE
