SPECIFICATION CalendarSpec
CONSTANTS
    Project = {1, 2, 3}
    User = {u1}
    NoProject = NoProject
    Capacity = {full}
    DefaultCapacity = full
    Day = {d1}
    Holiday = {d1}
    Workweek = {sixDays}
    NoWorkweek = NoWorkweek
INVARIANTS
    CalendarRowsInPlace
PROPERTY
    BecomingRootKeepsCalendar
