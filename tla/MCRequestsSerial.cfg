SPECIFICATION RequestSpec
CONSTANTS
    Project = {1, 2, 3}
    User = {u1, u2}
    NoProject = NoProject
    Capacity = {full}
    DefaultCapacity = full
    Slot = {t1}
    Idle = Idle
SYMMETRY Symmetry
PROPERTIES
    ImplementsProjects
    NobodyPromotesThemselves
