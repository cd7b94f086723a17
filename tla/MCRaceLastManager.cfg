SPECIFICATION RequestSpec
CONSTANTS
    Project = {1}
    User = {u1, u2}
    NoProject = NoProject
    Capacity = {full}
    DefaultCapacity = full
    Slot = {t1, t2}
    Idle = Idle
SYMMETRY Symmetry
INVARIANT
    RootHasManager
