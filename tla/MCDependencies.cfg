SPECIFICATION DependencySpec
CONSTANTS
    ann = ann
    bob = bob
    Project = {1}
    User = {ann}
    NoProject = NoProject
    Capacity = {full}
    DefaultCapacity = full
    Task = {a, b, c}
    Milestone = {}
    NoTask = NoTask
    NoMilestone = NoMilestone
    Keep = Keep
SYMMETRY TaskSymmetry
INVARIANTS
    DependenciesAcyclic
    TasksAcyclic
    ChildFollowsParent
