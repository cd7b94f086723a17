SPECIFICATION DependencySpec
CONSTANTS
    ann = ann
    bob = bob
    Project = {1, 2}
    User = {ann}
    NoProject = NoProject
    Capacity = {full}
    DefaultCapacity = full
    Task = {a, b}
    Milestone = {m}
    NoTask = NoTask
    NoMilestone = NoMilestone
    Keep = Keep
SYMMETRY TaskSymmetry
INVARIANTS
    ContentsHaveAProject
    MilestoneWithinReach
