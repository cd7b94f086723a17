SPECIFICATION OneTeamSpec
CONSTANTS
    ann = ann
    bob = bob
    Project = {1, 2}
    User = {ann, bob}
    NoProject = NoProject
    Capacity = {full}
    DefaultCapacity = full
    Task = {a, b}
    Milestone = {}
    NoTask = NoTask
    NoMilestone = NoMilestone
    Keep = Keep
SYMMETRY TaskSymmetry
PROPERTY
    OwnStepsRevealNoTask
