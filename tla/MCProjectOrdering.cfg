SPECIFICATION OrderingSpec
CONSTANTS
    Project = {1, 2, 3}
    User = {u1, u2}
    NoProject = NoProject
    Capacity = {full}
    DefaultCapacity = full
    MaxPosition = 2
SYMMETRY UserSymmetry
INVARIANTS
    IsForest
    MembersOnRoots
    RootHasManager
    MoveKeepsTheOthersInOrder
PROPERTIES
    CrossingTakesBothManagers
    BecomingRootChangesNobody
