SPECIFICATION ReconcileSpec
CHECK_DEADLOCK FALSE
CONSTANTS
    ann = ann
    bob = bob
    Person = {ann, bob}
    Known = {bob}
    Browser = {b}
    Trip = {1, 2}
    SessionId = {1, 2}
    Thread = {r}
    Login <- MCLogin
    Notice = {}
    Fate <- MCAnyFate
    NoOne = NoOne
    NoSid = NoSid
    StateCapacity = 2
    MaxCrashes = 1
PROPERTY
    RemovedLosesAccess
