SPECIFICATION ReconcileSpec
CHECK_DEADLOCK FALSE
CONSTANTS
    ann = ann
    bob = bob
    Person = {ann, bob}
    Known = {bob}
    Browser = {b}
    Trip = {1, 2}
    SessionId = {1, 2}
    Thread = {r1, r2}
    Login <- MCLogin
    Notice <- MCNotice
    Fate <- MCFate
    NoOne = NoOne
    NoSid = NoSid
    StateCapacity = 2
    MaxCrashes = 1
INVARIANTS
    ReconcileTypeOK
    OneSignInPerTrip
PROPERTIES
    EndedStaysEnded
    RenewalKeepsThePerson
    RedeliveryEndsNothingNew
    BlockedLosesAccess
