SPECIFICATION FairSpec
CONSTANTS
    Users = {alice, bob}
    Groups = {1}
    Procs = {p1, p2}
    None = None
    LockCount = 2
    Requests = {"create", "rotate", "group", "publish"}
    MaxGroupMembers = 3
    MaxKey = 1
    MaxVersion = 3
    MaxFailures = 0
    MaxCrashes = 0
    MaxDeletions = 0
PROPERTIES
    EveryRequestReturns
    EveryVersionAnnounced
