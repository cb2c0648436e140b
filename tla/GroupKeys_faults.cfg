SPECIFICATION Spec
CONSTANTS
    Users = {alice, bob}
    Groups = {1}
    Procs = {p1, p2}
    None = None
    LockCount = 2
    Requests = {"create", "add", "remove", "rotate", "boxes", "single", "publish"}
    MaxGroupMembers = 3
    MaxKey = 1
    MaxVersion = 4
    MaxFailures = 1
    MaxCrashes = 1
    MaxDeletions = 1
SYMMETRY Symmetry
CHECK_DEADLOCK FALSE
INVARIANTS
    LocksMatchHandlers
    BoxesCoverMembers
