SPECIFICATION Spec
CONSTANTS
    Users = {alice, bob}
    Groups = {1}
    Procs = {p1, p2}
    None = None
    LockCount = 2
    Requests = {"create", "publish", "single"}
    MaxGroupMembers = 3
    MaxKey = 2
    MaxVersion = 4
    MaxFailures = 0
    MaxCrashes = 0
    MaxDeletions = 1
SYMMETRY Symmetry
PROPERTIES
    MembershipChangesRotate
