SPECIFICATION Spec
CONSTANTS
    Users = {alice, bob}
    Groups = {1}
    Procs = {p1, p2}
    None = None
    LockCount = 2
    Requests = {"create", "add", "remove", "leave", "delete", "rotate", "boxes", "group", "single", "publish"}
    MaxGroupMembers = 3
    MaxKey = 2
    MaxVersion = 4
    MaxFailures = 0
    MaxCrashes = 0
    MaxDeletions = 0
SYMMETRY Symmetry
INVARIANTS
    TypeOK
    LocksMatchHandlers
    OneUploadPerVersion
    BoxesMatchIdentityUnlessFault
    AcceptedStaysReadable
    BoxesCoverMembers
