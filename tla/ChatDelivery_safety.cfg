SPECIFICATION Spec
CONSTANTS
    Users = {bob}
    Conns = {c1, c2}
    Messages = {m1}
    GroupMessages = {}
    None = None
    MaxFailures = 1
    MaxCrashes = 1
    MaxKicks = 1
SYMMETRY Symmetry
INVARIANTS
    TypeOK
    NothingLost
    OncePerConnection
    RedisCopyCleared
PROPERTIES
    MailIsKept
