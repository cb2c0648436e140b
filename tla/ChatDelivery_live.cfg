SPECIFICATION FairSpec
CONSTANTS
    Users = {bob}
    Conns = {c1, c2}
    Messages = {m1}
    GroupMessages = {m1}
    None = None
    MaxFailures = 0
    MaxCrashes = 0
    MaxKicks = 0
PROPERTIES
    EverythingArrives
