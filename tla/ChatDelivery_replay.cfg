SPECIFICATION Spec
CONSTANTS
    Users = {bob}
    Conns = {c1, c2}
    Messages = {m1}
    GroupMessages = {}
    None = None
    MaxFailures = 0
    MaxCrashes = 0
    MaxKicks = 0
SYMMETRY Symmetry
INVARIANTS
    OfflineDeliveryIsFinal
