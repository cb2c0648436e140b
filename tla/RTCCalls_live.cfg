SPECIFICATION FairSpec
CONSTANTS
    Users = {alice, bob, carol}
    Calls = {c1}
    Flaky = {alice, bob, carol}
    None = None
PROPERTIES
    CallsLiveOnce
    OffersAreResolved
