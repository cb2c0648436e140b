SPECIFICATION Spec
CONSTANTS
    Users = {alice, bob, carol}
    Calls = {c1, c2}
    Flaky = {carol}
    None = None
SYMMETRY Symmetry
INVARIANTS
    TypeOK
    SlotsPointAtLiveCalls
    AnswersAreConsistent
