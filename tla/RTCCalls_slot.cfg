SPECIFICATION Spec
CONSTANTS
    Users = {alice, bob, carol}
    Calls = {c1, c2}
    Flaky = {alice, bob, carol}
    None = None
SYMMETRY Symmetry
INVARIANTS
    JoinedAreBusy
