\* Two users, two pages, three calls at once, one fault.
CONSTANTS
    Users = {u1, u2}
    Pages = {home, p1}
    Home = home
    Calls = {1, 2, 3}
    MaxActs = 4
    MaxFaults = 1
    Null = Null
SPECIFICATION Spec
INVARIANTS SessionShowsCookie ListOwn ReturnsWhereAsked
CHECK_DEADLOCK FALSE
SYMMETRY UserSymmetry
