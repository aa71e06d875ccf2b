\* Two overlapping moves.
CONSTANTS
    Docs = {1, 2}
    Workspaces = {w1}
    Requests = {r1, r2}
    SweepWorkspaces = {}
    Overlap = TRUE
    Retention = 1
    MaxTime = 0
    Null = Null
    Keep = Keep
SPECIFICATION Spec
INVARIANTS Acyclic

CHECK_DEADLOCK FALSE
