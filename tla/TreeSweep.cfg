\* One request overlapping the sweep.
CONSTANTS
    Docs = {1, 2}
    Workspaces = {w1}
    Requests = {r1}
    SweepWorkspaces = {w1}
    Overlap = TRUE
    Retention = 1
    MaxTime = 2
    Null = Null
    Keep = Keep
SPECIFICATION FairWitnessSpec
INVARIANTS StampCoherent
PROPERTIES DeletedSettles SweepDeletesWitnessed ExpiredLeavesTrash
CHECK_DEADLOCK FALSE
