\* A restore while the sweep runs.
CONSTANTS
    Docs = {1, 2}
    Workspaces = {w1}
    Requests = {r1}
    SweepWorkspaces = {w1}
    Overlap = TRUE
    Retention = 1
    MaxTime = 1
    Null = Null
    Keep = Keep
SPECIFICATION Spec

PROPERTIES SweepDeletesOnlyExpiredTrash
CHECK_DEADLOCK FALSE
