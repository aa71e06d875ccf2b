\* One request or sweep at a time.
CONSTANTS
    Docs = {1, 2, 3}
    Workspaces = {w1, w2}
    Requests = {r1}
    SweepWorkspaces = {w1}
    Overlap = FALSE
    Retention = 1
    MaxTime = 2
    Null = Null
    Keep = Keep
SPECIFICATION Spec
INVARIANTS TypeOK Acyclic ActiveUnderActive BundlesPartitionTrash ChildTrashedFirst
PROPERTIES BundleAtomic TimerNeverReset FollowsLifecycle
CHECK_DEADLOCK FALSE
