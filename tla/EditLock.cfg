\* One page per user; ann returns to it when her calls are settled, bob at once.
CONSTANTS
    Users = {ann, bob}
    Owners = {bob}
    Visits = {v1, v2, v3}
    Tabs = 1
    Prompt = {ann}
    Breaks = TRUE
    Null = Null
    Numbers = {1, 2}
    MaxMarks = 2
SPECIFICATION UploadsSpec
CONSTRAINTS UploadsFinished OnePageUploads
INVARIANTS TypeOK NoLostUpdate OrphanExplained PlaceholdersResolved
PROPERTIES LockKeptWhileEditing FollowsLockedLog
SYMMETRY Interchangeable
CHECK_DEADLOCK FALSE
