\* Four documents, the top level and one folder.
CONSTANTS
    Docs = {1, 2, 3, 4}
    Folders = {f1}
    Step = 4
    MaxPlacements = 2
    Null = Null
SPECIFICATION Spec
INVARIANTS RootDistinct
PROPERTIES MoveLands RestoreNearby
CHECK_DEADLOCK FALSE
