\* A document comes back to a folder where its place has been taken.
CONSTANTS
    Docs = {1, 2, 3, 4}
    Folders = {f1}
    Step = 8
    MaxPlacements = 2
    Null = Null
SPECIFICATION Spec
PROPERTIES RestoreAvoidsCollision
CHECK_DEADLOCK FALSE
