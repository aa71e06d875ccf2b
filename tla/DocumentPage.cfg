\* Two workspaces, two functions at once, three clicks, one loss.
CONSTANTS
    Docs = {1, 2}
    Workspaces = {w1, w2}
    Titles = {t1, t2}
    Tasks = {1, 2}
    MaxClicks = 3
    MaxFaults = 1
    Null = Null
SPECIFICATION Spec
INVARIANTS TypeOK ShowsServer NoGhostSelected TrashShowsServer RemembersOwn NoEndlessWait
CHECK_DEADLOCK FALSE
