\* Two documents, two controls, two requests at once.
CONSTANTS
    Docs = {d1, d2}
    Links = {1, 2}
    Controls = {c1, c2}
    Reqs = {1, 2}
    MaxStarts = 3
    MaxEvents = 2
    MaxFaults = 1
    Null = Null
SPECIFICATION FairSpec
INVARIANTS TypeOK DeadStaysDead ControlShowsServer
PROPERTIES ReissueEnables InvalidRetired
CHECK_DEADLOCK FALSE
