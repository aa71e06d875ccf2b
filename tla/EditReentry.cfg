\* A user reopens the page while the save of the page just closed is under way.
CONSTANTS
    Users = {ann, bob}
    Owners = {}
    Visits = {v1, v2, v3}
    Tabs = 1
    Prompt = {}
    Breaks = FALSE
    Null = Null
SPECIFICATION Spec
INVARIANTS OneEditor
CHECK_DEADLOCK FALSE
