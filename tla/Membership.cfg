\* Two users and an administrator; two requests at once, three clicks, one loss.
CONSTANTS
    Users = {me, ann}
    Admins = {adm}
    Me = me
    Workspaces = {1, 2}
    Reqs = {1, 2}
    MaxStarts = 3
    MaxFaults = 1
    Null = Null
SPECIFICATION Spec
INVARIANTS TypeOK OwnerRemains RosterShown RoleShown ListShown
CHECK_DEADLOCK FALSE
