CONSTANTS
    DEFAULTS = 2
    Name = {1, 2, 3}
    MaxFiles = 3
SPECIFICATION Spec
INVARIANTS  FollowsNoJunk
PROPERTY KeepsOrder
CHECK_DEADLOCK FALSE
