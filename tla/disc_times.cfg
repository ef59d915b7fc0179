SPECIFICATION Spec
CONSTANTS
    Nodes = {n1}
    Types = {"game", "chat"}
    Receivers = {r1, r2}
    MaxInbox = 1
    MaxRestarts = 1
    MaxReconnects = 1
INVARIANTS MembersHaveTimes
CHECK_DEADLOCK FALSE
