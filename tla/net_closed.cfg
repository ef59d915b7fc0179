SPECIFICATION Spec
CONSTANTS
    Connectors = {u1}
    Closers = {u2}
    Calls = 3
    MaxSessions = 2
    MaxLosses = 1
    Retries = {0, 1}
INVARIANTS ClosedStaysClosed
CHECK_DEADLOCK FALSE
