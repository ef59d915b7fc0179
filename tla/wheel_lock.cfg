SPECIFICATION WheelSpec
CONSTANTS
    Timers = {"t1", "t2"}
    Stoppers = {}
    WheelSize = 2
    WheelLevels = 3
    Delays = {1, 3}
    LastTime = 3
INVARIANTS FlushReinsertsElsewhere
CHECK_DEADLOCK FALSE
