SPECIFICATION MCSpec
CONSTANTS
    Keys = {k1, k2}
    Oversized = {}
    Passes = {p1}
    Callers = {c1}
    NoKey = NoKey
    MaxCrashes = 0
    MaxAttempts = 2
    MaxChanges = 1
    Absent = Absent
PROPERTIES
    EveryGoodEventArrives
    EveryStartSettles
CHECK_DEADLOCK FALSE
