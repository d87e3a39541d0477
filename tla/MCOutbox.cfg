SPECIFICATION TrafficSpec
CONSTANTS
    Events = {e1, e2}
    NoEvent = NoEvent
    Malformed = {e1}
    Workers = {w1, w2}
    BatchSize = 1
    MaxRetryCount = 3
    MaxCrashes = 1
INVARIANTS NotificationsAccounted NotificationsBounded
PROPERTIES DeadLetterIsFinal EveryEventSettles
