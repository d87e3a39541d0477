SPECIFICATION Spec
CONSTANTS
    e1 = e1
    e2 = e2
    p = p
    q = q
    mine = mine
    other = other
    Executions = {e1, e2}
    Targets = {p, q}
    Entries = {mine, other}
    InitialFiles <- MissingOrOther
    Plans <- EveryKind
    k = k
    Keys = {k}
    KeyOf <- OneKey
INVARIANT OriginalIsKept
PROPERTIES ReturnedIsReported FailureChangesNothing SuccessIsTheWholePlan
CHECK_DEADLOCK FALSE
