SPECIFICATION Spec
CONSTANTS
    e1 = e1
    e2 = e2
    p = p
    q = q
    mine = mine
    other = other
    Executions = {e1, e2}
    Targets = {p}
    Entries = {mine, other}
    InitialFiles <- MissingOrAny
    Plans <- OneEntryEach
    k = k
    Keys = {k}
    KeyOf <- OneKey
INVARIANT OtherEntriesStay
CHECK_DEADLOCK FALSE
