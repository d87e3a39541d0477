SPECIFICATION MCSpec
CONSTANTS
    None = None
    NoThing = NoThing
    Nobody = Nobody
    c1 = c1
    c2 = c2
    d1 = d1
    d2 = d2
    Keys = {d1, d2}
    Oversized = {}
    Passes = {c1, c2}
    Callers = {one}
    NoKey = NoKey
    MaxCrashes = 1
    Desks = {d1, d2}
    Submissions = {submission}
    Governed = {governed}
    SettingKeys = {k1, k2}
    Releases = {release}
    Accounts = {account}
    DeskCalls = {c1, c2}
    MaxVersion = 2
    Tabs = {d1, d2}
    Members = {a, b, n}
    Administrators = {a, b}
    TabCalls = {c1, c2}
    MaxTabTurns = 5
    WindowCalls = {c1, c2}
    MaxLoads = 1
    PageCalls = {c1, c2}
    MaxTargets = 2
    Files = {f1, f2}
    Rooted = {f1}
    MaxInspections = 2
SYMMETRY Symmetry
INVARIANTS
    WindowsTypeOK
    SignedOutTabHasNoToken
    SpinnersEnd
    InspectionIsOfTheFile
PROPERTIES
    SavedWasShown
    DroppedIsRecorded
CHECK_DEADLOCK FALSE
