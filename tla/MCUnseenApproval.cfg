SPECIFICATION DeskSpec
CONSTANTS
    Desks = {d1, d2}
    Submissions = {submission}
    Governed = {}
    SettingKeys = {}
    Releases = {}
    Accounts = {}
    DeskCalls = {c1, c2}
    MaxVersion = 2
    NoThing = NoThing
PROPERTY StaleDecisionFails
CHECK_DEADLOCK FALSE
