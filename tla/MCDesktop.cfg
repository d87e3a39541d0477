SPECIFICATION MCSpec
CONSTANTS
    c1 = c1
    c2 = c2
    mcp = mcp
    project = project
    kit = kit
    ruleFile = ruleFile
    path = path
    x = x
    y = y
    None = None
    Legacy = Legacy
    Extensions = {skill, mcp}
    Configured = {mcp}
    Projects = {project}
    Kits = {kit}
    AgentFiles = {ruleFile}
    Paths = {path}
    Contents = {x, y}
    Calls = {c1, c2}
    MaxCalls = 2
    Manifests <- MCManifests
    u1 = u1
    u2 = u2
    skill = skill
    server = server
    plugin = plugin
    agent = agent
    p1 = p1
    p2 = p2
    Updates = {u1, u2}
    Incomplete = {u2}
    Versions = {1, 2}
    UpdateCalls = {c1, c2}
    MaxUpdateCalls = 4
    NoUpdate = NoUpdate
    MaxAttempts = 3
    MaxChanges = 2
    Absent = Absent
    Users = {a, b}
    SessionCalls = {c1, c2}
    MaxSessionCalls = 3
    Missing = Missing
    Corrupted = Corrupted
    Skills = {skill}
    Servers = {server}
    Plugins = {plugin}
    PackageVersions = {1, 2}
    OpCalls = {c1, c2}
    MaxOpCalls = 2
    NoPackage = NoPackage
    AuditedTypes = {"AGENT_CONFIG", "RULE", "MEMORY", "SUBAGENT", "IGNORE_FILE", "SKILL", "MCP_SERVER", "PLUGIN", "HOOK", "CLI_COMMAND", "KIT", "PROJECT", "AGENT"}
    MaxParts = 2
    BuiltIn = {agent}
    Custom = custom
    Template = template
    ScannedKinds = {"rules", "hooks"}
    ScannedProjects = {p1, p2}
    Home = home
    Packages = {skill}
    Scans = {c1, c2}
    MaxTurns = 3
SYMMETRY CallSymmetry
INVARIANTS
    DesktopTypeOK
    LaunchedWasVerified
    UpdateEventsAreTrue
    SignedOutStaysOut
    ServicesInUse
    RecordFollowsPlan
    DeclaredIsDetected
    
    KitReportHonest
PROPERTIES
    VersionChangeIsTold
    BlockedStaysOff
    FindingsAreOnlyAnswered
    RemovalIsTold
    KitRemovalSparesOwn
CHECK_DEADLOCK FALSE
