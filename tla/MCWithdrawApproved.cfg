SPECIFICATION Spec
CONSTANTS
    alice = alice
    bob = bob
    root = root
    hq = hq
    dev = dev
    ops = ops
    ext = ext
    NoDepartment = NoDepartment
    NoPackage = NoPackage
    NoSubmission = NoSubmission
    Users <- MCUsers
    SystemAdmins <- MCSystemAdmins
    DepartmentAdmins <- MCDepartmentAdmins
    Departments <- MCDepartments
    DepartmentOf <- MCDepartmentOf
    PathToRoot <- MCPathToRoot
    Extensions <- MCExtensions
    Requests <- FirstPublish
    Submissions = {s1}
    Packages = {p1}
    Transactions = {t1}
    Callers = {}
    MaxVersion = 1
    MaxRevisions = 1
PROPERTY TerminalIsFinal
CHECK_DEADLOCK FALSE
