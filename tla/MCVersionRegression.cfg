SPECIFICATION Spec
CONSTANTS
    alice = alice
    bob = bob
    root = root
    hq = hq
    dev = dev
    ops = ops
    ext = ext
    NoDepartment = NoDepartment
    NoPackage = NoPackage
    NoSubmission = NoSubmission
    Users <- MCUsers
    SystemAdmins <- MCSystemAdmins
    DepartmentAdmins <- MCDepartmentAdmins
    Departments <- MCDepartments
    DepartmentOf <- MCDepartmentOf
    PathToRoot <- MCPathToRoot
    Extensions <- MCExtensions
    Requests <- PublishAndTwoUpdates
    Submissions = {s1, s2, s3}
    Packages = {p1, p2, p3}
    Transactions = {t1}
    Callers = {}
    MaxVersion = 3
    MaxRevisions = 1
SYMMETRY Symmetry
PROPERTY VersionNeverDecreases
CHECK_DEADLOCK FALSE
