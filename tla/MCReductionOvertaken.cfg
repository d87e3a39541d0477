SPECIFICATION Spec
CONSTANTS
    alice = alice
    bob = bob
    root = root
    hq = hq
    dev = dev
    ops = ops
    ext = ext
    NoDepartment = NoDepartment
    NoPackage = NoPackage
    NoSubmission = NoSubmission
    Users <- AdminUsers
    SystemAdmins <- MCSystemAdmins
    DepartmentAdmins <- MCDepartmentAdmins
    Departments <- AdminDepartments
    DepartmentOf <- AdminDepartmentOf
    PathToRoot <- AdminPathToRoot
    Extensions <- MCExtensions
    Requests <- PublishAndOpen
    Submissions = {s1, s2}
    Packages = {p1, p2}
    Transactions = {t1}
    Callers = {c1}
    MaxVersion = 1
    MaxRevisions = 1
SYMMETRY Symmetry
PROPERTY ReductionTakesEffect
CHECK_DEADLOCK FALSE
