SPECIFICATION Spec
CONSTANTS
    alice = alice
    bob = bob
    root = root
    hq = hq
    dev = dev
    ops = ops
    ext = ext
    NoDepartment = NoDepartment
    NoPackage = NoPackage
    NoSubmission = NoSubmission
    Users <- AdminUsers
    SystemAdmins <- MCSystemAdmins
    DepartmentAdmins <- MCDepartmentAdmins
    Departments <- AdminDepartments
    DepartmentOf <- SeniorDepartmentOf
    PathToRoot <- AdminPathToRoot
    Extensions <- MCExtensions
    Requests <- PublishToEither
    Submissions = {s1, s2}
    Packages = {p1, p2, p3}
    Transactions = {t1, t2}
    Callers = {}
    MaxVersion = 1
    MaxRevisions = 3
INVARIANTS ConsumedExactlyOnce BytesNeverLost JudgedAtMostOnce EffectiveIsApproved ToldMayDecide
SYMMETRY Symmetry
PROPERTIES ImplementsProvenance
CHECK_DEADLOCK FALSE
