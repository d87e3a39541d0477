---------------------------- MODULE Organization ----------------------------
(***************************************************************************)
(* The organisation the hub serves, as the permission checks see it: users *)
(* with a role and a department, a tree of departments, and authorisation  *)
(* scopes.  The organisation is static here; moving, freezing and deleting *)
(* users are the business of another component.                            *)
(*                                                                         *)
(* A scope is the set of departments it opens, children already expanded,  *)
(* so the scope types DEPARTMENT, DEPARTMENT_TREE and SELECTED_DEPARTMENTS *)
(* are one shape and ALL_EMPLOYEES is the other.                           *)
(***************************************************************************)
EXTENDS Naturals, Sequences

CONSTANTS
    Users,              \* everybody with an account
    SystemAdmins,       \* users with role SYSTEM_ADMIN
    DepartmentAdmins,   \* users with role DEPARTMENT_ADMIN
    Departments,        \* departments
    DepartmentOf,       \* [Users -> Departments]
    PathToRoot,         \* the department, its parent, ... up to the root
    NoDepartment        \* SQL null in a department column

ASSUME OrganizationAssumption ==
    /\ SystemAdmins \subseteq Users
    /\ DepartmentAdmins \subseteq Users
    /\ SystemAdmins \cap DepartmentAdmins = {}
    /\ DepartmentOf \in [Users -> Departments]
    /\ PathToRoot \in [Departments -> Seq(Departments)]
    /\ \A d \in Departments : PathToRoot[d] # <<>> /\ PathToRoot[d][1] = d
    /\ NoDepartment \notin Departments

\* The paths are those of a tree: what is above a department on the way to the
\* root is above everything below it.
ASSUME TreeAssumption ==
    \A d \in Departments : \A i \in DOMAIN PathToRoot[d] :
        LET above == PathToRoot[PathToRoot[d][i]]
        IN  /\ PathToRoot[d][i] \in Departments
            /\ \A j \in DOMAIN above : \E k \in DOMAIN PathToRoot[d] : PathToRoot[d][k] = above[j]

Admins == SystemAdmins \cup DepartmentAdmins

-----------------------------------------------------------------------------

AllEmployees == [scopeType |-> "ALL_EMPLOYEES", departments |-> {}]

DepartmentScopes ==
    [scopeType : {"SELECTED_DEPARTMENTS"}, departments : (SUBSET Departments) \ {{}}]

Scopes == DepartmentScopes \cup {AllEmployees}

\* ScopeEvaluator.isAuthorized: the departments whose employees some scope
\* row of the set opens the extension to.
Reach(scopes) ==
    IF AllEmployees \in scopes
    THEN Departments
    ELSE UNION {scope.departments : scope \in scopes}

-----------------------------------------------------------------------------

IsSelfOrDescendant(ancestor, candidate) ==
    \E i \in DOMAIN PathToRoot[candidate] : PathToRoot[candidate][i] = ancestor

\* A department may review a scope when it lies in its own subtree.
CanDepartmentReviewScope(department, scope) ==
    /\ scope # AllEmployees
    /\ \A d \in scope.departments : IsSelfOrDescendant(department, d)

\* The department that owns the review of a scope, NoDepartment when the
\* system administrators do.
ReviewOwnerDepartment(scope, submitterDepartment) ==
    IF CanDepartmentReviewScope(submitterDepartment, scope)
    THEN submitterDepartment
    ELSE NoDepartment

\* Mutant: the test that keeps submitters from their own submission is gone.
CanReviewOwn(actor, submitter, ownerDepartment, scope) ==
    \/ actor \in SystemAdmins
    \/ /\ actor \in DepartmentAdmins
       /\ ownerDepartment # NoDepartment
       /\ IsSelfOrDescendant(DepartmentOf[actor], ownerDepartment)
       /\ CanDepartmentReviewScope(DepartmentOf[actor], scope)

CanReview(actor, submitter, ownerDepartment, scope) ==
    /\ actor # submitter
    /\ \/ actor \in SystemAdmins
       \/ /\ actor \in DepartmentAdmins
          /\ ownerDepartment # NoDepartment
          /\ IsSelfOrDescendant(DepartmentOf[actor], ownerDepartment)
          /\ CanDepartmentReviewScope(DepartmentOf[actor], scope)

CanManage(actor, ownerDepartment) ==
    \/ actor \in SystemAdmins
    \/ /\ actor \in DepartmentAdmins
       /\ IsSelfOrDescendant(DepartmentOf[actor], ownerDepartment)

-----------------------------------------------------------------------------

AdminsOf(department) == {u \in DepartmentAdmins : DepartmentOf[u] = department}

\* Whom a new review task is announced to: the administrators of the nearest
\* department on the way to the root that has any, else the system
\* administrators.
ReviewerIds(ownerDepartment) ==
    IF ownerDepartment = NoDepartment
    THEN SystemAdmins
    ELSE LET path    == PathToRoot[ownerDepartment]
             staffed == {i \in DOMAIN path : AdminsOf(path[i]) # {}}
         IN  IF staffed = {}
             THEN SystemAdmins
             ELSE AdminsOf(path[CHOOSE i \in staffed : \A j \in staffed : i <= j])
=============================================================================
