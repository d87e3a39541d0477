------------------------- MODULE MCSubmissionReview -------------------------
(***************************************************************************)
(* A small organisation for TLC: a root department with the system         *)
(* administrator, a department with an administrator and an employee, and  *)
(* a sibling department nobody works in.                                   *)
(***************************************************************************)
EXTENDS SubmissionReview, TLC

CONSTANTS alice, bob, root, hq, dev, ops, ext

MCUsers == {alice, bob, root}
MCSystemAdmins == {root}
MCDepartmentAdmins == {bob}
MCDepartments == {hq, dev, ops}
MCDepartmentOf == alice :> dev @@ bob :> dev @@ root :> hq
MCPathToRoot == hq :> <<hq>> @@ dev :> <<dev, hq>> @@ ops :> <<ops, hq>>
MCExtensions == {ext}

\* A smaller organisation for the runs with governance calls: the two
\* administrators and their departments.
AdminUsers == {bob, root}
AdminDepartments == {hq, dev}
AdminDepartmentOf == bob :> dev @@ root :> hq
AdminPathToRoot == hq :> <<hq>> @@ dev :> <<dev, hq>>

\* Both administrators in the root department, the one without any above it.
SeniorDepartmentOf == bob :> hq @@ root :> hq

Department(ds) == [scopeType |-> "SELECTED_DEPARTMENTS", departments |-> ds]

Request(type, version, scope) ==
    [type |-> type, extension |-> ext, version |-> version, scope |-> scope,
     visibility |-> "PUBLIC_TO_ALL_LOGGED_IN"]

\* A first publication for one department.
FirstPublish == {Request("FIRST_PUBLISH", 1, Department({dev}))}

\* A first publication for one department or for everybody: a revise may ask
\* for the other.
PublishToEither == FirstPublish \cup {Request("FIRST_PUBLISH", 1, AllEmployees)}

\* A first publication, an update that opens it to everybody, an archival.
PublishUpdateArchive ==
    FirstPublish \cup
        {Request("VERSION_UPDATE", 2, AllEmployees), Request("ARCHIVE", 1, Department({dev}))}

\* Two updates that can wait for review at the same time.
PublishAndTwoUpdates ==
    FirstPublish \cup {Request("VERSION_UPDATE", v, Department({dev})) : v \in {2, 3}}

\* A first publication, and a metadata change that opens it to everybody.
PublishAndOpen == FirstPublish \cup {Request("METADATA_CHANGE", 1, AllEmployees)}

Symmetry == Permutations(Submissions) \cup Permutations(Packages) \cup Permutations(Transactions)
=============================================================================
