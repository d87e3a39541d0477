------------------------- MODULE ExtensionLifecycle -------------------------
(***************************************************************************)
(* The published extensions: the rows of extensions, extension_versions    *)
(* and extension_authorization_scopes, the package objects attached to     *)
(* them, and every operation that changes them.  Two kinds of caller do:   *)
(* an approved review (Materialize, one step of the review transaction)    *)
(* and the governance calls of authors, maintainers and administrators.    *)
(*                                                                         *)
(* A governance call reads the extension row without a lock, checks it and *)
(* then updates single columns without a condition, so the model gives it  *)
(* two steps: one that reads and leaves the UPDATE in pending, one that    *)
(* executes it.  READ COMMITTED isolation lets any transaction commit in   *)
(* between.  Calls that change nothing (the status is already the one      *)
(* asked for) are stuttering steps and have no action.                     *)
(*                                                                         *)
(* Scope rows are replaced, never updated: DELETE those of the extension,  *)
(* then INSERT one.  The DELETE sees the rows its snapshot shows, and no   *)
(* index keeps an extension to one row, so rows that others insert after   *)
(* the snapshot survive; a pending scope UPDATE collects them in unseen.   *)
(***************************************************************************)
EXTENDS Organization, FiniteSets

CONSTANTS
    Extensions,     \* business ids of extensions
    Packages,       \* package objects, one per accepted upload
    NoPackage,      \* no row in extension_versions
    MaxVersion,     \* bound on the version numbers of a run
    Callers         \* concurrent governance requests

ASSUME ExtensionAssumption ==
    /\ NoPackage \notin Packages
    /\ MaxVersion \in Nat \ {0}

VARIABLES
    extensions,     \* the row of each extension
    scopes,         \* its rows of extension_authorization_scopes
    versions,       \* versions[e][v]: the package extension_versions names
    attached,       \* package_objects: the extension and version of a package
    pending         \* the UPDATE each governance call is about to execute

extensionVars == <<extensions, scopes, versions, attached, pending>>

-----------------------------------------------------------------------------

\* SemVer is a total order; the model keeps the order and drops the syntax.
Versions == 1..MaxVersion

Statuses == {"PUBLISHED", "DELISTED", "SECURITY_DELISTED", "ARCHIVED"}

Visibilities == {"PUBLIC_TO_ALL_LOGGED_IN", "AUTHORIZED_ONLY"}

Absent == [status |-> "ABSENT"]

ExtensionRows ==
    [status : Statuses, version : Versions, visibility : Visibilities,
     ownerDepartment : Departments, maintainer : Users, author : Users]

SubmissionTypes == {"FIRST_PUBLISH", "VERSION_UPDATE", "METADATA_CHANGE", "ARCHIVE"}

\* What a revision asks to publish, its consumed package included.
Revisions ==
    [type : SubmissionTypes, extension : Extensions, version : Versions,
     scope : Scopes, visibility : Visibilities, package : Packages]

Exists(e) == extensions[e] # Absent

NotAttached == [version |-> 0]

Attachments == [extension : Extensions, version : Versions]

NoUpdate == [column |-> "none"]

Updates ==
    [column : {"status"}, extension : Extensions, status : Statuses]
    \cup [column : {"scope"}, extension : Extensions, scope : DepartmentScopes,
          unseen : SUBSET Scopes]
    \cup [column : {"visibility"}, extension : Extensions]
    \cup [column : {"owner"}, extension : Extensions,
          ownerDepartment : Departments, maintainer : Users]

ExtensionTypeOK ==
    /\ extensions \in [Extensions -> ExtensionRows \cup {Absent}]
    /\ scopes \in [Extensions -> SUBSET Scopes]
    /\ versions \in [Extensions -> [Versions -> Packages \cup {NoPackage}]]
    /\ attached \in [Packages -> Attachments \cup {NotAttached}]
    /\ pending \in [Callers -> Updates \cup {NoUpdate}]

ExtensionInit ==
    /\ extensions = [e \in Extensions |-> Absent]
    /\ scopes = [e \in Extensions |-> {}]
    /\ versions = [e \in Extensions |-> [v \in Versions |-> NoPackage]]
    /\ attached = [p \in Packages |-> NotAttached]
    /\ pending = [c \in Callers |-> NoUpdate]

-----------------------------------------------------------------------------
(* Replacing the scope rows of an extension.                               *)

\* A scope UPDATE whose snapshot is older than a new row.
Overtaken(update, e, scope) ==
    IF update.column = "scope" /\ update.extension = e
    THEN [update EXCEPT !.unseen = @ \cup {scope}]
    ELSE update

InsertScope(e, survivors, scope) ==
    scopes' = [scopes EXCEPT ![e] = survivors \cup {scope}]

-----------------------------------------------------------------------------
(* What an approval does to the catalogue.                                 *)

\* The row an approved revision leaves: a new one owned by the submitter, or
\* the old one published again with the content of the revision.
PublishedRow(e, revision, submitter) ==
    IF Exists(e)
    THEN [extensions[e] EXCEPT !.status     = "PUBLISHED",
                               !.version    = revision.version,
                               !.visibility = revision.visibility]
    ELSE [status |-> "PUBLISHED", version |-> revision.version,
          visibility |-> revision.visibility,
          ownerDepartment |-> DepartmentOf[submitter],
          maintainer |-> submitter, author |-> submitter]

MaterializeArchive(revision) ==
    /\ revision.type = "ARCHIVE"
    /\ Exists(revision.extension)
    /\ extensions' = [extensions EXCEPT ![revision.extension].status = "ARCHIVED"]
    /\ UNCHANGED <<scopes, versions, attached, pending>>

\* Mutant: only the publication that creates the extension inserts a version.
FirstVersionOnly(e, v, package) ==
    IF Exists(e) THEN versions ELSE [versions EXCEPT ![e][v] = package]

\* A version that exists keeps its row.
WithVersion(e, v, package) ==
    [versions EXCEPT ![e][v] = IF @ = NoPackage THEN package ELSE @]

\* The package object is attached to the version, even to one that had a row.
MaterializePublication(revision, submitter) ==
    LET e == revision.extension
        v == revision.version
    IN  /\ revision.type # "ARCHIVE"
        /\ extensions' = [extensions EXCEPT ![e] = PublishedRow(e, revision, submitter)]
        /\ versions' = WithVersion(e, v, revision.package)
        /\ attached' = [attached EXCEPT
                ![revision.package] = [extension |-> e, version |-> v]]
        /\ InsertScope(e, {}, revision.scope)
        /\ pending' = [c \in Callers |-> Overtaken(pending[c], e, revision.scope)]

Materialize(revision, submitter) ==
    \/ MaterializeArchive(revision)
    \/ MaterializePublication(revision, submitter)

-----------------------------------------------------------------------------
(* The first step of a governance call: read the row, check it.            *)

IsAuthorOrMaintainer(actor, e) ==
    actor \in {extensions[e].author, extensions[e].maintainer}

CanManageExtension(actor, e) == CanManage(actor, extensions[e].ownerDepartment)

CanGovern(actor, e) == IsAuthorOrMaintainer(actor, e) \/ CanManageExtension(actor, e)

Begin(c, e, update) ==
    /\ pending[c] = NoUpdate
    /\ pending' = [pending EXCEPT ![c] = update]
    /\ UNCHANGED <<extensions, scopes, versions, attached>>

SetStatus(c, e, status) ==
    /\ extensions[e].status # status
    /\ Begin(c, e, [column |-> "status", extension |-> e, status |-> status])

\* selfDelist and adminDelist
Delist(c, actor, e) ==
    /\ CanGovern(actor, e)
    /\ SetStatus(c, e, "DELISTED")

SecurityDelist(c, actor, e) ==
    /\ actor \in SystemAdmins
    /\ SetStatus(c, e, "SECURITY_DELISTED")

Relist(c, actor, e) ==
    /\ CanManageExtension(actor, e)
    /\ extensions[e].status # "ARCHIVED"
    /\ extensions[e].status = "SECURITY_DELISTED" => actor \in SystemAdmins
    /\ SetStatus(c, e, "PUBLISHED")

Archive(c, actor, e) ==
    /\ CanManageExtension(actor, e)
    /\ SetStatus(c, e, "ARCHIVED")

\* Mutants: the request is not validated; an empty list of departments passes.
ReduceScopeToAny(c, actor, e) ==
    /\ CanGovern(actor, e)
    /\ \E scope \in Scopes :
          Begin(c, e, [column |-> "scope", extension |-> e, scope |-> scope,
                       unseen |-> {}])

ReduceScopeToNone(c, actor, e) ==
    /\ CanGovern(actor, e)
    /\ Begin(c, e, [column |-> "scope", extension |-> e,
                    scope |-> [scopeType |-> "SELECTED_DEPARTMENTS", departments |-> {}],
                    unseen |-> {}])

\* selfReduceScope and adminReduceScope: any scope but ALL_EMPLOYEES passes.
ReduceScope(c, actor, e) ==
    /\ CanGovern(actor, e)
    /\ \E scope \in DepartmentScopes :
          Begin(c, e, [column |-> "scope", extension |-> e, scope |-> scope,
                       unseen |-> {}])

\* selfReduceVisibility and adminReduceVisibility
ReduceVisibility(c, actor, e) ==
    /\ CanGovern(actor, e)
    /\ extensions[e].visibility # "AUTHORIZED_ONLY"
    /\ Begin(c, e, [column |-> "visibility", extension |-> e])

\* The column the request leaves out keeps the value that was read.
TransferOwnership(c, actor, e) ==
    /\ CanManageExtension(actor, e)
    /\ \E department \in Departments, maintainer \in Users :
          /\ \/ department # extensions[e].ownerDepartment
             \/ maintainer # extensions[e].maintainer
          /\ Begin(c, e, [column |-> "owner", extension |-> e,
                          ownerDepartment |-> department, maintainer |-> maintainer])

-----------------------------------------------------------------------------
(* The second step: the UPDATE and the commit.                             *)

UpdatedRow(update) ==
    LET row == extensions[update.extension]
    IN  CASE update.column = "status"     -> [row EXCEPT !.status = update.status]
          [] update.column = "visibility" -> [row EXCEPT !.visibility = "AUTHORIZED_ONLY"]
          [] update.column = "owner"      -> [row EXCEPT
                                                !.ownerDepartment = update.ownerDepartment,
                                                !.maintainer      = update.maintainer]

ExecuteUpdate(c) ==
    /\ pending[c].column \in {"status", "visibility", "owner"}
    /\ extensions' = [extensions EXCEPT ![pending[c].extension] = UpdatedRow(pending[c])]
    /\ pending' = [pending EXCEPT ![c] = NoUpdate]
    /\ UNCHANGED <<scopes, versions, attached>>

ExecuteScope(c) ==
    LET update == pending[c]
        e      == update.extension
    IN  /\ update.column = "scope"
        /\ InsertScope(e, update.unseen \cap scopes[e], update.scope)
        /\ pending' = [d \in Callers |->
               IF d = c THEN NoUpdate ELSE Overtaken(pending[d], e, update.scope)]
        /\ UNCHANGED <<extensions, versions, attached>>

Governance ==
    \E c \in Callers :
        \/ \E actor \in Users, e \in Extensions :
              /\ Exists(e)
              /\ \/ Delist(c, actor, e)
                 \/ SecurityDelist(c, actor, e)
                 \/ Relist(c, actor, e)
                 \/ Archive(c, actor, e)
                 \/ ReduceScope(c, actor, e)
                 \/ ReduceVisibility(c, actor, e)
                 \/ TransferOwnership(c, actor, e)
        \/ ExecuteUpdate(c)
        \/ ExecuteScope(c)
=============================================================================
