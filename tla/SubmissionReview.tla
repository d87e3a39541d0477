-------------------------- MODULE SubmissionReview --------------------------
(***************************************************************************)
(* Submissions, their revisions and their review: SubmissionService,       *)
(* RulePrecheckService, the part of PackageUploadService a submission      *)
(* uses, and ReviewService, over the catalogue of ExtensionLifecycle.      *)
(*                                                                         *)
(* One request is one database transaction under READ COMMITTED.           *)
(*   - decide locks the submission row before it reads it, so a decision   *)
(*     is one step.                                                        *)
(*   - withdraw and revise read the submission row without a lock and      *)
(*     update it without a condition; create checks for a competing        *)
(*     submission without a lock and inserts later.  Each has a step that  *)
(*     reads and checks, and a step that writes and commits.               *)
(*   - create and revise take the row lock of the uploaded package in a    *)
(*     step of their own, and there they also touch the file system, which *)
(*     a rollback does not undo.                                           *)
(* A failure anywhere before the commit (an expired upload, a wrong hash,  *)
(* a violated unique index, a crash of the server) is Rollback.            *)
(***************************************************************************)
EXTENDS ExtensionLifecycle

CONSTANTS
    Submissions,    \* ids of submissions
    NoSubmission,   \* the submission a transaction that creates has not got
    Requests,       \* the publication requests users send in a run
    Transactions,   \* concurrent create, revise and withdraw requests
    MaxRevisions    \* bound on the revisions of a submission

ASSUME SubmissionAssumption ==
    /\ Requests \subseteq [type : SubmissionTypes, extension : Extensions,
                           version : Versions, scope : Scopes,
                           visibility : Visibilities]
    /\ NoSubmission \notin Submissions
    /\ MaxRevisions \in Nat \ {0}

VARIABLES
    submissions,    \* rows of submissions
    revisions,      \* revisions[s][n]: the revision number n of s
    reviews,        \* rows of reviews
    uploads,        \* rows of temp_uploads and the files they name
    outbox,         \* notifications written with the data they announce
    transactions    \* what each open transaction has read and done

submissionVars == <<submissions, revisions, reviews, uploads, outbox, transactions>>

vars == <<submissionVars, extensionVars>>

-----------------------------------------------------------------------------

SubmissionStatuses ==
    {"PENDING_REVIEW", "CHANGES_REQUESTED", "APPROVED", "REJECTED", "WITHDRAWN"}

Terminal == {"APPROVED", "REJECTED", "WITHDRAWN"}

NotCreated == [status |-> "NOT_CREATED"]

\* effective is 0 while no revision has been approved.
SubmissionRows ==
    [status : SubmissionStatuses, target : Extensions, submitter : Users,
     ownerDepartment : Departments \cup {NoDepartment},
     current : 1..MaxRevisions, effective : 0..MaxRevisions]

Decisions == {"APPROVE", "REQUEST_CHANGES", "REJECT"}

Reviews ==
    [submission : Submissions, revision : 1..MaxRevisions,
     reviewer : Admins, decision : Decisions]

NotUploaded == [status |-> "NOT_UPLOADED"]

\* temp and final: the file is in the temporary, in the final directory.
UploadRows ==
    [status : {"AVAILABLE", "CONSUMED"}, owner : Users,
     temp : BOOLEAN, final : BOOLEAN]

\* An event stands for the rows of all its recipients, and revision for when
\* they were written: what they say names the submission only.
OutboxEvents ==
    [type : {"REVIEW_TASK_ASSIGNED", "REVIEW_DECISION"},
     submission : Submissions, revision : 1..MaxRevisions, to : SUBSET Users]

Idle == [phase |-> "idle"]

\* phase "checked": the row was read and the rules hold.
\* phase "consumed": the package is locked and marked, not yet committed.
OpenTransactions ==
    [phase : {"checked", "consumed"}, operation : {"create"},
     submission : {NoSubmission}, user : Users,
     revision : Revisions, number : 0..(MaxRevisions + 1)]
    \cup [phase : {"checked", "consumed"}, operation : {"revise"},
          submission : Submissions, user : Users,
          revision : Revisions, number : 0..(MaxRevisions + 1)]
    \cup [phase : {"checked"}, operation : {"withdraw"}, submission : Submissions]

TypeOK ==
    /\ ExtensionTypeOK
    /\ submissions \in [Submissions -> SubmissionRows \cup {NotCreated}]
    /\ revisions \in [Submissions -> Seq(Revisions)]
    /\ \A s \in Submissions : Len(revisions[s]) <= MaxRevisions
    /\ reviews \subseteq Reviews
    /\ uploads \in [Packages -> UploadRows \cup {NotUploaded}]
    /\ outbox \subseteq OutboxEvents
    /\ transactions \in [Transactions -> OpenTransactions \cup {Idle}]

Init ==
    /\ ExtensionInit
    /\ submissions = [s \in Submissions |-> NotCreated]
    /\ revisions = [s \in Submissions |-> <<>>]
    /\ reviews = {}
    /\ uploads = [p \in Packages |-> NotUploaded]
    /\ outbox = {}
    /\ transactions = [t \in Transactions |-> Idle]

-----------------------------------------------------------------------------

Created(s) == submissions[s] # NotCreated

\* RulePrecheckService.validate, for a new submission and for a revision of s.
ExistsPendingSubmission(e, except) ==
    \E s \in Submissions \ {except} :
        /\ Created(s)
        /\ submissions[s].target = e
        /\ submissions[s].status \notin {"REJECTED", "WITHDRAWN"}

ValidRequest(request, except) ==
    LET e == request.extension
    IN  CASE request.type = "FIRST_PUBLISH" ->
                 ~Exists(e) /\ ~ExistsPendingSubmission(e, except)
          [] request.type = "VERSION_UPDATE" ->
                 /\ Exists(e)
                 /\ request.version > extensions[e].version
                 /\ versions[e][request.version] = NoPackage
          [] OTHER -> Exists(e)

Asked(request, package) ==
    [type |-> request.type, extension |-> request.extension,
     version |-> request.version, scope |-> request.scope,
     visibility |-> request.visibility, package |-> package]

Open(t, transaction) ==
    /\ transactions[t] = Idle
    /\ transactions' = [transactions EXCEPT ![t] = transaction]

Close(t) == transactions' = [transactions EXCEPT ![t] = Idle]

Locked(p) ==
    \E t \in Transactions :
        /\ transactions[t].phase = "consumed"
        /\ transactions[t].revision.package = p

-----------------------------------------------------------------------------
(* Uploading a package: the scan accepts it and both rows are inserted.    *)

Upload(user, p) ==
    /\ uploads[p] = NotUploaded
    /\ uploads' = [uploads EXCEPT ![p] =
           [status |-> "AVAILABLE", owner |-> user, temp |-> TRUE, final |-> FALSE]]
    /\ UNCHANGED <<submissions, revisions, reviews, outbox, transactions, extensionVars>>

-----------------------------------------------------------------------------
(* create and revise                                                       *)

BeginCreate(t, user, request, p) ==
    /\ uploads[p] # NotUploaded
    /\ ValidRequest(request, NoSubmission)
    /\ Open(t, [phase |-> "checked", operation |-> "create",
                submission |-> NoSubmission, user |-> user,
                revision |-> Asked(request, p), number |-> 0])
    /\ UNCHANGED <<submissions, revisions, reviews, uploads, outbox, extensionVars>>

BeginRevise(t, s, request, p) ==
    /\ uploads[p] # NotUploaded
    /\ Created(s)
    /\ submissions[s].status = "CHANGES_REQUESTED"
    /\ Len(revisions[s]) < MaxRevisions
    /\ ValidRequest(request, s)
    /\ Open(t, [phase |-> "checked", operation |-> "revise",
                submission |-> s, user |-> submissions[s].submitter,
                revision |-> Asked(request, p), number |-> 0])
    /\ UNCHANGED <<submissions, revisions, reviews, uploads, outbox, extensionVars>>

NextRevision(s) == IF s = NoSubmission THEN 1 ELSE Len(revisions[s]) + 1

\* Mutant: no row lock, and the temporary file is left to a clean-up job.
ConsumeUnlocked(t) ==
    LET tx == transactions[t]
        p  == tx.revision.package
    IN  /\ tx.phase = "checked"
        /\ tx.operation \in {"create", "revise"}
        /\ uploads[p].owner = tx.user
        /\ uploads[p].status = "AVAILABLE"
        /\ uploads' = [uploads EXCEPT ![p].final = TRUE]
        /\ transactions' = [transactions EXCEPT
               ![t].phase = "consumed", ![t].number = NextRevision(tx.submission)]
        /\ UNCHANGED <<submissions, revisions, reviews, outbox, extensionVars>>

\* consumeForSubmission, and the revision number a revise computes after it.
\* The copy into the final directory and the deletion of the temporary file
\* happen at once; the row stays AVAILABLE to others until the commit.
Consume(t) ==
    LET tx == transactions[t]
        p  == tx.revision.package
    IN  /\ tx.phase = "checked"
        /\ tx.operation \in {"create", "revise"}
        /\ ~Locked(p)
        /\ uploads[p].owner = tx.user
        /\ uploads[p].status = "AVAILABLE"
        /\ uploads[p].temp
        /\ uploads' = [uploads EXCEPT ![p].final = TRUE, ![p].temp = FALSE]
        /\ transactions' = [transactions EXCEPT
               ![t].phase = "consumed", ![t].number = NextRevision(tx.submission)]
        /\ UNCHANGED <<submissions, revisions, reviews, outbox, extensionVars>>

ReviewOwnerOf(submitter, scope) ==
    ReviewOwnerDepartment(scope, DepartmentOf[submitter])

TaskAssigned(s, n, ownerDepartment) ==
    [type |-> "REVIEW_TASK_ASSIGNED", submission |-> s, revision |-> n,
     to |-> ReviewerIds(ownerDepartment)]

MarkConsumed(p) == uploads' = [uploads EXCEPT ![p].status = "CONSUMED"]

CommitCreate(t, s) ==
    LET tx    == transactions[t]
        owner == ReviewOwnerOf(tx.user, tx.revision.scope)
    IN  /\ tx.phase = "consumed"
        /\ tx.operation = "create"
        /\ ~Created(s)
        /\ submissions' = [submissions EXCEPT ![s] =
               [status |-> "PENDING_REVIEW", target |-> tx.revision.extension,
                submitter |-> tx.user, ownerDepartment |-> owner,
                current |-> 1, effective |-> 0]]
        /\ revisions' = [revisions EXCEPT ![s] = <<tx.revision>>]
        /\ MarkConsumed(tx.revision.package)
        /\ outbox' = outbox \cup {TaskAssigned(s, 1, owner)}
        /\ Close(t)
        /\ UNCHANGED <<reviews, extensionVars>>

\* Mutant: without the unique index on revision numbers.
CommitReviseTwice(t) ==
    LET tx    == transactions[t]
        s     == tx.submission
        owner == ReviewOwnerOf(tx.user, tx.revision.scope)
    IN  /\ tx.phase = "consumed"
        /\ tx.operation = "revise"
        /\ NextRevision(s) <= MaxRevisions
        /\ submissions' = [submissions EXCEPT
               ![s].status = "PENDING_REVIEW",
               ![s].ownerDepartment = owner,
               ![s].current = tx.number]
        /\ revisions' = [revisions EXCEPT ![s] = Append(@, tx.revision)]
        /\ MarkConsumed(tx.revision.package)
        /\ outbox' = outbox \cup {TaskAssigned(s, tx.number, owner)}
        /\ Close(t)
        /\ UNCHANGED <<reviews, extensionVars>>

\* Mutant: a revision is reviewed by whoever owned the review before.
CommitReviseForOwner(t) ==
    LET tx    == transactions[t]
        s     == tx.submission
    IN  /\ tx.phase = "consumed"
        /\ tx.operation = "revise"
        /\ tx.number = NextRevision(s)
        /\ tx.number <= MaxRevisions
        /\ submissions' = [submissions EXCEPT
               ![s].status = "PENDING_REVIEW",
               ![s].current = tx.number]
        /\ revisions' = [revisions EXCEPT ![s] = Append(@, tx.revision)]
        /\ MarkConsumed(tx.revision.package)
        /\ outbox' = outbox \cup {TaskAssigned(s, tx.number, submissions[s].ownerDepartment)}
        /\ Close(t)
        /\ UNCHANGED <<reviews, extensionVars>>

\* Another revision with the same number trips uk_submission_revision: the
\* guard on number leaves only Rollback to such a transaction.
CommitRevise(t) ==
    LET tx    == transactions[t]
        s     == tx.submission
        owner == ReviewOwnerOf(tx.user, tx.revision.scope)
    IN  /\ tx.phase = "consumed"
        /\ tx.operation = "revise"
        /\ tx.number = NextRevision(s)
        /\ tx.number <= MaxRevisions
        /\ submissions' = [submissions EXCEPT
               ![s].status = "PENDING_REVIEW",
               ![s].ownerDepartment = owner,
               ![s].current = tx.number]
        /\ revisions' = [revisions EXCEPT ![s] = Append(@, tx.revision)]
        /\ MarkConsumed(tx.revision.package)
        /\ outbox' = outbox \cup {TaskAssigned(s, tx.number, owner)}
        /\ Close(t)
        /\ UNCHANGED <<reviews, extensionVars>>

\* Mutant: a failed request deletes the permanent copy it has made.
RollbackWithCleanup(t) ==
    LET tx == transactions[t]
    IN  /\ tx # Idle
        /\ Close(t)
        /\ uploads' = IF tx.phase = "consumed"
                      THEN [uploads EXCEPT ![tx.revision.package].final = FALSE]
                      ELSE uploads
        /\ UNCHANGED <<submissions, revisions, reviews, outbox, extensionVars>>

\* The rows go back to what they were; the files do not.
Rollback(t) ==
    /\ transactions[t] # Idle
    /\ Close(t)
    /\ UNCHANGED <<submissions, revisions, reviews, uploads, outbox, extensionVars>>

-----------------------------------------------------------------------------
(* withdraw                                                                *)

BeginWithdraw(t, s) ==
    /\ Created(s)
    /\ submissions[s].status \notin Terminal
    /\ Open(t, [phase |-> "checked", operation |-> "withdraw", submission |-> s])
    /\ UNCHANGED <<submissions, revisions, reviews, uploads, outbox, extensionVars>>

CommitWithdraw(t) ==
    /\ transactions[t].phase = "checked"
    /\ transactions[t].operation = "withdraw"
    /\ submissions' = [submissions EXCEPT
           ![transactions[t].submission].status = "WITHDRAWN"]
    /\ Close(t)
    /\ UNCHANGED <<revisions, reviews, uploads, outbox, extensionVars>>

-----------------------------------------------------------------------------
(* decide                                                                  *)

\* Mutant: the revision the submission was created with.
FirstRevision(s) == revisions[s][1]

CurrentRevision(s) == revisions[s][submissions[s].current]

StatusAfter(decision) ==
    CASE decision = "APPROVE"         -> "APPROVED"
      [] decision = "REQUEST_CHANGES" -> "CHANGES_REQUESTED"
      [] decision = "REJECT"          -> "REJECTED"

\* Mutant: every decision makes the revision the effective one.
EffectiveWhateverDecided(row, decision) == row.current

EffectiveAfter(row, decision) ==
    IF decision = "APPROVE" THEN row.current ELSE row.effective

\* The index uk_reviews_submission_revision admits one review of a revision.
Decide(reviewer, s, decision) ==
    LET row == submissions[s]
    IN  /\ Created(s)
        /\ CanReview(reviewer, row.submitter, row.ownerDepartment, CurrentRevision(s).scope)
        /\ row.status = "PENDING_REVIEW"
        /\ reviews' = reviews \cup {[submission |-> s, revision |-> row.current,
                                     reviewer |-> reviewer, decision |-> decision]}
        /\ submissions' = [submissions EXCEPT
               ![s].status = StatusAfter(decision),
               ![s].effective = EffectiveAfter(row, decision)]
        /\ outbox' = outbox \cup {[type |-> "REVIEW_DECISION", submission |-> s,
                                   revision |-> row.current, to |-> {row.submitter}]}
        /\ IF decision = "APPROVE"
           THEN Materialize(CurrentRevision(s), row.submitter)
           ELSE UNCHANGED extensionVars
        /\ UNCHANGED <<revisions, uploads, transactions>>

-----------------------------------------------------------------------------

CreateNext ==
    \E t \in Transactions :
        \/ \E user \in Users, request \in Requests, p \in Packages :
              BeginCreate(t, user, request, p)
        \/ \E s \in Submissions : CommitCreate(t, s)

ReviseNext ==
    \E t \in Transactions :
        \/ \E s \in Submissions, request \in Requests, p \in Packages :
              BeginRevise(t, s, request, p)
        \/ CommitRevise(t)

WithdrawNext ==
    \E t \in Transactions :
        \/ \E s \in Submissions : BeginWithdraw(t, s)
        \/ CommitWithdraw(t)

Next ==
    \/ \E user \in Users, p \in Packages : Upload(user, p)
    \/ CreateNext
    \/ ReviseNext
    \/ WithdrawNext
    \/ \E t \in Transactions : Consume(t) \/ Rollback(t)
    \/ \E reviewer \in Admins, s \in Submissions, decision \in Decisions :
          Decide(reviewer, s, decision)
    \/ Governance /\ UNCHANGED submissionVars

Spec == Init /\ [][Next]_vars

-----------------------------------------------------------------------------
(* Safety                                                                  *)

RevisionNumbers ==
    {x \in Submissions \X (1..MaxRevisions) : x[2] <= Len(revisions[x[1]])}

PackageOf(x) == revisions[x[1]][x[2]].package

\* A temporary upload ends in exactly one committed revision, and it is marked
\* CONSUMED in the transaction that commits that revision: two requests that
\* name the same upload, or a request retried after a rollback, cannot submit
\* the same package twice or lose the mark.  (lockUpload and the status test.)
ConsumedExactlyOnce ==
    /\ \A x, y \in RevisionNumbers : PackageOf(x) = PackageOf(y) => x = y
    /\ \A p \in Packages :
          uploads[p] # NotUploaded =>
             (uploads[p].status = "CONSUMED" <=> \E x \in RevisionNumbers : PackageOf(x) = p)

\* A revision is judged at most once, and a submission that waits for a
\* decision waits for one on a revision nobody has judged, so the unique index
\* on reviews never turns a legitimate decision into an error, even when a
\* withdrawal or a second revise committed in between.
JudgedAtMostOnce ==
    /\ \A q, r \in reviews :
          q.submission = r.submission /\ q.revision = r.revision => q = r
    /\ \A s \in Submissions, r \in reviews :
          Created(s) /\ submissions[s].status = "PENDING_REVIEW" =>
             ~(r.submission = s /\ r.revision = submissions[s].current)

Approvals == {r \in reviews : r.decision = "APPROVE"}

JudgedRevision(r) == revisions[r.submission][r.revision]

\* Every package object a download can hand out (attached to an extension and a
\* version) was approved for that extension and version by an administrator
\* who did not submit it, and extension_versions names only such packages.
ServedIsApproved ==
    /\ \A p \in Packages : attached[p] # NotAttached =>
          \E r \in Approvals :
             /\ JudgedRevision(r).package = p
             /\ JudgedRevision(r).extension = attached[p].extension
             /\ JudgedRevision(r).version = attached[p].version
             /\ r.reviewer # submissions[r.submission].submitter
    /\ \A e \in Extensions, v \in Versions : versions[e][v] # NoPackage =>
          attached[versions[e][v]] = [extension |-> e, version |-> v]

\* An extension open to all employees was opened by a system administrator's
\* approval: neither a department administrator's review nor any governance
\* call, however they interleave, gets a scope to ALL_EMPLOYEES.
EveryoneScopeFromSystemAdmin ==
    \A e \in Extensions :
        AllEmployees \in scopes[e] =>
            \E r \in Approvals :
               /\ r.reviewer \in SystemAdmins
               /\ JudgedRevision(r).extension = e
               /\ JudgedRevision(r).scope = AllEmployees

\* The current version of an extension always has a package to install, in
\* whatever order publications, updates and archivals were approved.
CurrentVersionHasPackage ==
    \A e \in Extensions : Exists(e) => versions[e][extensions[e].version] # NoPackage

\* APPROVED means that the current revision is the effective one, and an
\* effective revision is one that was approved.
EffectiveIsApproved ==
    \A s \in Submissions : Created(s) =>
        /\ submissions[s].status = "APPROVED" => submissions[s].effective = submissions[s].current
        /\ submissions[s].effective # 0 =>
              \E r \in Approvals : r.submission = s /\ r.revision = submissions[s].effective

\* A package that was uploaded is never lost: some copy of its bytes remains
\* through every rollback, and a consumed one has its permanent copy.
BytesNeverLost ==
    \A p \in Packages : uploads[p] # NotUploaded =>
        /\ uploads[p].temp \/ uploads[p].final
        /\ uploads[p].status = "CONSUMED" => uploads[p].final

\* Whoever was told that the revision under review waits may decide on it,
\* unless it is their own: the recipients go by the department that owns the
\* review and a walk up the tree, the decision by that department, the tree and
\* the scope asked for, and a revise can ask for another scope, also beside a
\* decision, a withdrawal or another revise.
ToldMayDecide ==
    \A m \in outbox :
        LET row == submissions[m.submission]
        IN  m.type = "REVIEW_TASK_ASSIGNED" /\ Created(m.submission) /\ m.revision = row.current =>
                \A u \in m.to \ {row.submitter} :
                    CanReview(u, row.submitter, row.ownerDepartment,
                              CurrentRevision(m.submission).scope)

-----------------------------------------------------------------------------
(* The abstract specification: what happens to a package.                  *)

Proposals(p) == {x \in RevisionNumbers : PackageOf(x) = p}

Verdicts(p) == {r \in reviews : JudgedRevision(r).package = p}

Stage(p) ==
    LET verdicts == Verdicts(p)
    IN  CASE Proposals(p) = {} -> "fresh"
          [] Proposals(p) # {} /\ verdicts = {} -> "proposed"
          [] \E r \in verdicts : r.decision = "APPROVE" -> "approved"
          [] OTHER -> "refused"

Proposer(p) ==
    IF Proposals(p) = {} THEN NoSubmission
    ELSE submissions[(CHOOSE x \in Proposals(p) : TRUE)[1]].submitter

Judged(p) ==
    IF Verdicts(p) = {} THEN NoSubmission
    ELSE (CHOOSE r \in Verdicts(p) : TRUE).reviewer

Provenance == INSTANCE PackageProvenance WITH
    Nobody <- NoSubmission,
    stage  <- [p \in Packages |-> Stage(p)],
    owner  <- [p \in Packages |-> Proposer(p)],
    judge  <- [p \in Packages |-> Judged(p)],
    served <- {p \in Packages : attached[p] # NotAttached}

\* The service implements PackageProvenance: through races that resurrect or
\* overwrite submissions, a package is proposed once, judged once by somebody
\* else, and served only after an approval.
ImplementsProvenance == Provenance!ProvenanceSpec

-----------------------------------------------------------------------------
(* What the code and the design documents say and the code does not do.    *)

\* "A terminal submission cannot be withdrawn", and 6.13 lists no transition
\* out of APPROVED, REJECTED or WITHDRAWN.
TerminalIsFinal ==
    [][\A s \in Submissions :
          Created(s) /\ submissions[s].status \in Terminal =>
             submissions'[s].status = submissions[s].status]_vars

\* "A version update must be higher than the current version".
VersionNeverDecreases ==
    [][\A e \in Extensions :
          Exists(e) => extensions'[e].version >= extensions[e].version]_vars

\* 6.8: a scope reduction takes effect directly: once the call has committed,
\* nobody outside the scope it asked for is authorised.
ReductionTakesEffect ==
    [][\A c \in Callers :
          pending[c].column = "scope" /\ pending'[c] = NoUpdate =>
             Reach(scopes'[pending[c].extension]) \subseteq Reach({pending[c].scope})]_vars
=============================================================================
