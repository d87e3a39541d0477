----------------------- MODULE SubmissionReviewProofs -----------------------
(***************************************************************************)
(* Theorems about SubmissionReview, for every organisation, every set of   *)
(* submissions, packages and requests, and every bound.                    *)
(***************************************************************************)
EXTENDS SubmissionReview, TLAPS

\* The current revision of a submission is one it has.
CurrentExists ==
    \A s \in Submissions : Created(s) => submissions[s].current <= Len(revisions[s])

\* A transaction that revises or withdraws found its submission.
OpenIsCreated ==
    \A t \in Transactions :
        transactions[t] # Idle /\ transactions[t].operation \in {"revise", "withdraw"} =>
            Created(transactions[t].submission)

\* A transaction that publishes names a package that was uploaded.
OpenIsUploaded ==
    \A t \in Transactions :
        transactions[t] # Idle /\ transactions[t].operation \in {"create", "revise"} =>
            uploads[transactions[t].revision.package] # NotUploaded

\* A governance call found its extension.
PendingExists ==
    \A c \in Callers : pending[c] # NoUpdate => Exists(pending[c].extension)

TypeInv ==
    /\ TypeOK
    /\ CurrentExists
    /\ OpenIsCreated
    /\ OpenIsUploaded
    /\ PendingExists

-----------------------------------------------------------------------------

LEMMA TypeInit == ASSUME Init PROVE TypeInv
<1>1. ExtensionTypeOK
  BY DEF Init, ExtensionInit, ExtensionTypeOK
<1>2. TypeOK
  BY <1>1, SubmissionAssumption DEF Init, TypeOK
<1>3. CurrentExists
  BY DEF Init, CurrentExists, Created
<1>4. OpenIsCreated
  BY DEF Init, OpenIsCreated
<1>5. OpenIsUploaded
  BY DEF Init, OpenIsUploaded
<1>6. PendingExists
  BY DEF Init, ExtensionInit, PendingExists
<1> QED
  BY <1>2, <1>3, <1>4, <1>5, <1>6 DEF TypeInv

-----------------------------------------------------------------------------
(* What the helpers return.                                                *)

LEMMA AskedType ==
    ASSUME NEW request \in Requests, NEW p \in Packages
    PROVE  Asked(request, p) \in Revisions
BY SubmissionAssumption DEF Asked, Revisions

LEMMA OwnerType ==
    ASSUME NEW user \in Users, NEW scope \in Scopes
    PROVE  ReviewOwnerOf(user, scope) \in Departments \cup {NoDepartment}
BY OrganizationAssumption DEF ReviewOwnerOf, ReviewOwnerDepartment

LEMMA ReviewersType ==
    ASSUME NEW department \in Departments \cup {NoDepartment}
    PROVE  ReviewerIds(department) \subseteq Users
BY OrganizationAssumption DEF ReviewerIds, AdminsOf

LEMMA TaskType ==
    ASSUME NEW s \in Submissions, NEW n \in 1..MaxRevisions,
           NEW department \in Departments \cup {NoDepartment}
    PROVE  TaskAssigned(s, n, department) \in OutboxEvents
BY ReviewersType DEF TaskAssigned, OutboxEvents

LEMMA NextRevisionType ==
    ASSUME TypeOK, NEW s \in Submissions \cup {NoSubmission}
    PROVE  NextRevision(s) \in 0..(MaxRevisions + 1)
<1>1. CASE s = NoSubmission
  BY <1>1, SubmissionAssumption DEF NextRevision
<1>2. CASE s \in Submissions
  <2>1. Len(revisions[s]) \in Nat /\ Len(revisions[s]) <= MaxRevisions
    BY <1>2 DEF TypeOK
  <2> QED
    BY <1>2, <2>1, SubmissionAssumption DEF NextRevision
<1> QED
  BY <1>1, <1>2

-----------------------------------------------------------------------------
(* Type correctness, action by action.                                     *)

LEMMA UploadType ==
    ASSUME TypeInv, NEW user \in Users, NEW p \in Packages, Upload(user, p)
    PROVE  TypeInv'
<1>1. uploads' \in [Packages -> UploadRows \cup {NotUploaded}]
  BY DEF TypeInv, TypeOK, Upload, UploadRows
<1>2. OpenIsUploaded'
  BY DEF TypeInv, TypeOK, Upload, OpenIsUploaded, NotUploaded
<1> QED
  BY <1>1, <1>2 DEF Upload, TypeInv, TypeOK, ExtensionTypeOK, extensionVars,
     CurrentExists, OpenIsCreated, PendingExists, Created, Exists

LEMMA OpenType ==
    ASSUME TypeInv, NEW t \in Transactions, NEW transaction \in OpenTransactions,
           Open(t, transaction),
           transaction.operation \in {"revise", "withdraw"} => Created(transaction.submission),
           transaction.operation \in {"create", "revise"} =>
              uploads[transaction.revision.package] # NotUploaded,
           UNCHANGED <<submissions, revisions, reviews, uploads, outbox, extensionVars>>
    PROVE  TypeInv'
<1>1. transactions' \in [Transactions -> OpenTransactions \cup {Idle}]
  BY DEF TypeInv, TypeOK, Open
<1>2. TypeOK'
  BY <1>1 DEF TypeInv, TypeOK, ExtensionTypeOK, extensionVars
<1>3. OpenIsCreated'
  BY DEF TypeInv, TypeOK, OpenIsCreated, Open, Created
<1>4. OpenIsUploaded'
  BY DEF TypeInv, TypeOK, OpenIsUploaded, Open
<1> QED
  BY <1>2, <1>3, <1>4 DEF TypeInv, CurrentExists, PendingExists, Created, Exists, extensionVars

LEMMA CloseType ==
    ASSUME TypeInv, NEW t \in Transactions, Close(t),
           UNCHANGED <<submissions, revisions, reviews, uploads, outbox, extensionVars>>
    PROVE  TypeInv'
<1>1. transactions' \in [Transactions -> OpenTransactions \cup {Idle}]
  BY DEF TypeInv, TypeOK, Close
<1>2. TypeOK'
  BY <1>1 DEF TypeInv, TypeOK, ExtensionTypeOK, extensionVars
<1>3. OpenIsCreated'
  BY DEF TypeInv, TypeOK, OpenIsCreated, Close, Created
<1>4. OpenIsUploaded'
  BY DEF TypeInv, TypeOK, OpenIsUploaded, Close
<1> QED
  BY <1>2, <1>3, <1>4 DEF TypeInv, CurrentExists, PendingExists, Created, Exists, extensionVars

LEMMA BeginCreateType ==
    ASSUME TypeInv, NEW t \in Transactions, NEW user \in Users, NEW request \in Requests,
           NEW p \in Packages, BeginCreate(t, user, request, p)
    PROVE  TypeInv'
<1> DEFINE transaction ==
      [phase |-> "checked", operation |-> "create", submission |-> NoSubmission,
       user |-> user, revision |-> Asked(request, p), number |-> 0]
<1>1. transaction \in OpenTransactions
  BY AskedType, SubmissionAssumption DEF OpenTransactions
<1>2. Open(t, transaction)
  BY DEF BeginCreate
<1>3. transaction.operation = "create" /\ transaction.revision.package = p
  BY DEF Asked
<1> HIDE DEF transaction
<1> QED
  BY <1>1, <1>2, <1>3, OpenType DEF BeginCreate

LEMMA BeginReviseType ==
    ASSUME TypeInv, NEW t \in Transactions, NEW s \in Submissions, NEW request \in Requests,
           NEW p \in Packages, BeginRevise(t, s, request, p)
    PROVE  TypeInv'
<1> DEFINE transaction ==
      [phase |-> "checked", operation |-> "revise", submission |-> s,
       user |-> submissions[s].submitter, revision |-> Asked(request, p), number |-> 0]
<1>1. submissions[s].submitter \in Users
  BY DEF TypeInv, TypeOK, BeginRevise, Created, SubmissionRows
<1>2. transaction \in OpenTransactions
  BY <1>1, AskedType, SubmissionAssumption DEF OpenTransactions
<1>3. Open(t, transaction)
  BY DEF BeginRevise
<1>4. transaction.submission = s /\ Created(s) /\ transaction.revision.package = p
  BY DEF BeginRevise, Asked
<1> HIDE DEF transaction
<1> QED
  BY <1>2, <1>3, <1>4, OpenType DEF BeginRevise

LEMMA BeginWithdrawType ==
    ASSUME TypeInv, NEW t \in Transactions, NEW s \in Submissions, BeginWithdraw(t, s)
    PROVE  TypeInv'
<1> DEFINE transaction ==
      [phase |-> "checked", operation |-> "withdraw", submission |-> s]
<1>1. transaction \in OpenTransactions
  BY DEF OpenTransactions
<1>2. /\ Open(t, transaction) /\ Created(s) /\ transaction.submission = s
      /\ transaction.operation = "withdraw"
  BY DEF BeginWithdraw
<1> HIDE DEF transaction
<1> QED
  BY <1>1, <1>2, OpenType DEF BeginWithdraw

LEMMA RollbackType ==
    ASSUME TypeInv, NEW t \in Transactions, Rollback(t)
    PROVE  TypeInv'
BY CloseType DEF Rollback

\* What an open transaction that publishes holds.
LEMMA TransactionType ==
    ASSUME TypeInv, NEW t \in Transactions,
           transactions[t].phase \in {"checked", "consumed"},
           transactions[t].operation \in {"create", "revise"}
    PROVE  /\ transactions[t].user \in Users
           /\ transactions[t].revision \in Revisions
           /\ transactions[t].revision.package \in Packages
           /\ uploads[transactions[t].revision.package] \in UploadRows
           /\ transactions[t].revision.extension \in Extensions
           /\ transactions[t].revision.scope \in Scopes
           /\ transactions[t].number \in 0..(MaxRevisions + 1)
           /\ transactions[t].operation = "create" => transactions[t].submission = NoSubmission
           /\ transactions[t].operation = "revise" =>
                 transactions[t].submission \in Submissions /\ Created(transactions[t].submission)
<1>1. transactions[t] # Idle /\ transactions[t] \in OpenTransactions
  BY DEF TypeInv, TypeOK, Idle
<1>2. transactions[t].revision \in Revisions
  BY <1>1 DEF OpenTransactions
<1>3. uploads[transactions[t].revision.package] \in UploadRows
  BY <1>1, <1>2 DEF Revisions, TypeInv, TypeOK, OpenIsUploaded
<1> QED
  BY <1>1, <1>2, <1>3 DEF OpenTransactions, Revisions, TypeInv, OpenIsCreated

LEMMA ConsumeType ==
    ASSUME TypeInv, NEW t \in Transactions, Consume(t)
    PROVE  TypeInv'
<1> DEFINE p == transactions[t].revision.package
           n == NextRevision(transactions[t].submission)
<1>1. /\ transactions[t].phase = "checked"
      /\ transactions[t].operation \in {"create", "revise"}
      /\ uploads[p].status = "AVAILABLE"
  BY DEF Consume
<1>2. p \in Packages /\ transactions[t].submission \in Submissions \cup {NoSubmission}
  BY <1>1, TransactionType
<1>3. n \in 0..(MaxRevisions + 1)
  BY <1>2, NextRevisionType DEF TypeInv
<1>4. uploads' \in [Packages -> UploadRows \cup {NotUploaded}]
  <2>1. uploads[p] \in UploadRows
    BY <1>1, <1>2 DEF TypeInv, TypeOK, NotUploaded
  <2> QED
    BY <1>2, <2>1 DEF TypeInv, TypeOK, Consume, UploadRows
<1> HIDE DEF n
<1>5. transactions' = [transactions EXCEPT ![t].phase = "consumed", ![t].number = n]
  BY DEF Consume, n
<1>6. /\ transactions'[t] \in OpenTransactions
      /\ transactions'[t].operation = transactions[t].operation
      /\ transactions'[t].submission = transactions[t].submission
      /\ transactions'[t].revision = transactions[t].revision
  <2>1. transactions[t] \in OpenTransactions
    BY <1>1 DEF TypeInv, TypeOK, Idle
  <2> QED
    BY <1>1, <1>3, <1>5, <2>1 DEF OpenTransactions, TypeInv, TypeOK
<1>7. transactions' \in [Transactions -> OpenTransactions \cup {Idle}]
  BY <1>5, <1>6 DEF TypeInv, TypeOK
<1>8. TypeOK'
  BY <1>4, <1>7 DEF Consume, TypeInv, TypeOK, ExtensionTypeOK, extensionVars
<1>9. OpenIsCreated'
  <2> SUFFICES ASSUME NEW u \in Transactions,
                      transactions'[u] # Idle,
                      transactions'[u].operation \in {"revise", "withdraw"}
               PROVE  submissions'[transactions'[u].submission] # NotCreated
    BY DEF OpenIsCreated, Created
  <2>1. submissions' = submissions
    BY DEF Consume
  <2>2. CASE u = t
    BY <1>1, <1>6, <2>1, <2>2, TransactionType DEF Created
  <2>3. CASE u # t
    BY <1>5, <2>1, <2>3 DEF Created, TypeInv, TypeOK, OpenIsCreated
  <2> QED
    BY <2>2, <2>3
<1>10. OpenIsUploaded'
  <2>1. \A q \in Packages : uploads[q] # NotUploaded => uploads'[q] # NotUploaded
    BY <1>1, <1>2 DEF Consume, TypeInv, TypeOK, UploadRows, NotUploaded
  <2> SUFFICES ASSUME NEW u \in Transactions,
                      transactions'[u] # Idle,
                      transactions'[u].operation \in {"create", "revise"}
               PROVE  uploads'[transactions'[u].revision.package] # NotUploaded
    BY DEF OpenIsUploaded
  <2>2. CASE u = t
    BY <1>1, <1>2, <1>6, <2>1, <2>2, TransactionType DEF UploadRows, NotUploaded
  <2>3. CASE u # t
    <3>1. transactions'[u] = transactions[u]
      BY <1>5, <2>3 DEF TypeInv, TypeOK
    <3>2. transactions[u].revision.package \in Packages
      BY <3>1, TransactionType DEF TypeInv, TypeOK, OpenTransactions
    <3> QED
      BY <2>1, <3>1, <3>2 DEF TypeInv, OpenIsUploaded
  <2> QED
    BY <2>2, <2>3
<1> QED
  BY <1>8, <1>9, <1>10 DEF Consume, TypeInv, CurrentExists, PendingExists, Created, Exists,
     extensionVars

LEMMA MarkType ==
    ASSUME TypeOK, NEW p \in Packages, uploads[p] \in UploadRows, MarkConsumed(p)
    PROVE  /\ uploads' \in [Packages -> UploadRows \cup {NotUploaded}]
           /\ \A q \in Packages : uploads[q] # NotUploaded => uploads'[q] # NotUploaded
BY DEF MarkConsumed, TypeOK, UploadRows, NotUploaded

\* A commit closes its transaction and marks its package.
LEMMA CommitType ==
    ASSUME TypeInv, NEW t \in Transactions, NEW p \in Packages, Close(t),
           uploads[p] \in UploadRows, MarkConsumed(p),
           \A z \in Submissions : Created(z) => submissions'[z] # NotCreated
    PROVE  OpenIsCreated' /\ OpenIsUploaded'
<1>1. /\ transactions'[t] = Idle
      /\ \A u \in Transactions \ {t} : transactions'[u] = transactions[u]
  BY DEF TypeInv, TypeOK, Close
<1>2. OpenIsCreated'
  <2> SUFFICES ASSUME NEW u \in Transactions,
                      transactions'[u] # Idle,
                      transactions'[u].operation \in {"revise", "withdraw"}
               PROVE  submissions'[transactions'[u].submission] # NotCreated
    BY DEF OpenIsCreated, Created
  <2>1. u # t /\ transactions'[u] = transactions[u]
    BY <1>1
  <2>2. transactions[u].submission \in Submissions
    BY <2>1 DEF TypeInv, TypeOK, OpenTransactions
  <2> QED
    BY <2>1, <2>2 DEF TypeInv, OpenIsCreated
<1>3. OpenIsUploaded'
  <2> SUFFICES ASSUME NEW u \in Transactions,
                      transactions'[u] # Idle,
                      transactions'[u].operation \in {"create", "revise"}
               PROVE  uploads'[transactions'[u].revision.package] # NotUploaded
    BY DEF OpenIsUploaded
  <2>1. u # t /\ transactions'[u] = transactions[u]
    BY <1>1
  <2>2. transactions[u].phase \in {"checked", "consumed"}
    BY <2>1 DEF TypeInv, TypeOK, OpenTransactions
  <2>3. transactions[u].revision.package \in Packages
    BY <2>1, <2>2, TransactionType
  <2> QED
    BY <2>1, <2>3, MarkType DEF TypeInv, OpenIsUploaded
<1> QED
  BY <1>2, <1>3

LEMMA CommitCreateType ==
    ASSUME TypeInv, NEW t \in Transactions, NEW s \in Submissions, CommitCreate(t, s)
    PROVE  TypeInv'
<1> DEFINE tx    == transactions[t]
           owner == ReviewOwnerOf(tx.user, tx.revision.scope)
           row   == [status |-> "PENDING_REVIEW", target |-> tx.revision.extension,
                     submitter |-> tx.user, ownerDepartment |-> owner,
                     current |-> 1, effective |-> 0]
<1>1. tx.phase = "consumed" /\ tx.operation = "create" /\ ~Created(s)
  BY DEF CommitCreate
<1>2. /\ tx.user \in Users
      /\ tx.revision \in Revisions
      /\ tx.revision.package \in Packages
      /\ uploads[tx.revision.package] \in UploadRows
      /\ tx.revision.extension \in Extensions
      /\ tx.revision.scope \in Scopes
  BY <1>1, TransactionType
<1>3. owner \in Departments \cup {NoDepartment}
  BY <1>2, OwnerType
<1>4. 1 \in 1..MaxRevisions /\ 0 \in 0..MaxRevisions
  BY SubmissionAssumption
<1>5. row \in SubmissionRows /\ row # NotCreated /\ row.current = 1
  BY <1>2, <1>3, <1>4 DEF SubmissionRows, SubmissionStatuses, NotCreated
<1>6. TaskAssigned(s, 1, owner) \in OutboxEvents
  BY <1>3, <1>4, TaskType
<1>7. /\ submissions' = [submissions EXCEPT ![s] = row]
      /\ revisions' = [revisions EXCEPT ![s] = <<tx.revision>>]
      /\ outbox' = outbox \cup {TaskAssigned(s, 1, owner)}
      /\ MarkConsumed(tx.revision.package)
      /\ Close(t)
      /\ UNCHANGED <<reviews, extensionVars>>
  BY DEF CommitCreate
<1>8. uploads' \in [Packages -> UploadRows \cup {NotUploaded}]
  BY <1>2, <1>7, MarkType DEF TypeInv
<1> HIDE DEF row, owner
<1>9. TypeOK'
  <2>1. submissions' \in [Submissions -> SubmissionRows \cup {NotCreated}]
    BY <1>5, <1>7 DEF TypeInv, TypeOK
  <2>2. /\ revisions' \in [Submissions -> Seq(Revisions)]
        /\ \A z \in Submissions : Len(revisions'[z]) <= MaxRevisions
    BY <1>2, <1>4, <1>7 DEF TypeInv, TypeOK
  <2>3. transactions' \in [Transactions -> OpenTransactions \cup {Idle}]
    BY <1>7 DEF TypeInv, TypeOK, Close
  <2> QED
    BY <1>6, <1>7, <1>8, <2>1, <2>2, <2>3 DEF TypeInv, TypeOK, ExtensionTypeOK, extensionVars
<1>10. CurrentExists'
  BY <1>2, <1>5, <1>7 DEF TypeInv, TypeOK, CurrentExists, Created
<1>11. OpenIsCreated' /\ OpenIsUploaded'
  <2>1. \A z \in Submissions : Created(z) => submissions'[z] # NotCreated
    BY <1>5, <1>7 DEF TypeInv, TypeOK, Created
  <2> QED
    BY <1>2, <1>7, <2>1, CommitType
<1> QED
  BY <1>7, <1>9, <1>10, <1>11 DEF TypeInv, PendingExists, Exists, extensionVars

LEMMA CommitReviseType ==
    ASSUME TypeInv, NEW t \in Transactions, CommitRevise(t)
    PROVE  TypeInv'
<1> DEFINE tx    == transactions[t]
           s     == tx.submission
           owner == ReviewOwnerOf(tx.user, tx.revision.scope)
<1>1. /\ tx.phase = "consumed"
      /\ tx.operation = "revise"
      /\ tx.number = NextRevision(s)
      /\ tx.number <= MaxRevisions
  BY DEF CommitRevise
<1>2. /\ tx.user \in Users
      /\ tx.revision \in Revisions
      /\ tx.revision.package \in Packages
      /\ uploads[tx.revision.package] \in UploadRows
      /\ tx.revision.scope \in Scopes
      /\ s \in Submissions
      /\ Created(s)
  BY <1>1, TransactionType
<1>3. owner \in Departments \cup {NoDepartment}
  BY <1>2, OwnerType
<1>4. Len(revisions[s]) \in Nat /\ tx.number = Len(revisions[s]) + 1 /\ tx.number \in 1..MaxRevisions
  <2>1. Len(revisions[s]) \in Nat
    BY <1>2 DEF TypeInv, TypeOK
  <2>2. tx.number = Len(revisions[s]) + 1
    BY <1>1, <1>2, SubmissionAssumption DEF NextRevision
  <2> QED
    BY <1>1, <2>1, <2>2, SubmissionAssumption
<1>5. TaskAssigned(s, tx.number, owner) \in OutboxEvents
  BY <1>2, <1>3, <1>4, TaskType
<1>6. /\ submissions' = [submissions EXCEPT ![s].status = "PENDING_REVIEW",
                                            ![s].ownerDepartment = owner,
                                            ![s].current = tx.number]
      /\ revisions' = [revisions EXCEPT ![s] = Append(@, tx.revision)]
      /\ outbox' = outbox \cup {TaskAssigned(s, tx.number, owner)}
      /\ MarkConsumed(tx.revision.package)
      /\ Close(t)
      /\ UNCHANGED <<reviews, extensionVars>>
  BY DEF CommitRevise
<1>7. uploads' \in [Packages -> UploadRows \cup {NotUploaded}]
  BY <1>2, <1>6, MarkType DEF TypeInv
<1> HIDE DEF owner
<1>8. /\ submissions'[s] \in SubmissionRows
      /\ submissions'[s].current = tx.number
      /\ submissions' = [submissions EXCEPT ![s] = submissions'[s]]
      /\ submissions'[s] # NotCreated
  <2>1. submissions[s] \in SubmissionRows
    BY <1>2 DEF TypeInv, TypeOK, Created
  <2>2. "PENDING_REVIEW" \in SubmissionStatuses
    BY DEF SubmissionStatuses
  <2>3. submissions'[s] = [submissions[s] EXCEPT !.status = "PENDING_REVIEW",
                                                !.ownerDepartment = owner,
                                                !.current = tx.number]
    BY <1>2, <1>6 DEF TypeInv, TypeOK
  <2>4. submissions'[s] \in SubmissionRows /\ submissions'[s].current = tx.number
    BY <1>3, <1>4, <2>1, <2>2, <2>3 DEF SubmissionRows
  <2>5. submissions' = [submissions EXCEPT ![s] = submissions'[s]]
    BY <1>2, <1>6 DEF TypeInv, TypeOK
  <2> QED
    BY <2>4, <2>5 DEF SubmissionRows, NotCreated
<1>9. /\ revisions' \in [Submissions -> Seq(Revisions)]
      /\ \A z \in Submissions \ {s} : revisions'[z] = revisions[z]
      /\ Len(revisions'[s]) = tx.number
  BY <1>2, <1>4, <1>6 DEF TypeInv, TypeOK
<1>10. TypeOK'
  <2>1. submissions' \in [Submissions -> SubmissionRows \cup {NotCreated}]
    BY <1>2, <1>8 DEF TypeInv, TypeOK
  <2>2. ASSUME NEW z \in Submissions PROVE Len(revisions'[z]) <= MaxRevisions
    <3>1. CASE z = s
      BY <1>4, <1>9, <3>1
    <3>2. CASE z # s
      BY <1>9, <3>2 DEF TypeInv, TypeOK
    <3> QED
      BY <3>1, <3>2
  <2>3. transactions' \in [Transactions -> OpenTransactions \cup {Idle}]
    BY <1>6 DEF TypeInv, TypeOK, Close
  <2> QED
    BY <1>5, <1>6, <1>7, <1>9, <2>1, <2>2, <2>3
    DEF TypeInv, TypeOK, ExtensionTypeOK, extensionVars
<1>11. CurrentExists'
  <2> SUFFICES ASSUME NEW z \in Submissions, Created(z)'
               PROVE  submissions'[z].current <= Len(revisions'[z])
    BY DEF CurrentExists
  <2>1. CASE z = s
    BY <1>4, <1>8, <1>9, <2>1
  <2>2. CASE z # s
    BY <1>2, <1>8, <1>9, <2>2 DEF TypeInv, TypeOK, CurrentExists, Created
  <2> QED
    BY <2>1, <2>2
<1>12. OpenIsCreated' /\ OpenIsUploaded'
  <2>1. \A z \in Submissions : Created(z) => submissions'[z] # NotCreated
    BY <1>2, <1>8 DEF Created, TypeInv, TypeOK
  <2> QED
    BY <1>2, <1>6, <2>1, CommitType
<1> QED
  BY <1>6, <1>10, <1>11, <1>12 DEF TypeInv, PendingExists, Exists, extensionVars

LEMMA CommitWithdrawType ==
    ASSUME TypeInv, NEW t \in Transactions, CommitWithdraw(t)
    PROVE  TypeInv'
<1> DEFINE s == transactions[t].submission
<1>1. s \in Submissions /\ Created(s)
  BY DEF CommitWithdraw, TypeInv, TypeOK, OpenTransactions, OpenIsCreated, Idle
<1>2. /\ submissions' = [submissions EXCEPT ![s].status = "WITHDRAWN"]
      /\ Close(t)
      /\ UNCHANGED <<revisions, reviews, uploads, outbox, extensionVars>>
  BY DEF CommitWithdraw
<1> HIDE DEF s
<1>3. /\ submissions' \in [Submissions -> SubmissionRows \cup {NotCreated}]
      /\ \A z \in Submissions : Created(z) =>
            submissions'[z] # NotCreated /\ submissions'[z].current = submissions[z].current
      /\ \A z \in Submissions : ~Created(z) => submissions'[z] = NotCreated
  <2>1. submissions[s] \in SubmissionRows /\ "WITHDRAWN" \in SubmissionStatuses
    BY <1>1 DEF TypeInv, TypeOK, Created, SubmissionStatuses
  <2>2. /\ submissions'[s] \in SubmissionRows
        /\ submissions'[s] # NotCreated
        /\ submissions'[s].current = submissions[s].current
    BY <1>1, <1>2, <2>1 DEF TypeInv, TypeOK, SubmissionRows, NotCreated
  <2> QED
    BY <1>1, <1>2, <2>2 DEF TypeInv, TypeOK, Created
<1>4. transactions' \in [Transactions -> OpenTransactions \cup {Idle}]
  BY <1>2 DEF TypeInv, TypeOK, Close
<1>5. TypeOK'
  BY <1>2, <1>3, <1>4 DEF TypeInv, TypeOK, ExtensionTypeOK, extensionVars
<1>6. CurrentExists'
  BY <1>2, <1>3 DEF TypeInv, TypeOK, CurrentExists, Created
<1>7. /\ transactions'[t] = Idle
      /\ \A u \in Transactions \ {t} : transactions'[u] = transactions[u]
  BY <1>2 DEF TypeInv, TypeOK, Close
<1>8. OpenIsCreated'
  BY <1>3, <1>7 DEF TypeInv, TypeOK, OpenTransactions, OpenIsCreated, Created
<1>9. OpenIsUploaded'
  BY <1>2, <1>7 DEF TypeInv, OpenIsUploaded
<1> QED
  BY <1>2, <1>5, <1>6, <1>8, <1>9 DEF TypeInv, PendingExists, Exists, extensionVars

-----------------------------------------------------------------------------
(* The catalogue keeps its types through approvals and governance calls.   *)

CatalogueInv == ExtensionTypeOK /\ PendingExists

LEMMA StatusesType ==
    /\ "PUBLISHED" \in Statuses /\ "DELISTED" \in Statuses
    /\ "SECURITY_DELISTED" \in Statuses /\ "ARCHIVED" \in Statuses
    /\ "AUTHORIZED_ONLY" \in Visibilities
BY DEF Statuses, Visibilities

LEMMA OvertakenType ==
    ASSUME NEW update \in Updates \cup {NoUpdate}, NEW e \in Extensions,
           NEW scope \in Scopes
    PROVE  /\ Overtaken(update, e, scope) \in Updates \cup {NoUpdate}
           /\ Overtaken(update, e, scope) # NoUpdate =>
                 update # NoUpdate /\ Overtaken(update, e, scope).extension = update.extension
<1>1. CASE update.column = "scope" /\ update.extension = e
  BY <1>1 DEF Overtaken, Updates, NoUpdate
<1>2. CASE ~(update.column = "scope" /\ update.extension = e)
  BY <1>2 DEF Overtaken
<1> QED
  BY <1>1, <1>2

LEMMA MaterializeType ==
    ASSUME CatalogueInv, NEW revision \in Revisions, NEW submitter \in Users,
           Materialize(revision, submitter)
    PROVE  CatalogueInv'
<1> DEFINE e == revision.extension
           v == revision.version
<1>1. /\ e \in Extensions /\ v \in Versions /\ revision.package \in Packages
      /\ revision.scope \in Scopes /\ revision.visibility \in Visibilities
  BY DEF Revisions
<1>2. CASE MaterializeArchive(revision)
  <2>1. extensions[e] \in ExtensionRows /\ extensions[e] # Absent
    BY <1>1, <1>2 DEF MaterializeArchive, CatalogueInv, ExtensionTypeOK, Exists
  <2>2. [extensions[e] EXCEPT !.status = "ARCHIVED"] \in ExtensionRows
    BY <2>1, StatusesType DEF ExtensionRows
  <2>3. [extensions[e] EXCEPT !.status = "ARCHIVED"] # Absent
    BY <2>2 DEF ExtensionRows, Absent
  <2> DEFINE row == [extensions[e] EXCEPT !.status = "ARCHIVED"]
  <2>4. /\ extensions' = [extensions EXCEPT ![e] = row]
        /\ UNCHANGED <<scopes, versions, attached, pending>>
    BY <1>1, <1>2 DEF MaterializeArchive, CatalogueInv, ExtensionTypeOK
  <2>5. row \in ExtensionRows /\ row # Absent
    BY <2>2, <2>3
  <2> HIDE DEF row, e
  <2>6. ExtensionTypeOK'
    BY <1>1, <2>4, <2>5 DEF CatalogueInv, ExtensionTypeOK
  <2>7. PendingExists'
    BY <1>1, <2>4, <2>5 DEF CatalogueInv, ExtensionTypeOK, PendingExists, Exists
  <2> QED
    BY <2>6, <2>7 DEF CatalogueInv
<1>3. CASE MaterializePublication(revision, submitter)
  <2> DEFINE row == PublishedRow(e, revision, submitter)
  <2>1. row \in ExtensionRows
    <3>1. CASE Exists(e)
      <4>1. extensions[e] \in ExtensionRows
        BY <1>1, <3>1 DEF CatalogueInv, ExtensionTypeOK, Exists
      <4> QED
        BY <1>1, <3>1, <4>1, StatusesType DEF PublishedRow, ExtensionRows
    <3>2. CASE ~Exists(e)
      BY <1>1, <3>2, StatusesType, OrganizationAssumption DEF PublishedRow, ExtensionRows
    <3> QED
      BY <3>1, <3>2
  <2>2. row # Absent
    BY <2>1 DEF ExtensionRows, Absent
  <2>3. /\ extensions' = [extensions EXCEPT ![e] = row]
        /\ versions' = WithVersion(e, v, revision.package)
        /\ attached' = [attached EXCEPT ![revision.package] = [extension |-> e, version |-> v]]
        /\ scopes' = [scopes EXCEPT ![e] = {} \cup {revision.scope}]
        /\ pending' = [c \in Callers |-> Overtaken(pending[c], e, revision.scope)]
    BY <1>3 DEF MaterializePublication, InsertScope
  <2> HIDE DEF row
  <2>4. extensions' \in [Extensions -> ExtensionRows \cup {Absent}]
    BY <1>1, <2>1, <2>3 DEF CatalogueInv, ExtensionTypeOK
  <2>5. versions' \in [Extensions -> [Versions -> Packages \cup {NoPackage}]]
    BY <1>1, <2>3 DEF CatalogueInv, ExtensionTypeOK, WithVersion
  <2>6. attached' \in [Packages -> Attachments \cup {NotAttached}]
    BY <1>1, <2>3 DEF CatalogueInv, ExtensionTypeOK, Attachments
  <2>7. scopes' \in [Extensions -> SUBSET Scopes]
    BY <1>1, <2>3 DEF CatalogueInv, ExtensionTypeOK
  <2>8. pending' \in [Callers -> Updates \cup {NoUpdate}]
    BY <1>1, <2>3, OvertakenType DEF CatalogueInv, ExtensionTypeOK
  <2>9. PendingExists'
    <3> SUFFICES ASSUME NEW c \in Callers, pending'[c] # NoUpdate
                 PROVE  extensions'[pending'[c].extension] # Absent
      BY DEF PendingExists, Exists
    <3>1. pending[c] \in Updates \cup {NoUpdate}
      BY DEF CatalogueInv, ExtensionTypeOK
    <3>2. pending[c] # NoUpdate /\ pending'[c].extension = pending[c].extension
      BY <1>1, <2>3, <3>1, OvertakenType
    <3>3. pending[c].extension \in Extensions /\ extensions[pending[c].extension] # Absent
      BY <3>1, <3>2 DEF CatalogueInv, PendingExists, Exists, Updates
    <3> QED
      BY <1>1, <2>2, <2>3, <3>2, <3>3 DEF CatalogueInv, ExtensionTypeOK
  <2> QED
    BY <2>4, <2>5, <2>6, <2>7, <2>8, <2>9 DEF CatalogueInv, ExtensionTypeOK
<1> QED
  BY <1>2, <1>3 DEF Materialize

LEMMA BeginType ==
    ASSUME CatalogueInv, NEW c \in Callers, NEW e \in Extensions, Exists(e),
           NEW update \in Updates, update.extension = e, Begin(c, e, update)
    PROVE  CatalogueInv'
BY DEF CatalogueInv, ExtensionTypeOK, PendingExists, Exists, Begin

LEMMA SetStatusType ==
    ASSUME CatalogueInv, NEW c \in Callers, NEW e \in Extensions, Exists(e),
           NEW status \in Statuses, SetStatus(c, e, status)
    PROVE  CatalogueInv'
<1> DEFINE update == [column |-> "status", extension |-> e, status |-> status]
<1>1. update \in Updates /\ update.extension = e
  BY DEF Updates
<1>2. Begin(c, e, update)
  BY DEF SetStatus
<1> HIDE DEF update
<1> QED
  BY <1>1, <1>2, BeginType

LEMMA ReduceScopeType ==
    ASSUME CatalogueInv, NEW c \in Callers, NEW actor, NEW e \in Extensions, Exists(e),
           ReduceScope(c, actor, e)
    PROVE  CatalogueInv'
<1>1. PICK scope \in DepartmentScopes :
          Begin(c, e, [column |-> "scope", extension |-> e, scope |-> scope, unseen |-> {}])
  BY DEF ReduceScope
<1> DEFINE update == [column |-> "scope", extension |-> e, scope |-> scope, unseen |-> {}]
<1>2. update \in Updates /\ update.extension = e
  BY DEF Updates
<1>3. Begin(c, e, update)
  BY <1>1
<1> HIDE DEF update
<1> QED
  BY <1>2, <1>3, BeginType

LEMMA ReduceVisibilityType ==
    ASSUME CatalogueInv, NEW c \in Callers, NEW actor, NEW e \in Extensions, Exists(e),
           ReduceVisibility(c, actor, e)
    PROVE  CatalogueInv'
<1> DEFINE update == [column |-> "visibility", extension |-> e]
<1>1. update \in Updates /\ update.extension = e
  BY DEF Updates
<1>2. Begin(c, e, update)
  BY DEF ReduceVisibility
<1> HIDE DEF update
<1> QED
  BY <1>1, <1>2, BeginType

LEMMA TransferOwnershipType ==
    ASSUME CatalogueInv, NEW c \in Callers, NEW actor, NEW e \in Extensions, Exists(e),
           TransferOwnership(c, actor, e)
    PROVE  CatalogueInv'
<1>1. PICK department \in Departments, maintainer \in Users :
          Begin(c, e, [column |-> "owner", extension |-> e,
                       ownerDepartment |-> department, maintainer |-> maintainer])
  BY DEF TransferOwnership
<1> DEFINE update == [column |-> "owner", extension |-> e,
                      ownerDepartment |-> department, maintainer |-> maintainer]
<1>2. update \in Updates /\ update.extension = e
  BY DEF Updates
<1>3. Begin(c, e, update)
  BY <1>1
<1> HIDE DEF update
<1> QED
  BY <1>2, <1>3, BeginType

LEMMA ExecuteUpdateType ==
    ASSUME CatalogueInv, NEW c \in Callers, ExecuteUpdate(c)
    PROVE  CatalogueInv'
<1> DEFINE update == pending[c]
           e      == update.extension
           row    == UpdatedRow(update)
<1>1. update \in Updates /\ update.column \in {"status", "visibility", "owner"}
  BY DEF ExecuteUpdate, CatalogueInv, ExtensionTypeOK, NoUpdate
<1>2. e \in Extensions /\ extensions[e] # Absent /\ extensions[e] \in ExtensionRows
  BY <1>1 DEF Updates, CatalogueInv, ExtensionTypeOK, PendingExists, Exists, NoUpdate
<1>3. row \in ExtensionRows
  BY <1>1, <1>2, StatusesType DEF UpdatedRow, Updates, ExtensionRows
<1>4. row # Absent
  BY <1>3 DEF ExtensionRows, Absent
<1>5. /\ extensions' = [extensions EXCEPT ![e] = row]
      /\ pending' = [pending EXCEPT ![c] = NoUpdate]
      /\ UNCHANGED <<scopes, versions, attached>>
  BY DEF ExecuteUpdate
<1> HIDE DEF row, e
<1> QED
  BY <1>2, <1>3, <1>4, <1>5 DEF CatalogueInv, ExtensionTypeOK, PendingExists, Exists, Updates

LEMMA ExecuteScopeType ==
    ASSUME CatalogueInv, NEW c \in Callers, ExecuteScope(c)
    PROVE  CatalogueInv'
<1> DEFINE update == pending[c]
           e      == update.extension
<1>1. update \in Updates /\ update.column = "scope"
  BY DEF ExecuteScope, CatalogueInv, ExtensionTypeOK, NoUpdate
<1>2. e \in Extensions /\ update.scope \in Scopes /\ update.unseen \subseteq Scopes
  BY <1>1 DEF Updates, Scopes
<1>3. /\ scopes' = [scopes EXCEPT ![e] = (update.unseen \cap scopes[e]) \cup {update.scope}]
      /\ pending' = [d \in Callers |->
            IF d = c THEN NoUpdate ELSE Overtaken(pending[d], e, update.scope)]
      /\ UNCHANGED <<extensions, versions, attached>>
  BY DEF ExecuteScope, InsertScope
<1> HIDE DEF update, e
<1>4. scopes' \in [Extensions -> SUBSET Scopes]
  BY <1>2, <1>3 DEF CatalogueInv, ExtensionTypeOK
<1>5. pending' \in [Callers -> Updates \cup {NoUpdate}]
  BY <1>2, <1>3, OvertakenType DEF CatalogueInv, ExtensionTypeOK
<1>6. PendingExists'
  <2> SUFFICES ASSUME NEW d \in Callers, pending'[d] # NoUpdate
               PROVE  extensions'[pending'[d].extension] # Absent
    BY DEF PendingExists, Exists
  <2>1. pending[d] \in Updates \cup {NoUpdate}
    BY DEF CatalogueInv, ExtensionTypeOK
  <2>2. pending[d] # NoUpdate /\ pending'[d].extension = pending[d].extension
    BY <1>2, <1>3, <2>1, OvertakenType
  <2> QED
    BY <1>3, <2>2 DEF CatalogueInv, PendingExists, Exists
<1> QED
  BY <1>3, <1>4, <1>5, <1>6 DEF CatalogueInv, ExtensionTypeOK

LEMMA GovernanceType ==
    ASSUME CatalogueInv, Governance
    PROVE  CatalogueInv'
<1>1. PICK c \in Callers :
        \/ \E actor \in Users, e \in Extensions :
              /\ Exists(e)
              /\ \/ Delist(c, actor, e)
                 \/ SecurityDelist(c, actor, e)
                 \/ Relist(c, actor, e)
                 \/ Archive(c, actor, e)
                 \/ ReduceScope(c, actor, e)
                 \/ ReduceVisibility(c, actor, e)
                 \/ TransferOwnership(c, actor, e)
        \/ ExecuteUpdate(c)
        \/ ExecuteScope(c)
  BY DEF Governance
<1>2. ASSUME NEW actor \in Users, NEW e \in Extensions, Exists(e),
             \/ Delist(c, actor, e) \/ SecurityDelist(c, actor, e)
             \/ Relist(c, actor, e) \/ Archive(c, actor, e)
      PROVE  CatalogueInv'
  <2>1. \E status \in Statuses : SetStatus(c, e, status)
    BY <1>2, StatusesType DEF Delist, SecurityDelist, Relist, Archive
  <2> QED
    BY <1>2, <2>1, SetStatusType
<1> QED
  BY <1>1, <1>2, ReduceScopeType, ReduceVisibilityType, TransferOwnershipType,
     ExecuteUpdateType, ExecuteScopeType

-----------------------------------------------------------------------------

LEMMA DecideType ==
    ASSUME TypeInv, NEW reviewer \in Admins, NEW s \in Submissions,
           NEW decision \in Decisions, Decide(reviewer, s, decision)
    PROVE  TypeInv'
<1> DEFINE row    == submissions[s]
           review == [submission |-> s, revision |-> row.current,
                      reviewer |-> reviewer, decision |-> decision]
           event  == [type |-> "REVIEW_DECISION", submission |-> s,
                      revision |-> row.current, to |-> {row.submitter}]
           after  == [row EXCEPT !.status = StatusAfter(decision),
                                 !.effective = EffectiveAfter(row, decision)]
<1>1. row \in SubmissionRows /\ Created(s)
  BY DEF Decide, Created, TypeInv, TypeOK
<1>2. /\ row.current \in 1..MaxRevisions
      /\ row.effective \in 0..MaxRevisions
      /\ row.submitter \in Users
  BY <1>1 DEF SubmissionRows
<1>3. review \in Reviews
  BY <1>2 DEF Reviews
<1>4. event \in OutboxEvents
  BY <1>2 DEF OutboxEvents
<1>5. StatusAfter(decision) \in SubmissionStatuses
  BY DEF Decisions, StatusAfter, SubmissionStatuses
<1>6. EffectiveAfter(row, decision) \in 0..MaxRevisions
  BY <1>2, SubmissionAssumption DEF EffectiveAfter
<1>7. after \in SubmissionRows /\ after # NotCreated /\ after.current = row.current
  BY <1>1, <1>5, <1>6 DEF SubmissionRows, NotCreated
<1>8. /\ reviews' = reviews \cup {review}
      /\ submissions' = [submissions EXCEPT ![s] = after]
      /\ outbox' = outbox \cup {event}
      /\ UNCHANGED <<revisions, uploads, transactions>>
      /\ Materialize(CurrentRevision(s), row.submitter) \/ UNCHANGED extensionVars
  <2>1. submissions' = [submissions EXCEPT
               ![s].status = StatusAfter(decision),
               ![s].effective = EffectiveAfter(row, decision)]
    BY DEF Decide
  <2>2. submissions' = [submissions EXCEPT ![s] = after]
    BY <2>1 DEF TypeInv, TypeOK
  <2> QED
    BY <2>2 DEF Decide
<1>9. CurrentRevision(s) \in Revisions
  <2>1. row.current \in 1..Len(revisions[s])
    BY <1>1, <1>2, SubmissionAssumption DEF TypeInv, TypeOK, CurrentExists
  <2> QED
    BY <2>1 DEF CurrentRevision, TypeInv, TypeOK
<1>10. ExtensionTypeOK' /\ PendingExists'
  <2>1. CASE Materialize(CurrentRevision(s), row.submitter)
    BY <1>2, <1>9, <2>1, MaterializeType DEF CatalogueInv, TypeInv, TypeOK
  <2>2. CASE UNCHANGED extensionVars
    BY <2>2 DEF TypeInv, TypeOK, ExtensionTypeOK, PendingExists, Exists, extensionVars
  <2> QED
    BY <1>8, <2>1, <2>2
<1> HIDE DEF review, event, after
<1>11. TypeOK'
  BY <1>3, <1>4, <1>7, <1>8, <1>10 DEF TypeInv, TypeOK
<1>12. CurrentExists'
  BY <1>1, <1>7, <1>8 DEF TypeInv, TypeOK, CurrentExists, Created
<1>13. OpenIsCreated' /\ OpenIsUploaded'
  <2>1. \A z \in Submissions : Created(z) => submissions'[z] # NotCreated
    BY <1>7, <1>8 DEF TypeInv, TypeOK, Created
  <2>2. OpenIsCreated'
    <3> SUFFICES ASSUME NEW u \in Transactions,
                        transactions[u] # Idle,
                        transactions[u].operation \in {"revise", "withdraw"}
                 PROVE  submissions'[transactions[u].submission] # NotCreated
      BY <1>8 DEF OpenIsCreated, Created
    <3>1. transactions[u].submission \in Submissions
      BY DEF TypeInv, TypeOK, OpenTransactions
    <3> QED
      BY <2>1, <3>1 DEF TypeInv, OpenIsCreated
  <2>3. OpenIsUploaded'
    BY <1>8 DEF TypeInv, OpenIsUploaded
  <2> QED
    BY <2>2, <2>3
<1> QED
  BY <1>10, <1>11, <1>12, <1>13 DEF TypeInv

LEMMA TypeStep == ASSUME TypeInv, [Next]_vars PROVE TypeInv'
<1>1. CASE UNCHANGED vars
  BY <1>1 DEF vars, submissionVars, extensionVars, TypeInv, TypeOK, ExtensionTypeOK,
     CurrentExists, OpenIsCreated, OpenIsUploaded, PendingExists, Created, Exists
<1>2. CASE \E user \in Users, p \in Packages : Upload(user, p)
  BY <1>2, UploadType
<1>3. CASE CreateNext
  BY <1>3, BeginCreateType, CommitCreateType DEF CreateNext
<1>4. CASE ReviseNext
  BY <1>4, BeginReviseType, CommitReviseType DEF ReviseNext
<1>5. CASE WithdrawNext
  BY <1>5, BeginWithdrawType, CommitWithdrawType DEF WithdrawNext
<1>6. CASE \E t \in Transactions : Consume(t) \/ Rollback(t)
  BY <1>6, ConsumeType, RollbackType
<1>7. CASE \E reviewer \in Admins, s \in Submissions, decision \in Decisions :
              Decide(reviewer, s, decision)
  BY <1>7, DecideType
<1>8. CASE Governance /\ UNCHANGED submissionVars
  <2>1. CatalogueInv'
    BY <1>8, GovernanceType DEF CatalogueInv, TypeInv, TypeOK
  <2> QED
    BY <1>8, <2>1 DEF CatalogueInv, submissionVars, TypeInv, TypeOK, CurrentExists,
       OpenIsCreated, OpenIsUploaded, Created
<1> QED
  BY <1>1, <1>2, <1>3, <1>4, <1>5, <1>6, <1>7, <1>8 DEF Next

\* Every value the service stores has its type, in every interleaving of
\* requests and governance calls, and the current revision of a submission is
\* one that exists, so that decide always finds the revision it judges.
THEOREM TypeInvariance == Spec => []TypeInv
BY TypeInit, TypeStep, PTL DEF Spec

THEOREM TypeCorrectness == Spec => []TypeOK
<1>1. TypeInv => TypeOK
  BY DEF TypeInv
<1> QED
  BY <1>1, TypeInvariance, PTL
=============================================================================
