----------------------- MODULE SubmissionSafetyProofs -----------------------
(***************************************************************************)
(* The safety of submissions and reviews, for every value of the           *)
(* constants, on top of type correctness.                                  *)
(***************************************************************************)
EXTENDS SubmissionReviewProofs, FiniteFolds

-----------------------------------------------------------------------------
(* A revision is judged at most once.                                      *)

\* Only revisions that exist are judged.
ReviewedExists ==
    \A r \in reviews :
        Created(r.submission) /\ r.revision <= Len(revisions[r.submission])

JudgeInv == ReviewedExists /\ JudgedAtMostOnce

LEMMA JudgeUnchanged ==
    ASSUME JudgeInv, UNCHANGED <<submissions, revisions, reviews>>
    PROVE  JudgeInv'
BY DEF JudgeInv, ReviewedExists, JudgedAtMostOnce, Created

LEMMA JudgeCreate ==
    ASSUME TypeInv, TypeInv', JudgeInv, NEW t \in Transactions, NEW s \in Submissions,
           CommitCreate(t, s)
    PROVE  JudgeInv'
<1>1. /\ reviews' = reviews
      /\ ~Created(s)
      /\ \A z \in Submissions \ {s} :
            submissions'[z] = submissions[z] /\ revisions'[z] = revisions[z]
  BY DEF CommitCreate, TypeInv, TypeOK
<1>2. \A r \in reviews : r.submission \in Submissions \ {s}
  BY <1>1 DEF JudgeInv, ReviewedExists, TypeInv, TypeOK, Reviews
<1> QED
  BY <1>1, <1>2 DEF JudgeInv, ReviewedExists, JudgedAtMostOnce, Created

LEMMA JudgeRevise ==
    ASSUME TypeInv, TypeInv', JudgeInv, NEW t \in Transactions, CommitRevise(t)
    PROVE  JudgeInv'
<1> DEFINE s == transactions[t].submission
           n == transactions[t].number
<1>1. s \in Submissions /\ Created(s) /\ Len(revisions[s]) \in Nat
  BY TransactionType DEF CommitRevise, TypeInv, TypeOK
<1>2. n = Len(revisions[s]) + 1
  BY <1>1, SubmissionAssumption DEF CommitRevise, NextRevision
<1>3. /\ reviews' = reviews
      /\ submissions'[s].current = n
      /\ submissions'[s] # NotCreated
      /\ Len(revisions'[s]) = n
      /\ \A z \in Submissions \ {s} :
            submissions'[z] = submissions[z] /\ revisions'[z] = revisions[z]
  <2>1. submissions[s] \in SubmissionRows /\ transactions[t].revision \in Revisions
    BY <1>1, TransactionType DEF CommitRevise, TypeInv, TypeOK, Created
  <2>2. revisions'[s] = Append(revisions[s], transactions[t].revision)
    BY <1>1 DEF CommitRevise, TypeInv, TypeOK
  <2>3. Len(revisions'[s]) = n
    BY <1>1, <1>2, <2>1, <2>2 DEF TypeInv, TypeOK
  <2>4. submissions'[s].current = n /\ submissions'[s].status = "PENDING_REVIEW"
    BY <1>1, <2>1 DEF CommitRevise, TypeInv, TypeOK, SubmissionRows
  <2>5. submissions'[s] # NotCreated
    BY <2>4 DEF NotCreated
  <2> QED
    BY <1>1, <2>3, <2>4, <2>5 DEF CommitRevise, TypeInv, TypeOK
<1> HIDE DEF s, n
<1>4. \A r \in reviews : /\ r.submission \in Submissions
                         /\ r.revision \in Nat
                         /\ r.submission = s => r.revision < n
  <2> SUFFICES ASSUME NEW r \in reviews
               PROVE  /\ r.submission \in Submissions
                      /\ r.revision \in Nat
                      /\ r.submission = s => r.revision < n
    OBVIOUS
  <2>1. r.submission \in Submissions /\ r.revision \in 1..MaxRevisions
    BY DEF TypeInv, TypeOK, Reviews
  <2> QED
    BY <1>1, <1>2, <2>1, SubmissionAssumption DEF JudgeInv, ReviewedExists
<1>5. ReviewedExists'
  <2> SUFFICES ASSUME NEW r \in reviews
               PROVE  /\ submissions'[r.submission] # NotCreated
                      /\ r.revision <= Len(revisions'[r.submission])
    BY <1>3 DEF ReviewedExists, Created
  <2>1. CASE r.submission = s
    BY <1>1, <1>2, <1>3, <1>4, <2>1
  <2>2. CASE r.submission # s
    BY <1>3, <1>4, <2>2 DEF JudgeInv, ReviewedExists, Created
  <2> QED
    BY <2>1, <2>2
<1>6. JudgedAtMostOnce'
  <2>1. ASSUME NEW z \in Submissions, NEW r \in reviews, submissions'[z] # NotCreated,
               submissions'[z].status = "PENDING_REVIEW",
               r.submission = z, r.revision = submissions'[z].current
        PROVE  FALSE
    <3>1. CASE z = s
      BY <1>1, <1>2, <1>3, <1>4, <2>1, <3>1
    <3>2. CASE z # s
      BY <1>3, <2>1, <3>2 DEF JudgeInv, JudgedAtMostOnce, Created
    <3> QED
      BY <3>1, <3>2
  <2> QED
    BY <1>3, <2>1 DEF JudgeInv, JudgedAtMostOnce, Created
<1> QED
  BY <1>5, <1>6 DEF JudgeInv

LEMMA JudgeWithdraw ==
    ASSUME TypeInv, TypeInv', JudgeInv, NEW t \in Transactions, CommitWithdraw(t)
    PROVE  JudgeInv'
<1> DEFINE s == transactions[t].submission
<1>1. s \in Submissions
  BY DEF CommitWithdraw, TypeInv, TypeOK, OpenTransactions, Idle
<1>2. /\ submissions' = [submissions EXCEPT ![s].status = "WITHDRAWN"]
      /\ revisions' = revisions /\ reviews' = reviews
  BY DEF CommitWithdraw
<1> HIDE DEF s
<1>3. submissions[s] \in SubmissionRows
  BY <1>1 DEF CommitWithdraw, TypeInv, TypeOK, OpenIsCreated, Created, Idle, s
<1>4. /\ submissions'[s].status = "WITHDRAWN" /\ submissions'[s] # NotCreated
      /\ \A z \in Submissions \ {s} : submissions'[z] = submissions[z]
  BY <1>1, <1>2, <1>3 DEF TypeInv, TypeOK, SubmissionRows, NotCreated
<1>5. \A r \in reviews : r.submission \in Submissions
  BY DEF TypeInv, TypeOK, Reviews
<1> QED
  BY <1>2, <1>4, <1>5 DEF JudgeInv, ReviewedExists, JudgedAtMostOnce, Created

LEMMA JudgeDecide ==
    ASSUME TypeInv, TypeInv', JudgeInv, NEW reviewer \in Admins, NEW s \in Submissions,
           NEW decision \in Decisions, Decide(reviewer, s, decision)
    PROVE  JudgeInv'
<1> DEFINE row    == submissions[s]
           review == [submission |-> s, revision |-> row.current,
                      reviewer |-> reviewer, decision |-> decision]
<1>1. row \in SubmissionRows /\ Created(s) /\ row.status = "PENDING_REVIEW"
  BY DEF Decide, Created, TypeInv, TypeOK
<1>2. reviews' = reviews \cup {review} /\ revisions' = revisions
  BY DEF Decide
<1>3. /\ submissions'[s] # NotCreated
      /\ submissions'[s].status # "PENDING_REVIEW"
      /\ \A z \in Submissions \ {s} : submissions'[z] = submissions[z]
  <2>1. submissions' = [submissions EXCEPT
               ![s].status = StatusAfter(decision),
               ![s].effective = EffectiveAfter(row, decision)]
    BY DEF Decide
  <2>2. submissions'[s].status = StatusAfter(decision)
    BY <1>1, <2>1 DEF TypeInv, TypeOK, SubmissionRows
  <2>3. StatusAfter(decision) \in Terminal \cup {"CHANGES_REQUESTED"}
    BY DEF StatusAfter, Decisions, Terminal
  <2>4. submissions'[s] # NotCreated
    BY <2>2, <2>3 DEF NotCreated, Terminal
  <2> QED
    BY <2>1, <2>2, <2>3, <2>4 DEF Terminal, TypeInv, TypeOK
<1>4. \A r \in reviews : ~(r.submission = s /\ r.revision = row.current)
  BY <1>1 DEF JudgeInv, JudgedAtMostOnce
<1>5. \A r \in reviews : r.submission \in Submissions
  BY DEF TypeInv, TypeOK, Reviews
<1>6. review.submission = s /\ review.revision = row.current
  OBVIOUS
<1>7. row.current <= Len(revisions[s])
  BY <1>1 DEF TypeInv, CurrentExists
<1> HIDE DEF review
<1>8. ReviewedExists'
  BY <1>2, <1>3, <1>5, <1>6, <1>7 DEF JudgeInv, ReviewedExists, Created
<1>9. JudgedAtMostOnce'
  <2>1. \A q, r \in reviews' :
           q.submission = r.submission /\ q.revision = r.revision => q = r
    BY <1>2, <1>4, <1>6 DEF JudgeInv, JudgedAtMostOnce
  <2>2. \A z \in Submissions, r \in reviews' :
           submissions'[z] # NotCreated /\ submissions'[z].status = "PENDING_REVIEW" =>
              ~(r.submission = z /\ r.revision = submissions'[z].current)
    BY <1>2, <1>3, <1>6 DEF JudgeInv, JudgedAtMostOnce, Created
  <2> QED
    BY <2>1, <2>2 DEF JudgedAtMostOnce, Created
<1> QED
  BY <1>8, <1>9 DEF JudgeInv

LEMMA JudgeInit == ASSUME Init PROVE JudgeInv
BY DEF Init, JudgeInv, ReviewedExists, JudgedAtMostOnce

LEMMA JudgeStep == ASSUME TypeInv, TypeInv', JudgeInv, [Next]_vars PROVE JudgeInv'
<1>1. CASE UNCHANGED vars
  BY <1>1, JudgeUnchanged DEF vars, submissionVars
<1>2. CASE \E user \in Users, p \in Packages : Upload(user, p)
  BY <1>2, JudgeUnchanged DEF Upload
<1>3. CASE CreateNext
  BY <1>3, JudgeUnchanged, JudgeCreate DEF CreateNext, BeginCreate
<1>4. CASE ReviseNext
  BY <1>4, JudgeUnchanged, JudgeRevise DEF ReviseNext, BeginRevise
<1>5. CASE WithdrawNext
  BY <1>5, JudgeUnchanged, JudgeWithdraw DEF WithdrawNext, BeginWithdraw
<1>6. CASE \E t \in Transactions : Consume(t) \/ Rollback(t)
  BY <1>6, JudgeUnchanged DEF Consume, Rollback
<1>7. CASE \E reviewer \in Admins, s \in Submissions, decision \in Decisions :
              Decide(reviewer, s, decision)
  BY <1>7, JudgeDecide
<1>8. CASE Governance /\ UNCHANGED submissionVars
  BY <1>8, JudgeUnchanged DEF submissionVars
<1> QED
  BY <1>1, <1>2, <1>3, <1>4, <1>5, <1>6, <1>7, <1>8 DEF Next

\* No revision is judged twice, and the revision a submission waits with has
\* not been judged, whatever withdrawals, revises and decisions interleave.
THEOREM JudgedOnce == Spec => []JudgedAtMostOnce
<1>1. TypeInv /\ TypeInv' /\ JudgeInv /\ [Next]_vars => JudgeInv'
  BY JudgeStep
<1>2. JudgeInv => JudgedAtMostOnce
  BY DEF JudgeInv
<1> QED
  BY <1>1, <1>2, JudgeInit, TypeInvariance, PTL DEF Spec

-----------------------------------------------------------------------------
(* A package is consumed exactly once, and its bytes survive.              *)

\* A submission has no revision before it is created.
UnbornIsEmpty == \A s \in Submissions : ~Created(s) => revisions[s] = <<>>

Holds(t, p) == transactions[t].phase = "consumed" /\ transactions[t].revision.package = p

\* A transaction that holds a package has copied it, nobody has committed it,
\* and it is the only one: the row lock.
HeldAlone ==
    \A t \in Transactions, p \in Packages : Holds(t, p) =>
        /\ uploads[p] # NotUploaded
        /\ uploads[p].status = "AVAILABLE"
        /\ uploads[p].final
        /\ \A u \in Transactions : Holds(u, p) => u = t

\* What was submitted was uploaded.
SubmittedIsUploaded == \A x \in RevisionNumbers : uploads[PackageOf(x)] # NotUploaded

ConsumeInv ==
    /\ UnbornIsEmpty
    /\ HeldAlone
    /\ SubmittedIsUploaded
    /\ ConsumedExactlyOnce
    /\ BytesNeverLost

LEMMA ConsumeInit == ASSUME Init PROVE ConsumeInv
<1>1. RevisionNumbers = {}
  BY DEF Init, RevisionNumbers
<1>2. ConsumedExactlyOnce /\ SubmittedIsUploaded
  BY <1>1 DEF Init, ConsumedExactlyOnce, SubmittedIsUploaded
<1>3. HeldAlone
  BY DEF Init, HeldAlone, Holds, Idle
<1> QED
  BY <1>2, <1>3 DEF Init, ConsumeInv, UnbornIsEmpty, BytesNeverLost

LEMMA PackageType ==
    ASSUME TypeInv, NEW x \in RevisionNumbers
    PROVE  PackageOf(x) \in Packages
<1>1. x[1] \in Submissions /\ x[2] \in 1..Len(revisions[x[1]])
  BY SubmissionAssumption DEF RevisionNumbers, TypeInv, TypeOK
<1>2. revisions[x[1]][x[2]] \in Revisions
  BY <1>1 DEF TypeInv, TypeOK
<1> QED
  BY <1>2 DEF PackageOf, Revisions

\* The revisions of the steps that change none.
LEMMA SameRevisions ==
    ASSUME revisions' = revisions
    PROVE  /\ RevisionNumbers' = RevisionNumbers
           /\ \A x : PackageOf(x)' = PackageOf(x)
BY DEF RevisionNumbers, PackageOf

\* Steps that leave revisions and uploads alone and let nobody take a package.
LEMMA ConsumeQuiet ==
    ASSUME ConsumeInv, UNCHANGED <<revisions, uploads>>,
           \A s \in Submissions : Created(s) => submissions'[s] # NotCreated,
           \A t \in Transactions, p \in Packages : Holds(t, p)' => Holds(t, p)
    PROVE  ConsumeInv'
<1>1. ConsumedExactlyOnce' /\ SubmittedIsUploaded'
  BY SameRevisions DEF ConsumeInv, ConsumedExactlyOnce, SubmittedIsUploaded
<1>2. HeldAlone'
  BY DEF ConsumeInv, HeldAlone
<1>3. UnbornIsEmpty' /\ BytesNeverLost'
  BY DEF ConsumeInv, UnbornIsEmpty, BytesNeverLost, Created
<1> QED
  BY <1>1, <1>2, <1>3 DEF ConsumeInv

LEMMA ConsumeUpload ==
    ASSUME TypeInv, ConsumeInv, NEW user \in Users, NEW p \in Packages, Upload(user, p)
    PROVE  ConsumeInv'
<1>1. /\ UNCHANGED <<submissions, revisions, transactions>>
      /\ \A q \in Packages \ {p} : uploads'[q] = uploads[q]
      /\ uploads[p] = NotUploaded
      /\ uploads'[p] # NotUploaded
      /\ uploads'[p].status = "AVAILABLE" /\ uploads'[p].temp
  BY DEF Upload, TypeInv, TypeOK, NotUploaded
<1>2. \A x \in RevisionNumbers : PackageOf(x) \in Packages \ {p}
  BY <1>1, PackageType DEF ConsumeInv, SubmittedIsUploaded
<1>3. SubmittedIsUploaded'
  BY <1>1, <1>2, SameRevisions DEF ConsumeInv, SubmittedIsUploaded
<1>4. ConsumedExactlyOnce'
  BY <1>1, <1>2, SameRevisions DEF ConsumeInv, ConsumedExactlyOnce
<1>5. HeldAlone'
  BY <1>1 DEF ConsumeInv, HeldAlone, Holds
<1>6. UnbornIsEmpty' /\ BytesNeverLost'
  BY <1>1 DEF ConsumeInv, UnbornIsEmpty, BytesNeverLost, Created
<1> QED
  BY <1>3, <1>4, <1>5, <1>6 DEF ConsumeInv

LEMMA ConsumeConsume ==
    ASSUME TypeInv, ConsumeInv, NEW t \in Transactions, Consume(t)
    PROVE  ConsumeInv'
<1> DEFINE p == transactions[t].revision.package
<1>1. /\ p \in Packages /\ uploads[p] \in UploadRows
      /\ transactions[t].phase = "checked"
      /\ uploads[p].status = "AVAILABLE"
      /\ ~Locked(p)
  BY TransactionType DEF Consume
<1>2. /\ UNCHANGED <<submissions, revisions>>
      /\ \A q \in Packages \ {p} : uploads'[q] = uploads[q]
      /\ uploads'[p] = [uploads[p] EXCEPT !.final = TRUE, !.temp = FALSE]
      /\ \A u \in Transactions \ {t} : transactions'[u] = transactions[u]
      /\ transactions'[t].revision = transactions[t].revision
  <2>1. transactions[t] \in OpenTransactions
    BY <1>1 DEF TypeInv, TypeOK, Idle
  <2> QED
    BY <1>1, <2>1 DEF Consume, TypeInv, TypeOK, OpenTransactions
<1> HIDE DEF p
<1>3. /\ uploads'[p] # NotUploaded /\ uploads[p] # NotUploaded
      /\ uploads'[p].status = "AVAILABLE"
      /\ uploads'[p].final = TRUE
  <2>1. uploads'[p].status = "AVAILABLE" /\ uploads'[p].final = TRUE
    BY <1>1, <1>2 DEF UploadRows
  <2> QED
    BY <1>1, <2>1 DEF NotUploaded
<1>4. SubmittedIsUploaded'
  BY <1>1, <1>2, <1>3, SameRevisions, PackageType DEF ConsumeInv, SubmittedIsUploaded
<1>5. ConsumedExactlyOnce'
  <2>1. \A q \in Packages : /\ uploads'[q] # NotUploaded <=> uploads[q] # NotUploaded
                            /\ uploads'[q].status = uploads[q].status
    BY <1>1, <1>2, <1>3
  <2> QED
    BY <1>2, <2>1, SameRevisions DEF ConsumeInv, ConsumedExactlyOnce
<1>6. BytesNeverLost'
  BY <1>1, <1>2, <1>3 DEF ConsumeInv, BytesNeverLost
<1>7. HeldAlone'
  <2>1. \A u \in Transactions : ~Holds(u, p)
    BY <1>1 DEF Locked, Holds
  <2>2. \A u \in Transactions \ {t}, q \in Packages : Holds(u, q)' <=> Holds(u, q)
    BY <1>2 DEF Holds
  <2>3. \A q \in Packages : Holds(t, q)' => q = p
    BY <1>2 DEF Holds, p
  <2>4. \A q \in Packages : ~Holds(t, q)
    BY <1>1 DEF Holds
  <2> SUFFICES ASSUME NEW u \in Transactions, NEW q \in Packages, Holds(u, q)'
               PROVE  /\ uploads'[q] # NotUploaded
                      /\ uploads'[q].status = "AVAILABLE"
                      /\ uploads'[q].final
                      /\ \A w \in Transactions : Holds(w, q)' => w = u
    BY DEF HeldAlone
  <2>5. CASE u = t
    <3>1. q = p
      BY <2>3, <2>5
    <3> QED
      BY <1>3, <2>1, <2>2, <2>5, <3>1
  <2>6. CASE u # t
    <3>1. Holds(u, q) /\ q # p
      BY <2>1, <2>2, <2>6
    <3> QED
      BY <1>2, <2>2, <2>3, <2>6, <3>1 DEF ConsumeInv, HeldAlone
  <2> QED
    BY <2>5, <2>6
<1>8. UnbornIsEmpty'
  BY <1>2 DEF ConsumeInv, UnbornIsEmpty, Created
<1> QED
  BY <1>4, <1>5, <1>6, <1>7, <1>8 DEF ConsumeInv

\* The common part of the two commits: one revision more, with the package the
\* transaction holds.
LEMMA ConsumeCommit ==
    ASSUME TypeInv, ConsumeInv, NEW t \in Transactions, NEW p \in Packages, Holds(t, p),
           Close(t), MarkConsumed(p), uploads[p] \in UploadRows,
           NEW x, x \notin RevisionNumbers,
           RevisionNumbers' = RevisionNumbers \cup {x},
           \A y \in RevisionNumbers : PackageOf(y)' = PackageOf(y),
           PackageOf(x)' = p
    PROVE  HeldAlone' /\ SubmittedIsUploaded' /\ ConsumedExactlyOnce' /\ BytesNeverLost'
<1>1. /\ uploads[p].status = "AVAILABLE"
      /\ uploads[p].final
      /\ \A u \in Transactions : Holds(u, p) => u = t
      /\ uploads[p] # NotUploaded
  BY DEF ConsumeInv, HeldAlone
<1>2. /\ uploads'[p].status = "CONSUMED"
      /\ uploads'[p].final = uploads[p].final
      /\ uploads'[p].temp = uploads[p].temp
      /\ uploads'[p] # NotUploaded
      /\ \A q \in Packages \ {p} : uploads'[q] = uploads[q]
  BY DEF MarkConsumed, TypeInv, TypeOK, UploadRows, NotUploaded
<1>3. \A y \in RevisionNumbers : PackageOf(y) # p
  BY <1>1 DEF ConsumeInv, ConsumedExactlyOnce
<1>4. \A y \in RevisionNumbers : PackageOf(y) \in Packages
  BY PackageType
<1>5. \A u \in Transactions, q \in Packages : Holds(u, q)' => u # t /\ q # p /\ Holds(u, q)
  <2>1. transactions'[t] = Idle /\ \A u \in Transactions \ {t} : transactions'[u] = transactions[u]
    BY DEF Close, TypeInv, TypeOK
  <2> QED
    BY <1>1, <2>1 DEF Holds, Idle
<1>6. HeldAlone'
  BY <1>2, <1>5 DEF ConsumeInv, HeldAlone
<1>7. SubmittedIsUploaded'
  BY <1>2, <1>3, <1>4 DEF ConsumeInv, SubmittedIsUploaded
<1>8. ConsumedExactlyOnce'
  <2>1. \A y, z \in RevisionNumbers' : PackageOf(y)' = PackageOf(z)' => y = z
    BY <1>3 DEF ConsumeInv, ConsumedExactlyOnce
  <2>2. ASSUME NEW q \in Packages, uploads'[q] # NotUploaded
        PROVE  uploads'[q].status = "CONSUMED" <=> \E y \in RevisionNumbers' : PackageOf(y)' = q
    <3>1. CASE q = p
      BY <1>2, <3>1
    <3>2. CASE q # p
      BY <1>2, <2>2, <3>2 DEF ConsumeInv, ConsumedExactlyOnce
    <3> QED
      BY <3>1, <3>2
  <2> QED
    BY <2>1, <2>2 DEF ConsumedExactlyOnce
<1>9. BytesNeverLost'
  BY <1>1, <1>2 DEF ConsumeInv, BytesNeverLost
<1> QED
  BY <1>6, <1>7, <1>8, <1>9

LEMMA ConsumeCreate ==
    ASSUME TypeInv, ConsumeInv, NEW t \in Transactions, NEW s \in Submissions,
           CommitCreate(t, s)
    PROVE  ConsumeInv'
<1> DEFINE p == transactions[t].revision.package
           x == <<s, 1>>
<1>1. /\ p \in Packages /\ uploads[p] \in UploadRows /\ Holds(t, p)
      /\ transactions[t].revision \in Revisions
  BY TransactionType DEF CommitCreate, Holds
<1>2. Close(t) /\ MarkConsumed(p) /\ ~Created(s) /\ revisions[s] = <<>>
  BY DEF CommitCreate, ConsumeInv, UnbornIsEmpty
<1>3. /\ revisions'[s] = <<transactions[t].revision>>
      /\ \A z \in Submissions \ {s} : revisions'[z] = revisions[z]
      /\ \A z \in Submissions \ {s} : submissions'[z] = submissions[z]
      /\ submissions'[s] # NotCreated
  BY DEF CommitCreate, TypeInv, TypeOK, NotCreated
<1>4. x \notin RevisionNumbers /\ \A y \in RevisionNumbers : y[1] \in Submissions \ {s}
  BY <1>2 DEF RevisionNumbers
<1>5. RevisionNumbers' = RevisionNumbers \cup {x}
  <2>1. \A n \in 1..MaxRevisions : n <= Len(revisions'[s]) <=> n = 1
    BY <1>3
  <2>2. 1 \in 1..MaxRevisions
    BY SubmissionAssumption
  <2>3. \A y \in Submissions \X (1..MaxRevisions) :
            y \in RevisionNumbers' <=> y \in RevisionNumbers \cup {x}
    <3> SUFFICES ASSUME NEW z \in Submissions, NEW n \in 1..MaxRevisions
                 PROVE  <<z, n>> \in RevisionNumbers' <=> <<z, n>> \in RevisionNumbers \cup {x}
      OBVIOUS
    <3>1. CASE z = s
      BY <1>4, <2>1, <3>1 DEF RevisionNumbers
    <3>2. CASE z # s
      BY <1>3, <3>2 DEF RevisionNumbers
    <3> QED
      BY <3>1, <3>2
  <2> QED
    BY <2>2, <2>3 DEF RevisionNumbers
<1>6. \A y \in RevisionNumbers : PackageOf(y)' = PackageOf(y)
  BY <1>3, <1>4 DEF PackageOf
<1>7. PackageOf(x)' = p
  BY <1>3 DEF PackageOf
<1> HIDE DEF p, x
<1>8. HeldAlone' /\ SubmittedIsUploaded' /\ ConsumedExactlyOnce' /\ BytesNeverLost'
  BY <1>1, <1>2, <1>4, <1>5, <1>6, <1>7, ConsumeCommit
<1>9. UnbornIsEmpty'
  BY <1>3 DEF ConsumeInv, UnbornIsEmpty, Created
<1> QED
  BY <1>8, <1>9 DEF ConsumeInv

LEMMA ConsumeRevise ==
    ASSUME TypeInv, ConsumeInv, NEW t \in Transactions, CommitRevise(t)
    PROVE  ConsumeInv'
<1>0. PICK s \in Submissions, n \in 0..(MaxRevisions + 1), p \in Packages :
        /\ s = transactions[t].submission
        /\ n = transactions[t].number
        /\ p = transactions[t].revision.package
  BY TransactionType DEF CommitRevise
<1> DEFINE x == <<s, n>>
<1>1. /\ uploads[p] \in UploadRows /\ Holds(t, p)
      /\ transactions[t].revision \in Revisions
      /\ Created(s)
  BY <1>0, TransactionType DEF CommitRevise, Holds
<1>2. Close(t) /\ MarkConsumed(p)
  BY <1>0 DEF CommitRevise
<1>3. /\ Len(revisions[s]) \in Nat
      /\ n = Len(revisions[s]) + 1
      /\ n \in 1..MaxRevisions
  <2>1. Len(revisions[s]) \in Nat
    BY DEF TypeInv, TypeOK
  <2>2. n = Len(revisions[s]) + 1 /\ n <= MaxRevisions
    BY <1>0, SubmissionAssumption DEF CommitRevise, NextRevision
  <2> QED
    BY <2>1, <2>2, SubmissionAssumption
<1>4. /\ revisions'[s] = Append(revisions[s], transactions[t].revision)
      /\ \A z \in Submissions \ {s} : revisions'[z] = revisions[z]
      /\ \A z \in Submissions \ {s} : submissions'[z] = submissions[z]
  BY <1>0 DEF CommitRevise, TypeInv, TypeOK
<1>5. /\ Len(revisions'[s]) = n
      /\ revisions'[s][n] = transactions[t].revision
      /\ \A m \in 1..Len(revisions[s]) : revisions'[s][m] = revisions[s][m]
  BY <1>1, <1>3, <1>4 DEF TypeInv, TypeOK
<1>6. RevisionNumbers' = RevisionNumbers \cup {x} /\ x \notin RevisionNumbers
  <2>1. \A m \in 1..MaxRevisions :
           m <= Len(revisions'[s]) <=> m <= Len(revisions[s]) \/ m = n
    BY <1>3, <1>5
  <2>2. x \notin RevisionNumbers
    BY <1>3 DEF RevisionNumbers
  <2>3. \A y \in Submissions \X (1..MaxRevisions) :
            y \in RevisionNumbers' <=> y \in RevisionNumbers \cup {x}
    <3> SUFFICES ASSUME NEW z \in Submissions, NEW m \in 1..MaxRevisions
                 PROVE  <<z, m>> \in RevisionNumbers' <=> <<z, m>> \in RevisionNumbers \cup {x}
      OBVIOUS
    <3>1. CASE z = s
      BY <2>1, <3>1 DEF RevisionNumbers
    <3>2. CASE z # s
      BY <1>4, <3>2 DEF RevisionNumbers
    <3> QED
      BY <3>1, <3>2
  <2> QED
    BY <1>1, <1>3, <2>2, <2>3 DEF RevisionNumbers
<1>7. \A y \in RevisionNumbers : PackageOf(y)' = PackageOf(y)
  <2> SUFFICES ASSUME NEW y \in RevisionNumbers
               PROVE  revisions'[y[1]][y[2]] = revisions[y[1]][y[2]]
    BY DEF PackageOf
  <2>1. CASE y[1] = s
    <3>1. y[2] \in 1..Len(revisions[s])
      BY <1>3, <2>1, SubmissionAssumption DEF RevisionNumbers
    <3> QED
      BY <1>5, <2>1, <3>1
  <2>2. CASE y[1] # s
    BY <1>4, <2>2 DEF RevisionNumbers
  <2> QED
    BY <2>1, <2>2
<1>8. PackageOf(x)' = p
  BY <1>0, <1>5 DEF PackageOf
<1> HIDE DEF x
<1>9. HeldAlone' /\ SubmittedIsUploaded' /\ ConsumedExactlyOnce' /\ BytesNeverLost'
  BY <1>1, <1>2, <1>6, <1>7, <1>8, ConsumeCommit
<1>10. submissions'[s] # NotCreated
  <2>1. submissions'[s].status = "PENDING_REVIEW"
    <3>1. submissions[s] \in SubmissionRows
      BY <1>1 DEF TypeInv, TypeOK, Created
    <3> QED
      BY <1>0, <3>1 DEF CommitRevise, TypeInv, TypeOK, SubmissionRows
  <2> QED
    BY <2>1 DEF NotCreated
<1>11. UnbornIsEmpty'
  BY <1>4, <1>10 DEF ConsumeInv, UnbornIsEmpty, Created
<1> QED
  BY <1>9, <1>11 DEF ConsumeInv

\* Opening or closing a transaction takes nothing.
LEMMA OpenCloseHolds ==
    ASSUME TypeInv, NEW t \in Transactions, NEW transaction,
           transaction.phase # "consumed" \/ transaction = Idle,
           transactions' = [transactions EXCEPT ![t] = transaction]
    PROVE  \A u \in Transactions, p \in Packages : Holds(u, p)' => Holds(u, p)
BY DEF Holds, TypeInv, TypeOK, Idle

LEMMA WithdrawKeeps ==
    ASSUME TypeInv, NEW t \in Transactions, CommitWithdraw(t)
    PROVE  \A s \in Submissions : Created(s) => submissions'[s] # NotCreated
<1> DEFINE s == transactions[t].submission
<1>1. s \in Submissions
  BY DEF CommitWithdraw, TypeInv, TypeOK, OpenTransactions, Idle
<1>2. submissions[s] \in SubmissionRows
  BY <1>1 DEF CommitWithdraw, TypeInv, TypeOK, OpenIsCreated, Created, Idle
<1>3. submissions'[s].status = "WITHDRAWN"
  BY <1>1, <1>2 DEF CommitWithdraw, TypeInv, TypeOK, SubmissionRows
<1> QED
  BY <1>1, <1>3 DEF CommitWithdraw, TypeInv, TypeOK, Created, NotCreated

LEMMA DecideKeeps ==
    ASSUME TypeInv, NEW reviewer \in Admins, NEW s \in Submissions,
           NEW decision \in Decisions, Decide(reviewer, s, decision)
    PROVE  \A z \in Submissions : Created(z) => submissions'[z] # NotCreated
<1>1. submissions[s] \in SubmissionRows
  BY DEF Decide, Created, TypeInv, TypeOK
<1>2. submissions'[s].status = StatusAfter(decision)
  BY <1>1 DEF Decide, TypeInv, TypeOK, SubmissionRows
<1>3. submissions'[s] # NotCreated
  BY <1>2 DEF NotCreated, StatusAfter, Decisions
<1> QED
  BY <1>3 DEF Decide, TypeInv, TypeOK, Created

LEMMA ConsumeStep == ASSUME TypeInv, TypeInv', ConsumeInv, [Next]_vars PROVE ConsumeInv'
<1>1. CASE UNCHANGED vars
  BY <1>1, ConsumeQuiet DEF vars, submissionVars, Holds, Created
<1>2. CASE \E user \in Users, p \in Packages : Upload(user, p)
  BY <1>2, ConsumeUpload
<1>3. CASE CreateNext
  <2>1. ASSUME NEW t \in Transactions, NEW user \in Users, NEW request \in Requests,
               NEW p \in Packages, BeginCreate(t, user, request, p)
        PROVE  ConsumeInv'
    BY <2>1, OpenCloseHolds, ConsumeQuiet DEF BeginCreate, Open, Created
  <2> QED
    BY <1>3, <2>1, ConsumeCreate DEF CreateNext
<1>4. CASE ReviseNext
  <2>1. ASSUME NEW t \in Transactions, NEW s \in Submissions, NEW request \in Requests,
               NEW p \in Packages, BeginRevise(t, s, request, p)
        PROVE  ConsumeInv'
    BY <2>1, OpenCloseHolds, ConsumeQuiet DEF BeginRevise, Open, Created
  <2> QED
    BY <1>4, <2>1, ConsumeRevise DEF ReviseNext
<1>5. CASE WithdrawNext
  <2>1. ASSUME NEW t \in Transactions, NEW s \in Submissions, BeginWithdraw(t, s)
        PROVE  ConsumeInv'
    BY <2>1, OpenCloseHolds, ConsumeQuiet DEF BeginWithdraw, Open, Created
  <2>2. ASSUME NEW t \in Transactions, CommitWithdraw(t)
        PROVE  ConsumeInv'
    <3>1. \A s \in Submissions : Created(s) => submissions'[s] # NotCreated
      BY <2>2, WithdrawKeeps
    <3> QED
      BY <2>2, <3>1, OpenCloseHolds, ConsumeQuiet DEF CommitWithdraw, Close
  <2> QED
    BY <1>5, <2>1, <2>2 DEF WithdrawNext
<1>6. CASE \E t \in Transactions : Consume(t) \/ Rollback(t)
  <2>1. ASSUME NEW t \in Transactions, Rollback(t)
        PROVE  ConsumeInv'
    BY <2>1, OpenCloseHolds, ConsumeQuiet DEF Rollback, Close, Created
  <2> QED
    BY <1>6, <2>1, ConsumeConsume
<1>7. CASE \E reviewer \in Admins, s \in Submissions, decision \in Decisions :
              Decide(reviewer, s, decision)
  <2>1. PICK reviewer \in Admins, s \in Submissions, decision \in Decisions :
              Decide(reviewer, s, decision)
    BY <1>7
  <2>2. \A z \in Submissions : Created(z) => submissions'[z] # NotCreated
    BY <2>1, DecideKeeps
  <2> QED
    BY <2>1, <2>2, ConsumeQuiet DEF Decide, Holds
<1>8. CASE Governance /\ UNCHANGED submissionVars
  BY <1>8, ConsumeQuiet DEF submissionVars, Holds, Created
<1> QED
  BY <1>1, <1>2, <1>3, <1>4, <1>5, <1>6, <1>7, <1>8 DEF Next

THEOREM ConsumeInvariance == Spec => []ConsumeInv
BY ConsumeInit, ConsumeStep, TypeInvariance, PTL DEF Spec

\* A temporary upload ends in at most one revision, and its row says CONSUMED
\* exactly when it did, under any interleaving, retry and rollback.
THEOREM ConsumedOnce == Spec => []ConsumedExactlyOnce
<1>1. ConsumeInv => ConsumedExactlyOnce
  BY DEF ConsumeInv
<1> QED
  BY <1>1, ConsumeInvariance, PTL

\* No rollback or concurrent request loses the bytes of an uploaded package.
THEOREM BytesKept == Spec => []BytesNeverLost
<1>1. ConsumeInv => BytesNeverLost
  BY DEF ConsumeInv
<1> QED
  BY <1>1, ConsumeInvariance, PTL

-----------------------------------------------------------------------------
(* What the approvals leave in the catalogue.                              *)

\* A step keeps the reviews, what they judged and whose it was.
ReviewsKept ==
    /\ reviews \subseteq reviews'
    /\ \A r \in reviews :
          /\ JudgedRevision(r)' = JudgedRevision(r)
          /\ submissions'[r.submission].submitter = submissions[r.submission].submitter

LEMMA CreateKeepsReviews ==
    ASSUME TypeInv, JudgeInv, NEW t \in Transactions, NEW s \in Submissions,
           CommitCreate(t, s)
    PROVE  ReviewsKept
<1>1. /\ reviews' = reviews
      /\ ~Created(s)
      /\ \A z \in Submissions \ {s} :
            submissions'[z] = submissions[z] /\ revisions'[z] = revisions[z]
  BY DEF CommitCreate, TypeInv, TypeOK
<1>2. \A r \in reviews : r.submission \in Submissions \ {s}
  BY <1>1 DEF JudgeInv, ReviewedExists, TypeInv, TypeOK, Reviews
<1> QED
  BY <1>1, <1>2 DEF ReviewsKept, JudgedRevision

LEMMA ReviseKeepsReviews ==
    ASSUME TypeInv, JudgeInv, NEW t \in Transactions, CommitRevise(t)
    PROVE  ReviewsKept
<1>0. PICK s \in Submissions : s = transactions[t].submission
  BY TransactionType DEF CommitRevise
<1>1. /\ submissions[s] \in SubmissionRows
      /\ transactions[t].revision \in Revisions
  BY <1>0, TransactionType DEF CommitRevise, TypeInv, TypeOK, Created
<1>2. /\ reviews' = reviews
      /\ revisions'[s] = Append(revisions[s], transactions[t].revision)
      /\ submissions'[s].submitter = submissions[s].submitter
      /\ \A z \in Submissions \ {s} :
            submissions'[z] = submissions[z] /\ revisions'[z] = revisions[z]
  BY <1>0, <1>1 DEF CommitRevise, TypeInv, TypeOK, SubmissionRows
<1>3. \A n \in 1..Len(revisions[s]) : revisions'[s][n] = revisions[s][n]
  BY <1>1, <1>2 DEF TypeInv, TypeOK
<1>4. ASSUME NEW r \in reviews
      PROVE  /\ revisions'[r.submission][r.revision] = revisions[r.submission][r.revision]
             /\ submissions'[r.submission].submitter = submissions[r.submission].submitter
  <2>1. r.submission \in Submissions /\ r.revision \in 1..MaxRevisions
    BY DEF TypeInv, TypeOK, Reviews
  <2>2. CASE r.submission = s
    <3>1. r.revision \in 1..Len(revisions[s])
      <4>1. r.revision <= Len(revisions[s]) /\ Len(revisions[s]) \in Nat
        BY <2>2 DEF JudgeInv, ReviewedExists, TypeInv, TypeOK
      <4> QED
        BY <2>1, <4>1, SubmissionAssumption
    <3> QED
      BY <1>2, <1>3, <2>2, <3>1
  <2>3. CASE r.submission # s
    BY <1>2, <2>1, <2>3
  <2> QED
    BY <2>2, <2>3
<1> QED
  BY <1>2, <1>4 DEF ReviewsKept, JudgedRevision

LEMMA WithdrawKeepsReviews ==
    ASSUME TypeInv, NEW t \in Transactions, CommitWithdraw(t)
    PROVE  ReviewsKept
<1>0. PICK s : s = transactions[t].submission
  OBVIOUS
<1>1. s \in Submissions
  BY <1>0 DEF CommitWithdraw, TypeInv, TypeOK, OpenTransactions, Idle
<1>2. submissions[s] \in SubmissionRows
  BY <1>0, <1>1 DEF CommitWithdraw, TypeInv, TypeOK, OpenIsCreated, Created, Idle
<1>3. /\ UNCHANGED <<revisions, reviews>>
      /\ \A z \in Submissions : submissions'[z].submitter = submissions[z].submitter
  BY <1>0, <1>1, <1>2 DEF CommitWithdraw, TypeInv, TypeOK, SubmissionRows
<1>4. \A r \in reviews : r.submission \in Submissions
  BY DEF TypeInv, TypeOK, Reviews
<1> QED
  BY <1>3, <1>4 DEF ReviewsKept, JudgedRevision

LEMMA DecideKeepsReviews ==
    ASSUME TypeInv, NEW reviewer \in Admins, NEW s \in Submissions,
           NEW decision \in Decisions, Decide(reviewer, s, decision)
    PROVE  ReviewsKept
<1>1. submissions[s] \in SubmissionRows
  BY DEF Decide, Created, TypeInv, TypeOK
<1>2. /\ revisions' = revisions
      /\ reviews \subseteq reviews'
      /\ \A z \in Submissions : submissions'[z].submitter = submissions[z].submitter
  BY <1>1 DEF Decide, TypeInv, TypeOK, SubmissionRows
<1>3. \A r \in reviews : r.submission \in Submissions
  BY DEF TypeInv, TypeOK, Reviews
<1> QED
  BY <1>2, <1>3 DEF ReviewsKept, JudgedRevision

LEMMA QuietKeepsReviews ==
    ASSUME UNCHANGED <<submissions, revisions, reviews>>
    PROVE  ReviewsKept
BY DEF ReviewsKept, JudgedRevision

LEMMA ReviewsStay == ASSUME TypeInv, JudgeInv, [Next]_vars PROVE ReviewsKept
<1>1. CASE UNCHANGED vars
  BY <1>1, QuietKeepsReviews DEF vars, submissionVars
<1>2. CASE \E user \in Users, p \in Packages : Upload(user, p)
  BY <1>2, QuietKeepsReviews DEF Upload
<1>3. CASE CreateNext
  BY <1>3, QuietKeepsReviews, CreateKeepsReviews DEF CreateNext, BeginCreate
<1>4. CASE ReviseNext
  BY <1>4, QuietKeepsReviews, ReviseKeepsReviews DEF ReviseNext, BeginRevise
<1>5. CASE WithdrawNext
  BY <1>5, QuietKeepsReviews, WithdrawKeepsReviews DEF WithdrawNext, BeginWithdraw
<1>6. CASE \E t \in Transactions : Consume(t) \/ Rollback(t)
  BY <1>6, QuietKeepsReviews DEF Consume, Rollback
<1>7. CASE \E reviewer \in Admins, s \in Submissions, decision \in Decisions :
              Decide(reviewer, s, decision)
  BY <1>7, DecideKeepsReviews
<1>8. CASE Governance /\ UNCHANGED submissionVars
  BY <1>8, QuietKeepsReviews DEF submissionVars
<1> QED
  BY <1>1, <1>2, <1>3, <1>4, <1>5, <1>6, <1>7, <1>8 DEF Next

\* The catalogue changes through approvals and governance calls only.
LEMMA WhoChangesTheCatalogue ==
    ASSUME [Next]_vars
    PROVE  \/ UNCHANGED extensionVars
           \/ \E reviewer \in Admins, s \in Submissions :
                 /\ Decide(reviewer, s, "APPROVE")
                 /\ Materialize(CurrentRevision(s), submissions[s].submitter)
           \/ Governance
<1>1. CASE UNCHANGED vars
  BY <1>1 DEF vars
<1>2. CASE \E user \in Users, p \in Packages : Upload(user, p)
  BY <1>2 DEF Upload
<1>3. CASE CreateNext
  BY <1>3 DEF CreateNext, BeginCreate, CommitCreate
<1>4. CASE ReviseNext
  BY <1>4 DEF ReviseNext, BeginRevise, CommitRevise
<1>5. CASE WithdrawNext
  BY <1>5 DEF WithdrawNext, BeginWithdraw, CommitWithdraw
<1>6. CASE \E t \in Transactions : Consume(t) \/ Rollback(t)
  BY <1>6 DEF Consume, Rollback
<1>7. CASE \E reviewer \in Admins, s \in Submissions, decision \in Decisions :
              Decide(reviewer, s, decision)
  BY <1>7 DEF Decide
<1> QED
  BY <1>1, <1>2, <1>3, <1>4, <1>5, <1>6, <1>7 DEF Next

\* An approval judges a revision that exists and that nobody has judged.
LEMMA Approving ==
    ASSUME TypeInv, JudgeInv, NEW reviewer \in Admins, NEW s \in Submissions,
           Decide(reviewer, s, "APPROVE")
    PROVE  /\ CurrentRevision(s) \in Revisions
           /\ submissions[s].submitter \in Users
           /\ <<s, submissions[s].current>> \in RevisionNumbers
           /\ \A r \in reviews :
                 ~(r.submission = s /\ r.revision = submissions[s].current)
<1> DEFINE row == submissions[s]
<1>1. row \in SubmissionRows /\ Created(s) /\ row.status = "PENDING_REVIEW"
  BY DEF Decide, Created, TypeInv, TypeOK
<1>2. /\ row.submitter \in Users
      /\ row.current \in 1..MaxRevisions
      /\ row.current <= Len(revisions[s])
  BY <1>1 DEF SubmissionRows, TypeInv, CurrentExists
<1>3. row.current \in 1..Len(revisions[s])
  BY <1>2, SubmissionAssumption DEF TypeInv, TypeOK
<1>4. CurrentRevision(s) \in Revisions
  BY <1>3 DEF CurrentRevision, TypeInv, TypeOK
<1>5. <<s, row.current>> \in RevisionNumbers
  BY <1>2 DEF RevisionNumbers
<1>6. \A r \in reviews : ~(r.submission = s /\ r.revision = row.current)
  BY <1>1 DEF JudgeInv, JudgedAtMostOnce
<1> QED
  BY <1>2, <1>4, <1>5, <1>6

\* It adds a review of that revision by somebody else than the submitter.
LEMMA ApprovalRecorded ==
    ASSUME TypeInv, NEW reviewer \in Admins, NEW s \in Submissions,
           Decide(reviewer, s, "APPROVE")
    PROVE  \E r \in Approvals' :
              /\ r.reviewer = reviewer
              /\ r.submission = s
              /\ r.revision = submissions[s].current
              /\ revisions'[r.submission][r.revision] = CurrentRevision(s)
              /\ reviewer # submissions'[r.submission].submitter
<1>1. submissions[s] \in SubmissionRows
  BY DEF Decide, Created, TypeInv, TypeOK
<1>2. PICK review : review = [submission |-> s, revision |-> submissions[s].current,
                              reviewer |-> reviewer, decision |-> "APPROVE"]
  OBVIOUS
<1>3. /\ reviews' = reviews \cup {review}
      /\ revisions' = revisions
      /\ reviewer # submissions[s].submitter
  BY <1>2 DEF Decide, CanReview
<1>4. submissions'[s].submitter = submissions[s].submitter
  BY <1>1 DEF Decide, TypeInv, TypeOK, SubmissionRows
<1>5. /\ review.reviewer = reviewer
      /\ review.submission = s
      /\ review.revision = submissions[s].current
  BY <1>2
<1>6. /\ review \in Approvals'
      /\ revisions'[review.submission][review.revision] = CurrentRevision(s)
  BY <1>2, <1>3, <1>5 DEF Approvals, CurrentRevision
<1> QED
  BY <1>3, <1>4, <1>5, <1>6

-----------------------------------------------------------------------------
(* The effective revision, and the packages that are served.               *)

LEMMA EffectiveStep ==
    ASSUME TypeInv, JudgeInv, EffectiveIsApproved, [Next]_vars
    PROVE  EffectiveIsApproved'
<1>0. Approvals \subseteq Approvals'
  BY ReviewsStay DEF ReviewsKept, Approvals
<1>1. CASE UNCHANGED submissions
  BY <1>0, <1>1 DEF EffectiveIsApproved, Created
<1>2. ASSUME NEW t \in Transactions, NEW s \in Submissions, CommitCreate(t, s)
      PROVE  EffectiveIsApproved'
  <2>1. submissions'[s].status = "PENDING_REVIEW" /\ submissions'[s].effective = 0
    BY <1>2 DEF CommitCreate, TypeInv, TypeOK
  <2>2. \A z \in Submissions \ {s} : submissions'[z] = submissions[z]
    BY <1>2 DEF CommitCreate, TypeInv, TypeOK
  <2> QED
    BY <1>0, <2>1, <2>2 DEF EffectiveIsApproved, Created
<1>3. ASSUME NEW t \in Transactions, CommitRevise(t)
      PROVE  EffectiveIsApproved'
  <2>1. PICK s \in Submissions : s = transactions[t].submission
    BY <1>3, TransactionType DEF CommitRevise
  <2>2. submissions[s] \in SubmissionRows /\ Created(s)
    BY <1>3, <2>1, TransactionType DEF CommitRevise, TypeInv, TypeOK, Created
  <2>3. /\ submissions'[s].status = "PENDING_REVIEW"
        /\ submissions'[s].effective = submissions[s].effective
        /\ \A z \in Submissions \ {s} : submissions'[z] = submissions[z]
    BY <1>3, <2>1, <2>2 DEF CommitRevise, TypeInv, TypeOK, SubmissionRows
  <2> QED
    BY <1>0, <2>2, <2>3 DEF EffectiveIsApproved, Created
<1>4. ASSUME NEW t \in Transactions, CommitWithdraw(t)
      PROVE  EffectiveIsApproved'
  <2>1. PICK s : s = transactions[t].submission
    OBVIOUS
  <2>2. s \in Submissions
    BY <1>4, <2>1 DEF CommitWithdraw, TypeInv, TypeOK, OpenTransactions, Idle
  <2>3. submissions[s] \in SubmissionRows /\ Created(s)
    BY <1>4, <2>1, <2>2 DEF CommitWithdraw, TypeInv, TypeOK, OpenIsCreated, Created, Idle
  <2>4. /\ submissions'[s].status = "WITHDRAWN"
        /\ submissions'[s].effective = submissions[s].effective
        /\ \A z \in Submissions \ {s} : submissions'[z] = submissions[z]
    BY <1>4, <2>1, <2>2, <2>3 DEF CommitWithdraw, TypeInv, TypeOK, SubmissionRows
  <2> QED
    BY <1>0, <2>3, <2>4 DEF EffectiveIsApproved, Created
<1>5. ASSUME NEW reviewer \in Admins, NEW s \in Submissions, NEW decision \in Decisions,
             Decide(reviewer, s, decision)
      PROVE  EffectiveIsApproved'
  <2>1. submissions[s] \in SubmissionRows /\ Created(s)
    BY <1>5 DEF Decide, Created, TypeInv, TypeOK
  <2>2. /\ submissions'[s].status = StatusAfter(decision)
        /\ submissions'[s].effective = EffectiveAfter(submissions[s], decision)
        /\ submissions'[s].current = submissions[s].current
        /\ \A z \in Submissions \ {s} : submissions'[z] = submissions[z]
    BY <1>5, <2>1 DEF Decide, TypeInv, TypeOK, SubmissionRows
  <2>3. \A z \in Submissions \ {s} : submissions'[z] # NotCreated =>
            /\ submissions'[z].status = "APPROVED" =>
                  submissions'[z].effective = submissions'[z].current
            /\ submissions'[z].effective # 0 =>
                  \E r \in Approvals' : r.submission = z /\ r.revision = submissions'[z].effective
    BY <1>0, <2>2 DEF EffectiveIsApproved, Created
  <2>4. CASE decision = "APPROVE"
    <3>1. \E r \in Approvals' : r.submission = s /\ r.revision = submissions[s].current
      BY <1>5, <2>4, ApprovalRecorded
    <3>2. submissions'[s].effective = submissions[s].current
      BY <2>2, <2>4 DEF EffectiveAfter
    <3> QED
      BY <2>2, <2>3, <3>1, <3>2 DEF EffectiveIsApproved, Created
  <2>5. CASE decision # "APPROVE"
    <3>1. submissions'[s].effective = submissions[s].effective
      BY <2>2, <2>5 DEF EffectiveAfter
    <3>2. submissions'[s].status # "APPROVED"
      BY <2>2, <2>5 DEF StatusAfter, Decisions
    <3> QED
      BY <1>0, <2>1, <2>3, <3>1, <3>2 DEF EffectiveIsApproved, Created
  <2> QED
    BY <2>4, <2>5
<1>6. \/ UNCHANGED submissions
      \/ \E t \in Transactions, s \in Submissions : CommitCreate(t, s)
      \/ \E t \in Transactions : CommitRevise(t) \/ CommitWithdraw(t)
      \/ \E reviewer \in Admins, s \in Submissions, decision \in Decisions :
            Decide(reviewer, s, decision)
  BY DEF Next, vars, submissionVars, Upload, CreateNext, BeginCreate, ReviseNext, BeginRevise,
     WithdrawNext, BeginWithdraw, Consume, Rollback
<1> QED
  BY <1>1, <1>2, <1>3, <1>4, <1>5, <1>6

\* APPROVED means that the current revision is the effective one, and only an
\* approved revision ever is effective, in every interleaving with withdrawals
\* that overwrite a decision and revises of what was withdrawn.
THEOREM EffectiveApproved == Spec => []EffectiveIsApproved
<1>1. Init => EffectiveIsApproved
  BY DEF Init, EffectiveIsApproved, Created
<1>2. TypeInv /\ JudgeInv /\ EffectiveIsApproved /\ [Next]_vars => EffectiveIsApproved'
  BY EffectiveStep
<1>3. TypeInv /\ TypeInv' /\ JudgeInv /\ [Next]_vars => JudgeInv'
  BY JudgeStep
<1> QED
  BY <1>1, <1>2, <1>3, JudgeInit, TypeInvariance, PTL DEF Spec

-----------------------------------------------------------------------------

LEMMA ServedApprove ==
    ASSUME TypeInv, JudgeInv, ConsumeInv, ServedIsApproved, ReviewsKept,
           NEW reviewer \in Admins, NEW s \in Submissions, Decide(reviewer, s, "APPROVE"),
           MaterializePublication(CurrentRevision(s), submissions[s].submitter)
    PROVE  ServedIsApproved'
<1>0. PICK revision \in Revisions, e \in Extensions, v \in Versions, p \in Packages :
        /\ revision = CurrentRevision(s)
        /\ e = revision.extension
        /\ v = revision.version
        /\ p = revision.package
  BY Approving DEF Revisions
<1>1. /\ attached' = [attached EXCEPT ![p] = [extension |-> e, version |-> v]]
      /\ versions' = [versions EXCEPT ![e][v] = IF @ = NoPackage THEN p ELSE @]
  BY <1>0 DEF MaterializePublication, WithVersion
<1>2. /\ attached'[p] = [extension |-> e, version |-> v]
      /\ \A q \in Packages \ {p} : attached'[q] = attached[q]
      /\ versions'[e][v] = IF versions[e][v] = NoPackage THEN p ELSE versions[e][v]
      /\ \A f \in Extensions, w \in Versions : (f # e \/ w # v) =>
            versions'[f][w] = versions[f][w]
  BY <1>1 DEF TypeInv, TypeOK, ExtensionTypeOK
\* The package was not attached before: nobody had judged its one revision.
<1>3. attached[p] = NotAttached
  <2> SUFFICES ASSUME attached[p] # NotAttached PROVE FALSE
    OBVIOUS
  <2>1. PICK r \in Approvals : JudgedRevision(r).package = p
    BY DEF ServedIsApproved
  <2>2. r \in reviews
    BY DEF Approvals
  <2>3. <<r.submission, r.revision>> \in RevisionNumbers
    BY <2>2 DEF TypeInv, TypeOK, Reviews, JudgeInv, ReviewedExists, RevisionNumbers
  <2>4. <<s, submissions[s].current>> \in RevisionNumbers
    BY Approving
  <2>5. PackageOf(<<r.submission, r.revision>>) = p
    BY <2>1 DEF PackageOf, JudgedRevision
  <2>6. PackageOf(<<s, submissions[s].current>>) = p
    BY <1>0 DEF PackageOf, CurrentRevision
  <2>7. <<r.submission, r.revision>> = <<s, submissions[s].current>>
    BY <2>3, <2>4, <2>5, <2>6 DEF ConsumeInv, ConsumedExactlyOnce
  <2>8. r.submission = s /\ r.revision = submissions[s].current
    BY <2>7
  <2>9. \A q \in reviews : ~(q.submission = s /\ q.revision = submissions[s].current)
    BY Approving
  <2> QED
    BY <2>2, <2>8, <2>9
<1>4. ASSUME NEW q \in Packages, attached'[q] # NotAttached
      PROVE  \E r \in Approvals' :
                /\ JudgedRevision(r)'.package = q
                /\ JudgedRevision(r)'.extension = attached'[q].extension
                /\ JudgedRevision(r)'.version = attached'[q].version
                /\ r.reviewer # submissions'[r.submission].submitter
  <2>1. CASE q = p
    <3>1. PICK r \in Approvals' :
            /\ r.reviewer = reviewer
            /\ revisions'[r.submission][r.revision] = CurrentRevision(s)
            /\ reviewer # submissions'[r.submission].submitter
      BY ApprovalRecorded
    <3>2. JudgedRevision(r)' = revision
      BY <1>0, <3>1 DEF JudgedRevision
    <3> QED
      BY <1>0, <1>2, <2>1, <3>1, <3>2
  <2>2. CASE q # p
    <3>1. PICK r \in Approvals :
            /\ JudgedRevision(r).package = q
            /\ JudgedRevision(r).extension = attached[q].extension
            /\ JudgedRevision(r).version = attached[q].version
            /\ r.reviewer # submissions[r.submission].submitter
      BY <1>2, <1>4, <2>2 DEF ServedIsApproved
    <3>2. r \in reviews /\ r \in Approvals'
      BY <3>1 DEF ReviewsKept, Approvals
    <3> QED
      BY <1>2, <2>2, <3>1, <3>2 DEF ReviewsKept
  <2> QED
    BY <2>1, <2>2
<1>5. ASSUME NEW f \in Extensions, NEW w \in Versions, versions'[f][w] # NoPackage
      PROVE  attached'[versions'[f][w]] = [extension |-> f, version |-> w]
  <2>1. CASE versions[f][w] = NoPackage
    <3>1. f = e /\ w = v /\ versions'[f][w] = p
      BY <1>2, <1>5, <2>1
    <3> QED
      BY <1>2, <3>1
  <2>2. CASE versions[f][w] # NoPackage
    <3>1. /\ versions[f][w] \in Packages
          /\ attached[versions[f][w]] = [extension |-> f, version |-> w]
      BY <2>2 DEF ServedIsApproved, TypeInv, TypeOK, ExtensionTypeOK
    <3>2. w # 0
      BY ExtensionAssumption DEF Versions
    <3>3. versions[f][w] # p
      BY <1>3, <3>1, <3>2 DEF NotAttached
    <3>4. versions'[f][w] = versions[f][w]
      BY <1>2, <2>2
    <3> QED
      BY <1>2, <3>1, <3>3, <3>4
  <2> QED
    BY <2>1, <2>2
<1> QED
  BY <1>4, <1>5 DEF ServedIsApproved

LEMMA ServedQuiet ==
    ASSUME TypeInv, ServedIsApproved, ReviewsKept, UNCHANGED <<versions, attached>>
    PROVE  ServedIsApproved'
<1>1. ASSUME NEW q \in Packages, attached[q] # NotAttached
      PROVE  \E r \in Approvals' :
                /\ JudgedRevision(r)'.package = q
                /\ JudgedRevision(r)'.extension = attached[q].extension
                /\ JudgedRevision(r)'.version = attached[q].version
                /\ r.reviewer # submissions'[r.submission].submitter
  <2>1. PICK r \in Approvals :
          /\ JudgedRevision(r).package = q
          /\ JudgedRevision(r).extension = attached[q].extension
          /\ JudgedRevision(r).version = attached[q].version
          /\ r.reviewer # submissions[r.submission].submitter
    BY <1>1 DEF ServedIsApproved
  <2>2. r \in reviews /\ r \in Approvals'
    BY <2>1 DEF ReviewsKept, Approvals
  <2> QED
    BY <2>1, <2>2 DEF ReviewsKept
<1> QED
  BY <1>1 DEF ServedIsApproved

\* Governance calls change neither versions nor attachments.
LEMMA GovernanceKeepsPackages ==
    ASSUME Governance
    PROVE  UNCHANGED <<versions, attached>>
BY DEF Governance, Delist, SecurityDelist, Relist, Archive, SetStatus, ReduceScope,
   ReduceVisibility, TransferOwnership, Begin, ExecuteUpdate, ExecuteScope

LEMMA ServedStep ==
    ASSUME TypeInv, JudgeInv, ConsumeInv, ServedIsApproved, [Next]_vars
    PROVE  ServedIsApproved'
<1>1. ReviewsKept
  BY ReviewsStay
<1>2. CASE UNCHANGED <<versions, attached>>
  BY <1>1, <1>2, ServedQuiet
<1>3. CASE UNCHANGED extensionVars \/ Governance
  BY <1>2, <1>3, GovernanceKeepsPackages DEF extensionVars
<1>4. ASSUME NEW reviewer \in Admins, NEW s \in Submissions, Decide(reviewer, s, "APPROVE"),
             Materialize(CurrentRevision(s), submissions[s].submitter)
      PROVE  ServedIsApproved'
  BY <1>1, <1>2, <1>4, ServedApprove DEF Materialize, MaterializeArchive
<1> QED
  BY <1>3, <1>4, WhoChangesTheCatalogue

\* A package a download can hand out was approved, for the extension and the
\* version it is attached to, by an administrator who had not submitted it.
THEOREM ServedApproved == Spec => []ServedIsApproved
<1>1. Init => ServedIsApproved
  BY DEF Init, ExtensionInit, ServedIsApproved
<1>2. TypeInv /\ JudgeInv /\ ConsumeInv /\ ServedIsApproved /\ [Next]_vars => ServedIsApproved'
  BY ServedStep
<1>3. TypeInv /\ TypeInv' /\ JudgeInv /\ [Next]_vars => JudgeInv'
  BY JudgeStep
<1> QED
  BY <1>1, <1>2, <1>3, JudgeInit, TypeInvariance, ConsumeInvariance, PTL DEF Spec

-----------------------------------------------------------------------------

LEMMA GovernanceKeepsVersions ==
    ASSUME TypeInv, Governance
    PROVE  \A e \in Extensions :
              /\ extensions'[e] # Absent => Exists(e)
              /\ Exists(e) => extensions'[e].version = extensions[e].version
<1>1. CASE UNCHANGED extensions
  BY <1>1 DEF Exists
<1>2. ASSUME NEW c \in Callers, ExecuteUpdate(c)
      PROVE  \A e \in Extensions :
                /\ extensions'[e] # Absent => Exists(e)
                /\ Exists(e) => extensions'[e].version = extensions[e].version
  <2>1. PICK update \in Updates, e \in Extensions :
          /\ update = pending[c]
          /\ e = update.extension
          /\ update.column \in {"status", "visibility", "owner"}
    <3>1. pending[c] \in Updates /\ pending[c].column \in {"status", "visibility", "owner"}
      BY <1>2 DEF ExecuteUpdate, TypeInv, TypeOK, ExtensionTypeOK, NoUpdate
    <3> QED
      BY <3>1 DEF Updates
  <2>2. Exists(e) /\ extensions[e] \in ExtensionRows
    <3>1. pending[c] # NoUpdate
      BY <2>1 DEF NoUpdate
    <3> QED
      BY <2>1, <3>1 DEF TypeInv, TypeOK, ExtensionTypeOK, PendingExists, Exists
  <2>3. UpdatedRow(update).version = extensions[e].version
    BY <2>1, <2>2 DEF UpdatedRow, ExtensionRows
  <2>4. extensions' = [extensions EXCEPT ![e] = UpdatedRow(update)]
    BY <1>2, <2>1 DEF ExecuteUpdate
  <2> QED
    BY <2>2, <2>3, <2>4 DEF TypeInv, TypeOK, ExtensionTypeOK, Exists
<1>3. UNCHANGED extensions \/ \E c \in Callers : ExecuteUpdate(c)
  BY DEF Governance, Delist, SecurityDelist, Relist, Archive, SetStatus, ReduceScope,
     ReduceVisibility, TransferOwnership, Begin, ExecuteScope
<1> QED
  BY <1>1, <1>2, <1>3

LEMMA CurrentVersionApprove ==
    ASSUME TypeInv, CurrentVersionHasPackage, NEW revision \in Revisions, NEW submitter,
           Materialize(revision, submitter)
    PROVE  CurrentVersionHasPackage'
<1>0. PICK e \in Extensions, v \in Versions, p \in Packages :
        /\ e = revision.extension
        /\ v = revision.version
        /\ p = revision.package
  BY DEF Revisions
<1>1. CASE MaterializeArchive(revision)
  <2>1. extensions[e] \in ExtensionRows /\ Exists(e)
    BY <1>0, <1>1 DEF MaterializeArchive, TypeInv, TypeOK, ExtensionTypeOK, Exists
  <2>2. /\ versions' = versions
        /\ extensions'[e].version = extensions[e].version
        /\ \A f \in Extensions \ {e} : extensions'[f] = extensions[f]
    BY <1>0, <1>1, <2>1 DEF MaterializeArchive, TypeInv, TypeOK, ExtensionTypeOK, ExtensionRows
  <2> QED
    BY <2>1, <2>2 DEF CurrentVersionHasPackage, Exists
<1>2. CASE MaterializePublication(revision, submitter)
  <2>1. PublishedRow(e, revision, submitter).version = v
    <3>1. CASE Exists(e)
      <4>1. extensions[e] \in ExtensionRows
        BY <3>1 DEF TypeInv, TypeOK, ExtensionTypeOK, Exists
      <4> QED
        BY <1>0, <3>1, <4>1 DEF PublishedRow, ExtensionRows
    <3>2. CASE ~Exists(e)
      BY <1>0, <3>2 DEF PublishedRow
    <3> QED
      BY <3>1, <3>2
  <2>2. /\ extensions'[e].version = v
        /\ \A f \in Extensions \ {e} : extensions'[f] = extensions[f]
    BY <1>0, <1>2, <2>1 DEF MaterializePublication, TypeInv, TypeOK, ExtensionTypeOK
  <2>3. /\ versions'[e][v] = IF versions[e][v] = NoPackage THEN p ELSE versions[e][v]
        /\ \A f \in Extensions \ {e} : versions'[f] = versions[f]
    <3>1. versions' = [versions EXCEPT ![e][v] = IF @ = NoPackage THEN p ELSE @]
      BY <1>0, <1>2 DEF MaterializePublication, WithVersion
    <3> QED
      BY <3>1 DEF TypeInv, TypeOK, ExtensionTypeOK
  <2>4. versions'[e][v] # NoPackage
    BY <2>3, ExtensionAssumption
  <2> QED
    BY <2>2, <2>3, <2>4 DEF CurrentVersionHasPackage, Exists
<1> QED
  BY <1>1, <1>2 DEF Materialize

LEMMA CurrentVersionStep ==
    ASSUME TypeInv, JudgeInv, CurrentVersionHasPackage, [Next]_vars
    PROVE  CurrentVersionHasPackage'
<1>1. CASE UNCHANGED extensionVars
  BY <1>1 DEF extensionVars, CurrentVersionHasPackage, Exists
<1>2. CASE Governance
  BY <1>2, GovernanceKeepsVersions, GovernanceKeepsPackages DEF CurrentVersionHasPackage, Exists
<1>3. ASSUME NEW reviewer \in Admins, NEW s \in Submissions, Decide(reviewer, s, "APPROVE"),
             Materialize(CurrentRevision(s), submissions[s].submitter)
      PROVE  CurrentVersionHasPackage'
  <2>1. CurrentRevision(s) \in Revisions
    BY <1>3, Approving
  <2> QED
    BY <1>3, <2>1, CurrentVersionApprove
<1> QED
  BY <1>1, <1>2, <1>3, WhoChangesTheCatalogue

\* Whatever publications, updates, metadata changes and archivals are approved,
\* and whatever governance calls write in between, the version an extension is
\* at has a package to install.
THEOREM CurrentVersionInstallable == Spec => []CurrentVersionHasPackage
<1>1. Init => CurrentVersionHasPackage
  BY DEF Init, ExtensionInit, CurrentVersionHasPackage, Exists
<1>2. TypeInv /\ JudgeInv /\ CurrentVersionHasPackage /\ [Next]_vars => CurrentVersionHasPackage'
  BY CurrentVersionStep
<1>3. TypeInv /\ TypeInv' /\ JudgeInv /\ [Next]_vars => JudgeInv'
  BY JudgeStep
<1> QED
  BY <1>1, <1>2, <1>3, JudgeInit, TypeInvariance, PTL DEF Spec

-----------------------------------------------------------------------------

\* No governance call, however it is overtaken, adds the row for everyone.
LEMMA GovernanceOpensNothing ==
    ASSUME TypeInv, Governance
    PROVE  \A e \in Extensions : AllEmployees \in scopes'[e] => AllEmployees \in scopes[e]
<1>1. ASSUME NEW c \in Callers, ExecuteScope(c)
      PROVE  \A e \in Extensions : AllEmployees \in scopes'[e] => AllEmployees \in scopes[e]
  <2>1. PICK update \in Updates : update = pending[c] /\ update.column = "scope"
    BY <1>1 DEF ExecuteScope, TypeInv, TypeOK, ExtensionTypeOK, NoUpdate
  <2>2. PICK e \in Extensions, scope \in DepartmentScopes :
          e = update.extension /\ scope = update.scope
    BY <2>1 DEF Updates
  <2>3. scope # AllEmployees
    BY DEF DepartmentScopes, AllEmployees
  <2>4. scopes' = [scopes EXCEPT ![e] = (update.unseen \cap scopes[e]) \cup {scope}]
    BY <1>1, <2>1, <2>2 DEF ExecuteScope, InsertScope
  <2> QED
    BY <2>3, <2>4 DEF TypeInv, TypeOK, ExtensionTypeOK
<1>2. UNCHANGED scopes \/ \E c \in Callers : ExecuteScope(c)
  BY DEF Governance, Delist, SecurityDelist, Relist, Archive, SetStatus, ReduceScope,
     ReduceVisibility, TransferOwnership, Begin, ExecuteUpdate
<1> QED
  BY <1>1, <1>2

LEMMA EveryoneQuiet ==
    ASSUME ReviewsKept, EveryoneScopeFromSystemAdmin, NEW e \in Extensions,
           AllEmployees \in scopes[e]
    PROVE  \E r \in Approvals' :
              /\ r.reviewer \in SystemAdmins
              /\ revisions'[r.submission][r.revision].extension = e
              /\ revisions'[r.submission][r.revision].scope = AllEmployees
<1>1. PICK r \in Approvals :
        /\ r.reviewer \in SystemAdmins
        /\ JudgedRevision(r).extension = e
        /\ JudgedRevision(r).scope = AllEmployees
  BY DEF EveryoneScopeFromSystemAdmin
<1>2. r \in reviews /\ r \in Approvals'
  BY <1>1 DEF ReviewsKept, Approvals
<1>3. revisions'[r.submission][r.revision] = revisions[r.submission][r.revision]
  BY <1>2 DEF ReviewsKept, JudgedRevision
<1> QED
  BY <1>1, <1>2, <1>3 DEF JudgedRevision

LEMMA EveryoneStep ==
    ASSUME TypeInv, JudgeInv, EveryoneScopeFromSystemAdmin, [Next]_vars
    PROVE  EveryoneScopeFromSystemAdmin'
<1>1. ReviewsKept
  BY ReviewsStay
<1>2. CASE \A e \in Extensions : AllEmployees \in scopes'[e] => AllEmployees \in scopes[e]
  BY <1>1, <1>2, EveryoneQuiet DEF EveryoneScopeFromSystemAdmin, JudgedRevision
<1>3. CASE UNCHANGED extensionVars \/ Governance
  BY <1>2, <1>3, GovernanceOpensNothing DEF extensionVars
<1>4. ASSUME NEW reviewer \in Admins, NEW s \in Submissions, Decide(reviewer, s, "APPROVE"),
             MaterializePublication(CurrentRevision(s), submissions[s].submitter)
      PROVE  EveryoneScopeFromSystemAdmin'
  <2>1. PICK revision \in Revisions, e \in Extensions :
          revision = CurrentRevision(s) /\ e = revision.extension
    BY <1>4, Approving DEF Revisions
  <2>2. scopes' = [scopes EXCEPT ![e] = {revision.scope}]
    BY <1>4, <2>1 DEF MaterializePublication, InsertScope
  <2>3. PICK r \in Approvals' :
          /\ r.reviewer = reviewer
          /\ revisions'[r.submission][r.revision] = revision
    BY <1>4, <2>1, ApprovalRecorded
\* A department administrator cannot have reviewed a scope for everyone.
  <2>4. revision.scope = AllEmployees => reviewer \in SystemAdmins
    BY <1>4, <2>1 DEF Decide, CanReview, CanDepartmentReviewScope
  <2>5. ASSUME NEW f \in Extensions, AllEmployees \in scopes'[f]
        PROVE  \E q \in Approvals' :
                  /\ q.reviewer \in SystemAdmins
                  /\ revisions'[q.submission][q.revision].extension = f
                  /\ revisions'[q.submission][q.revision].scope = AllEmployees
    <3>1. CASE f = e
      <4>1. revision.scope = AllEmployees
        BY <2>2, <2>5, <3>1 DEF TypeInv, TypeOK, ExtensionTypeOK
      <4> QED
        BY <2>1, <2>3, <2>4, <3>1, <4>1
    <3>2. CASE f # e
      <4>1. AllEmployees \in scopes[f]
        BY <2>2, <2>5, <3>2 DEF TypeInv, TypeOK, ExtensionTypeOK
      <4> QED
        BY <1>1, <4>1, EveryoneQuiet
    <3> QED
      BY <3>1, <3>2
  <2> QED
    BY <2>5 DEF EveryoneScopeFromSystemAdmin, JudgedRevision
<1>5. ASSUME NEW reviewer \in Admins, NEW s \in Submissions, Decide(reviewer, s, "APPROVE"),
             Materialize(CurrentRevision(s), submissions[s].submitter)
      PROVE  EveryoneScopeFromSystemAdmin'
  BY <1>2, <1>4, <1>5 DEF Materialize, MaterializeArchive
<1> QED
  BY <1>3, <1>5, WhoChangesTheCatalogue

\* A scope that opens an extension to all employees was approved by a system
\* administrator: no review of a department and no interleaving of governance
\* calls, those whose DELETE missed rows included, brings it about.
THEOREM EveryoneFromSystemAdmin == Spec => []EveryoneScopeFromSystemAdmin
<1>1. Init => EveryoneScopeFromSystemAdmin
  BY DEF Init, ExtensionInit, EveryoneScopeFromSystemAdmin
<1>2. TypeInv /\ JudgeInv /\ EveryoneScopeFromSystemAdmin /\ [Next]_vars
          => EveryoneScopeFromSystemAdmin'
  BY EveryoneStep
<1>3. TypeInv /\ TypeInv' /\ JudgeInv /\ [Next]_vars => JudgeInv'
  BY JudgeStep
<1> QED
  BY <1>1, <1>2, <1>3, JudgeInit, TypeInvariance, PTL DEF Spec

-----------------------------------------------------------------------------
(* Whoever was told of the revision under review may decide on it.         *)

Tasks == {m \in outbox : m.type = "REVIEW_TASK_ASSIGNED"}

\* A revise is opened by the submitter.
OwnRevise ==
    \A t \in Transactions :
        transactions[t] # Idle /\ transactions[t].operation = "revise" =>
            transactions[t].user = submissions[transactions[t].submission].submitter

\* The owner of the review follows from the scope under review.
OwnerIsOfScope ==
    \A s \in Submissions : Created(s) =>
        submissions[s].ownerDepartment =
            ReviewOwnerOf(submissions[s].submitter, CurrentRevision(s).scope)

\* Only revisions that exist were announced, the current one to its owners.
TasksAreTold ==
    \A m \in Tasks :
        /\ Created(m.submission)
        /\ m.revision <= Len(revisions[m.submission])
        /\ m.revision = submissions[m.submission].current =>
              m.to = ReviewerIds(submissions[m.submission].ownerDepartment)

TaskInv == OwnRevise /\ OwnerIsOfScope /\ TasksAreTold

\* Some position of a path that has a property is the first that has it.
LEMMA LeastExists ==
    ASSUME NEW n \in Nat, NEW S \in SUBSET (1..n), S # {}
    PROVE  \E least \in S : \A j \in S : least <= j
<1> DEFINE Flipped == {k \in 0..n : n - k \in S}
<1>1. Flipped \in SUBSET Int /\ IsFiniteSet(Flipped)
  <2>1. Flipped \in SUBSET (0..n)
    OBVIOUS
  <2>2. IsFiniteSet(0..n)
    BY FS_Interval
  <2> QED
    BY <2>1, <2>2, FS_Subset
<1>2. Flipped # {}
  <2>1. PICK j \in S : TRUE
    OBVIOUS
  <2>2. n - j \in Flipped
    OBVIOUS
  <2> QED
    BY <2>2
<1>3. PICK k \in Flipped : \A i \in Flipped : k >= i
  <2> HIDE DEF Flipped
  <2> QED
    BY <1>1, <1>2, MaxExists DEF HasMax
<1>4. n - k \in S
  OBVIOUS
<1>5. ASSUME NEW j \in S PROVE n - k <= j
  <2>1. n - j \in Flipped
    OBVIOUS
  <2> QED
    BY <1>3, <2>1
<1> QED
  BY <1>4, <1>5

\* The administrators above the department that owns a review may decide on it.
LEMMA OwnersMayReview ==
    ASSUME NEW submitter \in Users, NEW scope \in Scopes,
           NEW u \in ReviewerIds(ReviewOwnerOf(submitter, scope)), u # submitter
    PROVE  CanReview(u, submitter, ReviewOwnerOf(submitter, scope), scope)
<1>1. PICK d \in Departments : d = DepartmentOf[submitter]
  BY OrganizationAssumption
<1>2. CASE u \in SystemAdmins
  BY <1>2 DEF CanReview
<1>3. CASE u \notin SystemAdmins
  <2>1. ReviewOwnerOf(submitter, scope) = d /\ CanDepartmentReviewScope(d, scope)
    BY <1>1, <1>3 DEF ReviewOwnerOf, ReviewOwnerDepartment, ReviewerIds
  <2>2. d # NoDepartment
    BY OrganizationAssumption
  <2>3. PICK i \in DOMAIN PathToRoot[d] : u \in AdminsOf(PathToRoot[d][i])
    <3>1. DEFINE staffed == {i \in DOMAIN PathToRoot[d] : AdminsOf(PathToRoot[d][i]) # {}}
    <3>2. /\ staffed # {}
          /\ u \in AdminsOf(PathToRoot[d][CHOOSE i \in staffed : \A j \in staffed : i <= j])
      BY <1>3, <2>1, <2>2 DEF ReviewerIds
    <3>3. PathToRoot[d] \in Seq(Departments)
      BY OrganizationAssumption
    <3>4. Len(PathToRoot[d]) \in Nat /\ DOMAIN PathToRoot[d] = 1..Len(PathToRoot[d])
      BY <3>3
    <3>5. PICK least \in staffed : \A j \in staffed : least <= j
      BY <3>2, <3>4, LeastExists
    <3>6. (CHOOSE i \in staffed : \A j \in staffed : i <= j) \in staffed
      BY <3>5
    <3> QED
      BY <3>2, <3>6
  <2>4. PICK a \in Departments : a = PathToRoot[d][i]
    BY TreeAssumption
  <2>5. u \in DepartmentAdmins /\ DepartmentOf[u] = a
    BY <2>3, <2>4 DEF AdminsOf
  <2>6. IsSelfOrDescendant(a, d)
    BY <2>4 DEF IsSelfOrDescendant
  <2>7. ASSUME NEW c \in scope.departments PROVE IsSelfOrDescendant(a, c)
    <3>1. PICK j \in DOMAIN PathToRoot[c] : PathToRoot[c][j] = d
      BY <2>1 DEF CanDepartmentReviewScope, IsSelfOrDescendant
    <3>2. c \in Departments
      BY DEF Scopes, DepartmentScopes, AllEmployees
    <3> QED
      BY <2>4, <3>1, <3>2, TreeAssumption DEF IsSelfOrDescendant
  <2> QED
    BY <2>1, <2>2, <2>5, <2>6, <2>7 DEF CanReview, CanDepartmentReviewScope
<1> QED
  BY <1>2, <1>3

LEMMA ToldFollows == ASSUME TypeInv, TaskInv PROVE ToldMayDecide
<1> SUFFICES ASSUME NEW m \in Tasks, m.revision = submissions[m.submission].current,
                    NEW u \in m.to \ {submissions[m.submission].submitter}
             PROVE  CanReview(u, submissions[m.submission].submitter,
                              submissions[m.submission].ownerDepartment,
                              CurrentRevision(m.submission).scope)
  BY DEF ToldMayDecide, Tasks
<1>1. PICK s \in Submissions : s = m.submission
  BY DEF Tasks, TypeInv, TypeOK, OutboxEvents
<1>2. Created(s) /\ m.to = ReviewerIds(submissions[s].ownerDepartment)
  BY <1>1 DEF TaskInv, TasksAreTold
<1>3. submissions[s] \in SubmissionRows
  BY <1>2 DEF TypeInv, TypeOK, Created
<1>4. CurrentRevision(s) \in Revisions
  <2>1. submissions[s].current \in Nat /\ submissions[s].current >= 1
    BY <1>3, SubmissionAssumption DEF SubmissionRows
  <2>2. submissions[s].current <= Len(revisions[s]) /\ revisions[s] \in Seq(Revisions)
    BY <1>2 DEF TypeInv, TypeOK, CurrentExists
  <2> QED
    BY <2>1, <2>2 DEF CurrentRevision
<1>5. submissions[s].submitter \in Users /\ CurrentRevision(s).scope \in Scopes
  BY <1>3, <1>4 DEF SubmissionRows, Revisions
<1>6. submissions[s].ownerDepartment =
          ReviewOwnerOf(submissions[s].submitter, CurrentRevision(s).scope)
  BY <1>2 DEF TaskInv, OwnerIsOfScope
<1> QED
  BY <1>1, <1>2, <1>5, <1>6, OwnersMayReview

\* A step that announces nothing and leaves what is under review alone.
LEMMA TaskQuiet ==
    ASSUME TypeInv, TaskInv, UNCHANGED revisions, Tasks' = Tasks,
           \A s \in Submissions : submissions'[s] # submissions[s] =>
               /\ Created(s) /\ submissions'[s] # NotCreated
               /\ submissions'[s].current = submissions[s].current
               /\ submissions'[s].submitter = submissions[s].submitter
               /\ submissions'[s].ownerDepartment = submissions[s].ownerDepartment
    PROVE  OwnerIsOfScope' /\ TasksAreTold'
<1>1. \A m \in Tasks : m.submission \in Submissions
  BY DEF Tasks, TypeInv, TypeOK, OutboxEvents
<1>2. OwnerIsOfScope'
  BY DEF TaskInv, OwnerIsOfScope, Created, CurrentRevision
<1>3. TasksAreTold'
  BY <1>1 DEF TaskInv, TasksAreTold, Created
<1> QED
  BY <1>2, <1>3

\* Nobody's submission passes to somebody else, and an open revise is one that
\* was opened by the submitter.
LEMMA OwnReviseStays ==
    ASSUME TypeInv, TaskInv,
           \A s \in Submissions : Created(s) =>
               submissions'[s].submitter = submissions[s].submitter,
           NEW t \in Transactions,
           \A u \in Transactions \ {t} : transactions'[u] = transactions[u],
           transactions'[t] # Idle /\ transactions'[t].operation = "revise" =>
               \/ /\ transactions[t] # Idle /\ transactions[t].operation = "revise"
                  /\ transactions'[t].submission = transactions[t].submission
                  /\ transactions'[t].user = transactions[t].user
               \/ /\ transactions'[t].submission \in Submissions
                  /\ Created(transactions'[t].submission)
                  /\ transactions'[t].user = submissions[transactions'[t].submission].submitter
    PROVE  OwnRevise'
<1>1. \A u \in Transactions : transactions[u] # Idle /\ transactions[u].operation = "revise" =>
          /\ transactions[u].submission \in Submissions
          /\ Created(transactions[u].submission)
          /\ transactions[u].user = submissions[transactions[u].submission].submitter
  BY DEF TypeInv, TypeOK, OpenTransactions, OpenIsCreated, TaskInv, OwnRevise
<1> QED
  BY <1>1 DEF OwnRevise

LEMMA TaskAdded ==
    ASSUME NEW s, NEW n, NEW department, outbox' = outbox \cup {TaskAssigned(s, n, department)}
    PROVE  /\ Tasks' = Tasks \cup {TaskAssigned(s, n, department)}
           /\ TaskAssigned(s, n, department).submission = s
           /\ TaskAssigned(s, n, department).revision = n
           /\ TaskAssigned(s, n, department).to = ReviewerIds(department)
BY DEF Tasks, TaskAssigned

LEMMA CreateTells ==
    ASSUME TypeInv, TypeInv', TaskInv, NEW t \in Transactions, NEW s \in Submissions,
           CommitCreate(t, s)
    PROVE  TaskInv'
<1> DEFINE tx    == transactions[t]
           owner == ReviewOwnerOf(tx.user, tx.revision.scope)
<1>1. /\ ~Created(s) /\ submissions'[s] # NotCreated
      /\ submissions'[s].submitter = tx.user
      /\ submissions'[s].ownerDepartment = owner
      /\ submissions'[s].current = 1
      /\ revisions'[s] = <<tx.revision>>
      /\ \A z \in Submissions \ {s} :
            submissions'[z] = submissions[z] /\ revisions'[z] = revisions[z]
      /\ outbox' = outbox \cup {TaskAssigned(s, 1, owner)}
  <2>1. submissions' = [submissions EXCEPT ![s] =
            [status |-> "PENDING_REVIEW", target |-> tx.revision.extension,
             submitter |-> tx.user, ownerDepartment |-> owner,
             current |-> 1, effective |-> 0]]
    BY DEF CommitCreate
  <2>2. submissions'[s].status # "NOT_CREATED"
    BY <2>1 DEF TypeInv, TypeOK
  <2> QED
    BY <2>1, <2>2 DEF CommitCreate, TypeInv, TypeOK, NotCreated
<1>2. OwnRevise'
  <2>1. /\ transactions'[t] = Idle
        /\ \A u \in Transactions \ {t} : transactions'[u] = transactions[u]
    BY DEF CommitCreate, Close, TypeInv, TypeOK
  <2>2. \A z \in Submissions : Created(z) => submissions'[z].submitter = submissions[z].submitter
    BY <1>1
  <2> QED
    BY <2>1, <2>2, OwnReviseStays
<1>3. OwnerIsOfScope'
  <2>1. revisions'[s][1] = tx.revision
    BY <1>1
  <2> QED
    BY <1>1, <2>1 DEF TaskInv, OwnerIsOfScope, CurrentRevision, Created
<1>4. TasksAreTold'
  <2>1. \A m \in Tasks : m.submission \in Submissions \ {s}
    BY <1>1 DEF TaskInv, TasksAreTold, Tasks, TypeInv, TypeOK, OutboxEvents
  <2>2. Len(revisions'[s]) = 1
    BY <1>1
  <2> HIDE DEF owner
  <2>3. PICK told : /\ told.submission = s /\ told.revision = 1
                    /\ told.to = ReviewerIds(owner) /\ Tasks' = Tasks \cup {told}
    BY <1>1, TaskAdded
  <2>4. ASSUME NEW m \in Tasks
        PROVE  /\ submissions'[m.submission] # NotCreated
               /\ m.revision <= Len(revisions'[m.submission])
               /\ m.revision = submissions'[m.submission].current =>
                     m.to = ReviewerIds(submissions'[m.submission].ownerDepartment)
    BY <1>1, <2>1 DEF TaskInv, TasksAreTold, Created
  <2>5. 1 <= Len(revisions'[s])
    BY <2>2
  <2> QED
    BY <1>1, <2>3, <2>4, <2>5 DEF TasksAreTold, Created
<1> QED
  BY <1>2, <1>3, <1>4 DEF TaskInv

LEMMA ReviseTells ==
    ASSUME TypeInv, TypeInv', TaskInv, NEW t \in Transactions, CommitRevise(t)
    PROVE  TaskInv'
<1>0. PICK s \in Submissions : s = transactions[t].submission
  BY TransactionType DEF CommitRevise
<1>9. PICK owner : owner = ReviewOwnerOf(transactions[t].user, transactions[t].revision.scope)
  OBVIOUS
<1>1. PICK n \in Nat : n = transactions[t].number /\ n = Len(revisions[s]) + 1
  <2>1. Len(revisions[s]) \in Nat
    BY DEF TypeInv, TypeOK
  <2> QED
    BY <1>0, <2>1, SubmissionAssumption DEF CommitRevise, NextRevision
<1>2. submissions[s] \in SubmissionRows /\ Created(s) /\ transactions[t].revision \in Revisions
  BY <1>0, TransactionType DEF CommitRevise, TypeInv, TypeOK, Created
<1>3. /\ submissions'[s].submitter = submissions[s].submitter
      /\ submissions'[s].ownerDepartment = owner
      /\ submissions'[s].current = n
      /\ submissions'[s].status = "PENDING_REVIEW"
      /\ revisions'[s] = Append(revisions[s], transactions[t].revision)
      /\ \A z \in Submissions \ {s} :
            submissions'[z] = submissions[z] /\ revisions'[z] = revisions[z]
      /\ outbox' = outbox \cup {TaskAssigned(s, n, owner)}
  BY <1>0, <1>1, <1>2, <1>9 DEF CommitRevise, TypeInv, TypeOK, SubmissionRows
<1>4. submissions'[s] # NotCreated
  BY <1>3 DEF NotCreated
<1>5. /\ Len(revisions[s]) \in Nat /\ Len(revisions'[s]) = n
      /\ revisions'[s][n] = transactions[t].revision
  BY <1>1, <1>2, <1>3 DEF TypeInv, TypeOK
<1>6. OwnRevise'
  <2>1. /\ transactions'[t] = Idle
        /\ \A u \in Transactions \ {t} : transactions'[u] = transactions[u]
    BY DEF CommitRevise, Close, TypeInv, TypeOK
  <2>2. \A z \in Submissions : Created(z) => submissions'[z].submitter = submissions[z].submitter
    BY <1>3
  <2> QED
    BY <2>1, <2>2, OwnReviseStays
<1>7. OwnerIsOfScope'
  <2>1. transactions[t].user = submissions[s].submitter
    BY <1>0 DEF CommitRevise, TaskInv, OwnRevise, Idle
  <2> QED
    BY <1>3, <1>5, <1>9, <2>1 DEF TaskInv, OwnerIsOfScope, CurrentRevision, Created
<1>8. TasksAreTold'
  <2>1. PICK told : /\ told.submission = s /\ told.revision = n
                    /\ told.to = ReviewerIds(owner) /\ Tasks' = Tasks \cup {told}
    BY <1>3, TaskAdded
  <2>2. ASSUME NEW m \in Tasks
        PROVE  /\ submissions'[m.submission] # NotCreated
               /\ m.revision <= Len(revisions'[m.submission])
               /\ m.revision = submissions'[m.submission].current =>
                     m.to = ReviewerIds(submissions'[m.submission].ownerDepartment)
    <3>1. m.submission \in Submissions /\ m.revision \in Nat
      BY SubmissionAssumption DEF Tasks, TypeInv, TypeOK, OutboxEvents
    <3>2. m.submission = s => m.revision < n
      BY <1>1, <1>5, <3>1 DEF TaskInv, TasksAreTold
    <3>3. CASE m.submission = s
      BY <1>3, <1>4, <1>5, <3>1, <3>2, <3>3
    <3>4. CASE m.submission # s
      BY <1>3, <3>1, <3>4 DEF TaskInv, TasksAreTold, Created
    <3> QED
      BY <3>3, <3>4
  <2> QED
    BY <1>3, <1>4, <1>5, <2>1, <2>2 DEF TasksAreTold, Created
<1> QED
  BY <1>6, <1>7, <1>8 DEF TaskInv

LEMMA WithdrawTells ==
    ASSUME TypeInv, TaskInv, NEW t \in Transactions, CommitWithdraw(t)
    PROVE  TaskInv'
<1>1. PICK s : s = transactions[t].submission
  OBVIOUS
<1>2. s \in Submissions
  BY <1>1 DEF CommitWithdraw, TypeInv, TypeOK, OpenTransactions, Idle
<1>3. submissions[s] \in SubmissionRows /\ Created(s)
  BY <1>1, <1>2 DEF CommitWithdraw, TypeInv, TypeOK, OpenIsCreated, Created, Idle
<1>4. /\ submissions'[s].status = "WITHDRAWN"
      /\ submissions'[s].submitter = submissions[s].submitter
      /\ submissions'[s].current = submissions[s].current
      /\ submissions'[s].ownerDepartment = submissions[s].ownerDepartment
      /\ \A z \in Submissions \ {s} : submissions'[z] = submissions[z]
  BY <1>1, <1>2, <1>3 DEF CommitWithdraw, TypeInv, TypeOK, SubmissionRows
<1>5. submissions'[s] # NotCreated
  BY <1>4 DEF NotCreated
<1>6. /\ UNCHANGED <<revisions, outbox>>
      /\ transactions'[t] = Idle
      /\ \A u \in Transactions \ {t} : transactions'[u] = transactions[u]
  BY DEF CommitWithdraw, Close, TypeInv, TypeOK
<1>7. OwnRevise'
  BY <1>4, <1>6, OwnReviseStays
<1>8. OwnerIsOfScope' /\ TasksAreTold'
  BY <1>3, <1>4, <1>5, <1>6, TaskQuiet DEF Tasks
<1> QED
  BY <1>7, <1>8 DEF TaskInv

LEMMA DecideTells ==
    ASSUME TypeInv, TaskInv, NEW reviewer \in Admins, NEW s \in Submissions,
           NEW decision \in Decisions, Decide(reviewer, s, decision)
    PROVE  TaskInv'
<1>1. submissions[s] \in SubmissionRows /\ Created(s)
  BY DEF Decide, Created, TypeInv, TypeOK
<1>2. /\ submissions'[s].status = StatusAfter(decision)
      /\ submissions'[s].submitter = submissions[s].submitter
      /\ submissions'[s].current = submissions[s].current
      /\ submissions'[s].ownerDepartment = submissions[s].ownerDepartment
      /\ \A z \in Submissions \ {s} : submissions'[z] = submissions[z]
  BY <1>1 DEF Decide, TypeInv, TypeOK, SubmissionRows
<1>3. submissions'[s] # NotCreated
  BY <1>2 DEF NotCreated, StatusAfter, Decisions
<1>4. UNCHANGED <<revisions, transactions>>
  BY DEF Decide
<1>5. Tasks' = Tasks
  BY DEF Decide, Tasks
<1>6. OwnRevise'
  <2>1. \A t \in Transactions :
            transactions[t] # Idle /\ transactions[t].operation = "revise" =>
                /\ transactions[t].submission \in Submissions
                /\ transactions[t].user = submissions[transactions[t].submission].submitter
    BY DEF TypeInv, TypeOK, OpenTransactions, TaskInv, OwnRevise
  <2> QED
    BY <1>2, <1>4, <2>1 DEF OwnRevise
<1>7. OwnerIsOfScope' /\ TasksAreTold'
  BY <1>1, <1>2, <1>3, <1>4, <1>5, TaskQuiet
<1> QED
  BY <1>6, <1>7 DEF TaskInv

\* A step that changes no row of a submission, its revisions or its events.
LEMMA OpenTells ==
    ASSUME TypeInv, TaskInv, UNCHANGED <<submissions, revisions, outbox>>,
           NEW t \in Transactions,
           \A u \in Transactions \ {t} : transactions'[u] = transactions[u],
           transactions'[t] # Idle /\ transactions'[t].operation = "revise" =>
               \/ /\ transactions[t] # Idle /\ transactions[t].operation = "revise"
                  /\ transactions'[t].submission = transactions[t].submission
                  /\ transactions'[t].user = transactions[t].user
               \/ /\ transactions'[t].submission \in Submissions
                  /\ Created(transactions'[t].submission)
                  /\ transactions'[t].user = submissions[transactions'[t].submission].submitter
    PROVE  TaskInv'
<1>1. OwnRevise'
  BY OwnReviseStays
<1>2. OwnerIsOfScope' /\ TasksAreTold'
  BY TaskQuiet DEF Tasks
<1> QED
  BY <1>1, <1>2 DEF TaskInv

LEMMA TaskStep == ASSUME TypeInv, TypeInv', TaskInv, [Next]_vars PROVE TaskInv'
<1>1. CASE UNCHANGED <<submissions, revisions, outbox, transactions>>
  <2>1. OwnerIsOfScope' /\ TasksAreTold'
    BY <1>1, TaskQuiet DEF Tasks
  <2>2. OwnRevise'
    BY <1>1 DEF TaskInv, OwnRevise
  <2> QED
    BY <2>1, <2>2 DEF TaskInv
<1>2. ASSUME NEW t \in Transactions, NEW user \in Users, NEW request \in Requests,
             NEW p \in Packages, BeginCreate(t, user, request, p)
      PROVE  TaskInv'
  <2>1. /\ transactions'[t].operation = "create"
        /\ \A u \in Transactions \ {t} : transactions'[u] = transactions[u]
    BY <1>2 DEF BeginCreate, Open, TypeInv, TypeOK
  <2> QED
    BY <1>2, <2>1, OpenTells DEF BeginCreate
<1>3. ASSUME NEW t \in Transactions, NEW s \in Submissions, NEW request \in Requests,
             NEW p \in Packages, BeginRevise(t, s, request, p)
      PROVE  TaskInv'
  <2>1. /\ transactions'[t].submission = s
        /\ transactions'[t].user = submissions[s].submitter
        /\ \A u \in Transactions \ {t} : transactions'[u] = transactions[u]
    BY <1>3 DEF BeginRevise, Open, TypeInv, TypeOK
  <2> QED
    BY <1>3, <2>1, OpenTells DEF BeginRevise
<1>4. ASSUME NEW t \in Transactions, NEW s \in Submissions, BeginWithdraw(t, s)
      PROVE  TaskInv'
  <2>1. /\ transactions'[t].operation = "withdraw"
        /\ \A u \in Transactions \ {t} : transactions'[u] = transactions[u]
    BY <1>4 DEF BeginWithdraw, Open, TypeInv, TypeOK
  <2> QED
    BY <1>4, <2>1, OpenTells DEF BeginWithdraw
<1>5. ASSUME NEW t \in Transactions, Consume(t) PROVE TaskInv'
  <2>1. PICK tx \in OpenTransactions : tx = transactions[t]
    BY <1>5 DEF Consume, TypeInv, TypeOK, Idle
  <2>2. tx # Idle
    BY <1>5, <2>1 DEF Consume, Idle
  <2>3. /\ transactions'[t].submission = tx.submission
        /\ transactions'[t].operation = tx.operation
        /\ transactions'[t].user = tx.user
        /\ \A u \in Transactions \ {t} : transactions'[u] = transactions[u]
    BY <1>5, <2>1 DEF Consume, TypeInv, TypeOK, OpenTransactions
  <2> QED
    BY <1>5, <2>1, <2>2, <2>3, OpenTells DEF Consume
<1>6. ASSUME NEW t \in Transactions, Rollback(t) PROVE TaskInv'
  <2>1. /\ transactions'[t] = Idle
        /\ \A u \in Transactions \ {t} : transactions'[u] = transactions[u]
    BY <1>6 DEF Rollback, Close, TypeInv, TypeOK
  <2> QED
    BY <1>6, <2>1, OpenTells DEF Rollback
<1>7. CASE CreateNext
  BY <1>2, <1>7, CreateTells DEF CreateNext
<1>8. CASE ReviseNext
  BY <1>3, <1>8, ReviseTells DEF ReviseNext
<1>9. CASE WithdrawNext
  BY <1>4, <1>9, WithdrawTells DEF WithdrawNext
<1>10. \/ UNCHANGED <<submissions, revisions, outbox, transactions>>
       \/ CreateNext \/ ReviseNext \/ WithdrawNext
       \/ \E t \in Transactions : Consume(t) \/ Rollback(t)
       \/ \E reviewer \in Admins, s \in Submissions, decision \in Decisions :
             Decide(reviewer, s, decision)
  BY DEF Next, vars, submissionVars, Upload
<1> QED
  BY <1>1, <1>5, <1>6, <1>7, <1>8, <1>9, <1>10, DecideTells

\* In every organisation whose departments are a tree, whoever was told of the
\* revision under review may decide on it, unless it is their own, in every
\* interleaving of revises that ask for another scope, withdrawals and decisions.
THEOREM WhoIsToldMayDecide == Spec => []ToldMayDecide
<1>1. Init => TaskInv
  BY DEF Init, TaskInv, OwnRevise, OwnerIsOfScope, TasksAreTold, Tasks, Created
<1>2. TypeInv /\ TypeInv' /\ TaskInv /\ [Next]_vars => TaskInv'
  BY TaskStep
<1>3. TypeInv /\ TaskInv => ToldMayDecide
  BY ToldFollows
<1> QED
  BY <1>1, <1>2, <1>3, TypeInvariance, PTL DEF Spec

-----------------------------------------------------------------------------
(* The service implements PackageProvenance.                               *)

stages == [p \in Packages |-> Stage(p)]
owners == [p \in Packages |-> Proposer(p)]
judges == [p \in Packages |-> Judged(p)]
servedNow == {p \in Packages : attached[p] # NotAttached}

\* The mapping read through the one proposal and the one verdict a package has.
MappingFacts ==
    \A p \in Packages :
        /\ (\A x \in RevisionNumbers : PackageOf(x) # p) =>
              stages[p] = "fresh" /\ owners[p] = NoSubmission /\ judges[p] = NoSubmission
        /\ \A x \in RevisionNumbers : PackageOf(x) = p =>
              /\ owners[p] = submissions[x[1]].submitter
              /\ (\A r \in reviews : <<r.submission, r.revision>> # x) =>
                    stages[p] = "proposed" /\ judges[p] = NoSubmission
        /\ \A r \in reviews : revisions[r.submission][r.revision].package = p =>
              /\ judges[p] = r.reviewer
              /\ stages[p] = IF r.decision = "APPROVE" THEN "approved" ELSE "refused"

LEMMA ReviewNumber ==
    ASSUME TypeInv, JudgeInv, NEW r \in reviews
    PROVE  /\ <<r.submission, r.revision>> \in RevisionNumbers
           /\ PackageOf(<<r.submission, r.revision>>) =
                 revisions[r.submission][r.revision].package
BY DEF TypeInv, TypeOK, Reviews, JudgeInv, ReviewedExists, RevisionNumbers, PackageOf

LEMMA OneProposal ==
    ASSUME ConsumeInv, NEW x \in RevisionNumbers, NEW y \in RevisionNumbers,
           PackageOf(x) = PackageOf(y)
    PROVE  x = y
BY DEF ConsumeInv, ConsumedExactlyOnce

LEMMA MappingHolds ==
    ASSUME TypeInv, JudgeInv, ConsumeInv
    PROVE  MappingFacts
<1> SUFFICES ASSUME NEW p \in Packages
             PROVE  /\ (\A x \in RevisionNumbers : PackageOf(x) # p) =>
                          /\ Stage(p) = "fresh"
                          /\ Proposer(p) = NoSubmission
                          /\ Judged(p) = NoSubmission
                    /\ \A x \in RevisionNumbers : PackageOf(x) = p =>
                          /\ Proposer(p) = submissions[x[1]].submitter
                          /\ (\A r \in reviews : <<r.submission, r.revision>> # x) =>
                                Stage(p) = "proposed" /\ Judged(p) = NoSubmission
                    /\ \A r \in reviews : revisions[r.submission][r.revision].package = p =>
                          /\ Judged(p) = r.reviewer
                          /\ Stage(p) = IF r.decision = "APPROVE" THEN "approved" ELSE "refused"
  BY DEF MappingFacts, stages, owners, judges
<1>1. ASSUME \A x \in RevisionNumbers : PackageOf(x) # p
      PROVE  Stage(p) = "fresh" /\ Proposer(p) = NoSubmission /\ Judged(p) = NoSubmission
  <2>1. Proposals(p) = {}
    BY <1>1 DEF Proposals
  <2>2. Verdicts(p) = {}
    BY <1>1, ReviewNumber DEF Verdicts, JudgedRevision
  <2> QED
    BY <2>1, <2>2 DEF Stage, Proposer, Judged
<1>2. ASSUME NEW x \in RevisionNumbers, PackageOf(x) = p
      PROVE  /\ Proposer(p) = submissions[x[1]].submitter
             /\ (\A r \in reviews : <<r.submission, r.revision>> # x) =>
                   Stage(p) = "proposed" /\ Judged(p) = NoSubmission
  <2>1. Proposals(p) = {x}
    BY <1>2 DEF Proposals, ConsumeInv, ConsumedExactlyOnce
  <2>2. Proposer(p) = submissions[x[1]].submitter
    BY <2>1 DEF Proposer
  <2>3. ASSUME \A r \in reviews : <<r.submission, r.revision>> # x
        PROVE  Verdicts(p) = {}
    <3> SUFFICES ASSUME NEW r \in reviews, JudgedRevision(r).package = p
                 PROVE  FALSE
      BY DEF Verdicts
    <3>1. /\ <<r.submission, r.revision>> \in RevisionNumbers
          /\ PackageOf(<<r.submission, r.revision>>) = p
      BY ReviewNumber DEF JudgedRevision
    <3> QED
      BY <1>2, <2>3, <3>1, OneProposal
  <2> QED
    BY <2>1, <2>2, <2>3 DEF Stage, Judged
<1>3. ASSUME NEW r \in reviews, revisions[r.submission][r.revision].package = p
      PROVE  /\ Judged(p) = r.reviewer
             /\ Stage(p) = IF r.decision = "APPROVE" THEN "approved" ELSE "refused"
  <2>1. <<r.submission, r.revision>> \in Proposals(p)
    BY <1>3, ReviewNumber DEF Proposals
  <2>2. ASSUME NEW q \in reviews, JudgedRevision(q).package = p
        PROVE  q = r
    <3>0. /\ <<q.submission, q.revision>> \in RevisionNumbers
          /\ <<r.submission, r.revision>> \in RevisionNumbers
          /\ PackageOf(<<q.submission, q.revision>>) = p
          /\ PackageOf(<<r.submission, r.revision>>) = p
      BY <1>3, <2>2, ReviewNumber DEF JudgedRevision
    <3>1. <<q.submission, q.revision>> = <<r.submission, r.revision>>
      BY <3>0, OneProposal
    <3>2. q.submission = r.submission /\ q.revision = r.revision
      BY <3>1
    <3> QED
      BY <3>2 DEF JudgeInv, JudgedAtMostOnce
  <2>3. Verdicts(p) = {r}
    BY <1>3, <2>2 DEF Verdicts, JudgedRevision
  <2>4. Judged(p) = r.reviewer
    BY <2>3 DEF Judged
  <2>5. Stage(p) = IF r.decision = "APPROVE" THEN "approved" ELSE "refused"
    BY <2>1, <2>3 DEF Stage
  <2> QED
    BY <2>4, <2>5
<1> QED
  BY <1>1, <1>2, <1>3

\* A step keeps the revisions, the packages they took and whose they are.
RevisionsKept ==
    \A x \in RevisionNumbers :
        /\ x \in RevisionNumbers'
        /\ PackageOf(x)' = PackageOf(x)
        /\ submissions'[x[1]].submitter = submissions[x[1]].submitter

\* What a package shows is kept by a step that neither proposes nor judges it.
LEMMA OthersStay ==
    ASSUME TypeInv, JudgeInv, ConsumeInv, MappingFacts, MappingFacts',
           RevisionsKept, ReviewsKept, NEW p \in Packages,
           \A x \in RevisionNumbers' : PackageOf(x)' = p => x \in RevisionNumbers,
           \A r \in reviews' : revisions'[r.submission][r.revision].package = p => r \in reviews
    PROVE  stages'[p] = stages[p] /\ owners'[p] = owners[p] /\ judges'[p] = judges[p]
<1>1. CASE \A x \in RevisionNumbers : PackageOf(x) # p
  <2>1. \A x \in RevisionNumbers' : PackageOf(x)' # p
    BY <1>1 DEF RevisionsKept
  <2> QED
    BY <1>1, <2>1 DEF MappingFacts
<1>2. ASSUME NEW r \in reviews, revisions[r.submission][r.revision].package = p
      PROVE  /\ stages'[p] = stages[p]
             /\ judges'[p] = judges[p]
  <2>1. r \in reviews' /\ revisions'[r.submission][r.revision].package = p
    BY <1>2 DEF ReviewsKept, JudgedRevision
  <2> QED
    BY <1>2, <2>1 DEF MappingFacts
<1>3. ASSUME NEW x \in RevisionNumbers, PackageOf(x) = p
      PROVE  stages'[p] = stages[p] /\ owners'[p] = owners[p] /\ judges'[p] = judges[p]
  <2>1. x \in RevisionNumbers' /\ PackageOf(x)' = p
    BY <1>3 DEF RevisionsKept
  <2>2. owners'[p] = owners[p]
    BY <1>3, <2>1 DEF MappingFacts, RevisionsKept
  <2>3. CASE \E r \in reviews : <<r.submission, r.revision>> = x
    <3>1. PICK r \in reviews : <<r.submission, r.revision>> = x
      BY <2>3
    <3>2. revisions[r.submission][r.revision].package = p
      BY <1>3, <3>1, ReviewNumber
    <3> QED
      BY <1>2, <2>2, <3>1, <3>2
  <2>4. CASE \A r \in reviews : <<r.submission, r.revision>> # x
    <3>1. \A r \in reviews' : <<r.submission, r.revision>> # x
      <4> SUFFICES ASSUME NEW r \in reviews', <<r.submission, r.revision>> = x
                   PROVE  FALSE
        OBVIOUS
      <4>1. x[1] = r.submission /\ x[2] = r.revision
        OBVIOUS
      <4>2. revisions'[r.submission][r.revision].package = p
        BY <2>1, <4>1 DEF PackageOf
      <4> QED
        BY <2>4, <4>2
    <3> QED
      BY <1>3, <2>1, <2>2, <2>4, <3>1 DEF MappingFacts
  <2> QED
    BY <2>3, <2>4
<1> QED
  BY <1>1, <1>3

\* What the commits leave for a new revision x of s: it is the only addition,
\* and its package had no proposal before.
NewProposal(s, x, p) ==
    /\ x[1] = s
    /\ x \in RevisionNumbers' \ RevisionNumbers
    /\ RevisionNumbers' \subseteq RevisionNumbers \cup {x}
    /\ PackageOf(x)' = p
    /\ \A y \in RevisionNumbers : PackageOf(y) # p
    /\ submissions'[s].submitter \in Users
    /\ UNCHANGED <<reviews, attached>>

LEMMA ProposeStep ==
    ASSUME TypeInv, JudgeInv, JudgeInv', ConsumeInv, MappingFacts, MappingFacts',
           RevisionsKept, ReviewsKept,
           NEW s, NEW x, NEW p \in Packages, NewProposal(s, x, p)
    PROVE  Provenance!ProvenanceNext
<1>1. stages[p] = "fresh" /\ owners[p] = NoSubmission /\ judges[p] = NoSubmission
  BY DEF NewProposal, MappingFacts
<1>2. x \in RevisionNumbers' /\ PackageOf(x)' = p
  BY DEF NewProposal
<1>3. \A r \in reviews' : <<r.submission, r.revision>> # x
  BY ReviewNumber DEF NewProposal
<1>4. /\ stages'[p] = "proposed"
      /\ owners'[p] = submissions'[s].submitter
      /\ judges'[p] = NoSubmission
  BY <1>2, <1>3 DEF MappingFacts, NewProposal
<1>5. ASSUME NEW q \in Packages \ {p}
      PROVE  stages'[q] = stages[q] /\ owners'[q] = owners[q] /\ judges'[q] = judges[q]
  BY OthersStay DEF NewProposal
<1>6. /\ stages' = [stages EXCEPT ![p] = "proposed"]
      /\ owners' = [owners EXCEPT ![p] = submissions'[s].submitter]
      /\ judges' = judges
  <2>1. /\ DOMAIN stages = Packages /\ DOMAIN stages' = Packages
        /\ DOMAIN owners = Packages /\ DOMAIN owners' = Packages
        /\ DOMAIN judges = Packages /\ DOMAIN judges' = Packages
    BY DEF stages, owners, judges
  <2>2. /\ stages = [q \in Packages |-> stages[q]] /\ stages' = [q \in Packages |-> stages'[q]]
        /\ owners = [q \in Packages |-> owners[q]] /\ owners' = [q \in Packages |-> owners'[q]]
        /\ judges = [q \in Packages |-> judges[q]] /\ judges' = [q \in Packages |-> judges'[q]]
    BY DEF stages, owners, judges
  <2> QED
    BY <1>1, <1>4, <1>5, <2>1, <2>2
<1>7. servedNow' = servedNow
  BY DEF NewProposal, servedNow
<1>8. Provenance!Propose(p)
  BY <1>1, <1>6, <1>7
     DEF Provenance!Propose, stages, owners, judges, servedNow, NewProposal
<1> QED
  BY <1>8 DEF Provenance!ProvenanceNext
LEMMA VerdictStep ==
    ASSUME TypeInv, TypeInv', JudgeInv, JudgeInv', ConsumeInv, ConsumeInv',
           MappingFacts, MappingFacts', RevisionsKept, ReviewsKept,
           NEW reviewer \in Admins, NEW s \in Submissions, NEW decision \in Decisions,
           Decide(reviewer, s, decision)
    PROVE  Provenance!ProvenanceNext
<1> DEFINE x == <<s, submissions[s].current>>
           verdict == IF decision = "APPROVE" THEN "approved" ELSE "refused"
<1>1. submissions[s] \in SubmissionRows /\ Created(s) /\ submissions[s].status = "PENDING_REVIEW"
  BY DEF Decide, Created, TypeInv, TypeOK
<1>2. x \in RevisionNumbers
  BY <1>1 DEF SubmissionRows, TypeInv, CurrentExists, RevisionNumbers
<1>3. PICK p \in Packages : p = PackageOf(x)
  BY <1>2, PackageType
<1>4. \A r \in reviews : <<r.submission, r.revision>> # x
  BY <1>1 DEF JudgeInv, JudgedAtMostOnce
<1>5. /\ stages[p] = "proposed"
      /\ owners[p] = submissions[s].submitter
      /\ judges[p] = NoSubmission
  BY <1>2, <1>3, <1>4 DEF MappingFacts
<1>6. PICK review : review = [submission |-> s, revision |-> submissions[s].current,
                              reviewer |-> reviewer, decision |-> decision]
  OBVIOUS
<1>7. /\ reviews' = reviews \cup {review}
      /\ revisions' = revisions
      /\ reviewer # submissions[s].submitter
  BY <1>6 DEF Decide, CanReview
<1>8. revisions'[review.submission][review.revision].package = p
  BY <1>3, <1>6, <1>7 DEF PackageOf
<1>9. judges'[p] = reviewer /\ stages'[p] = verdict
  <2>1. review \in reviews'
    BY <1>7
  <2>2. judges'[p] = review.reviewer
        /\ stages'[p] = IF review.decision = "APPROVE" THEN "approved" ELSE "refused"
    BY <1>8, <2>1 DEF MappingFacts
  <2> QED
    BY <1>6, <2>2
<1>10. owners'[p] = owners[p]
  BY <1>2, <1>3, <1>5 DEF MappingFacts, RevisionsKept
<1> HIDE DEF x
<1>11. ASSUME NEW q \in Packages \ {p}
       PROVE  stages'[q] = stages[q] /\ owners'[q] = owners[q] /\ judges'[q] = judges[q]
  <2>1. \A y \in RevisionNumbers' : PackageOf(y)' = q => y \in RevisionNumbers
    BY <1>7 DEF RevisionNumbers
  <2>2. \A r \in reviews' : revisions'[r.submission][r.revision].package = q => r \in reviews
    BY <1>7, <1>8
  <2> QED
    BY <2>1, <2>2, OthersStay
<1>12. /\ stages' = [stages EXCEPT ![p] = verdict]
       /\ owners' = owners
       /\ judges' = [judges EXCEPT ![p] = reviewer]
  <2>1. /\ DOMAIN stages = Packages /\ DOMAIN stages' = Packages
        /\ DOMAIN owners = Packages /\ DOMAIN owners' = Packages
        /\ DOMAIN judges = Packages /\ DOMAIN judges' = Packages
    BY DEF stages, owners, judges
  <2>2. /\ stages = [q \in Packages |-> stages[q]] /\ stages' = [q \in Packages |-> stages'[q]]
        /\ owners = [q \in Packages |-> owners[q]] /\ owners' = [q \in Packages |-> owners'[q]]
        /\ judges = [q \in Packages |-> judges[q]] /\ judges' = [q \in Packages |-> judges'[q]]
    BY DEF stages, owners, judges
  <2> QED
    BY <1>9, <1>10, <1>11, <2>1, <2>2
<1>13. CASE decision = "APPROVE"
  <2>1. servedNow' \in {servedNow, servedNow \cup {p}}
    <3>1. CASE UNCHANGED attached
      BY <3>1 DEF servedNow
    <3>2. CASE MaterializePublication(CurrentRevision(s), submissions[s].submitter)
      <4>1. CurrentRevision(s).package = p
        BY <1>3 DEF PackageOf, CurrentRevision, x
      <4>2. /\ CurrentRevision(s) \in Revisions
            /\ CurrentRevision(s).version # 0
        <5>1. CurrentRevision(s) \in Revisions
          BY <1>13, Approving
        <5> QED
          BY <5>1, ExtensionAssumption DEF Revisions, Versions
      <4>3. attached' = [attached EXCEPT ![p] =
                [extension |-> CurrentRevision(s).extension,
                 version |-> CurrentRevision(s).version]]
        BY <3>2, <4>1 DEF MaterializePublication
      <4>4. attached'[p] # NotAttached /\ \A q \in Packages \ {p} : attached'[q] = attached[q]
        BY <4>2, <4>3 DEF NotAttached, TypeInv, TypeOK, ExtensionTypeOK
      <4> QED
        BY <4>4 DEF servedNow
    <3>3. UNCHANGED attached \/ MaterializePublication(CurrentRevision(s), submissions[s].submitter)
      BY <1>13 DEF Decide, Materialize, MaterializeArchive
    <3> QED
      BY <3>1, <3>2, <3>3
  <2>2. stages' = [stages EXCEPT ![p] = "approved"]
    BY <1>12, <1>13
  <2>3. reviewer \in Admins \ {owners[p]}
    BY <1>5, <1>7
  <2>4. Provenance!Judge(p, "approved")
    BY <1>5, <1>12, <2>2, <2>3 DEF Provenance!Judge, stages, owners, judges
  <2>5. Provenance!Approve(p)
    BY <2>1, <2>4 DEF Provenance!Approve, servedNow
  <2> QED
    BY <2>5 DEF Provenance!ProvenanceNext
<1>14. CASE decision # "APPROVE"
  <2>1. servedNow' = servedNow
    BY <1>14 DEF Decide, extensionVars, servedNow
  <2>2. stages' = [stages EXCEPT ![p] = "refused"]
    BY <1>12, <1>14
  <2>3. reviewer \in Admins \ {owners[p]}
    BY <1>5, <1>7
  <2>4. Provenance!Judge(p, "refused")
    BY <1>5, <1>12, <2>2, <2>3 DEF Provenance!Judge, stages, owners, judges
  <2>5. Provenance!Refuse(p)
    BY <2>1, <2>4 DEF Provenance!Refuse, servedNow
  <2> QED
    BY <2>5 DEF Provenance!ProvenanceNext
<1> QED
  BY <1>13, <1>14

\* The steps that propose and judge nothing stutter.
LEMMA ProvenanceStutters ==
    ASSUME TypeInv, JudgeInv, ConsumeInv, MappingFacts, MappingFacts',
           RevisionsKept, ReviewsKept, UNCHANGED <<revisions, reviews, attached>>
    PROVE  UNCHANGED Provenance!provenanceVars
<1>1. ASSUME NEW q \in Packages
      PROVE  stages'[q] = stages[q] /\ owners'[q] = owners[q] /\ judges'[q] = judges[q]
  <2>1. \A y \in RevisionNumbers' : PackageOf(y)' = q => y \in RevisionNumbers
    BY DEF RevisionNumbers
  <2> QED
    BY <2>1, OthersStay
<1>2. stages' = stages /\ owners' = owners /\ judges' = judges
  <2>1. /\ stages = [q \in Packages |-> stages[q]] /\ stages' = [q \in Packages |-> stages'[q]]
        /\ owners = [q \in Packages |-> owners[q]] /\ owners' = [q \in Packages |-> owners'[q]]
        /\ judges = [q \in Packages |-> judges[q]] /\ judges' = [q \in Packages |-> judges'[q]]
    BY DEF stages, owners, judges
  <2> QED
    BY <1>1, <2>1
<1>3. servedNow' = servedNow
  BY DEF servedNow
<1> QED
  BY <1>2, <1>3 DEF Provenance!provenanceVars, stages, owners, judges, servedNow

\* The two commits add one revision, of a package nobody had submitted.
LEMMA CreateProposes ==
    ASSUME TypeInv, ConsumeInv, NEW t \in Transactions, NEW s \in Submissions,
           CommitCreate(t, s)
    PROVE  /\ RevisionsKept
           /\ NewProposal(s, <<s, 1>>, transactions[t].revision.package)
           /\ transactions[t].revision.package \in Packages
<1>0. PICK p \in Packages : p = transactions[t].revision.package
  BY TransactionType DEF CommitCreate
<1>1. /\ Holds(t, p)
      /\ transactions[t].user \in Users
  BY <1>0, TransactionType DEF CommitCreate, Holds
<1>2. \A y \in RevisionNumbers : PackageOf(y) # p
  BY <1>1 DEF ConsumeInv, HeldAlone, ConsumedExactlyOnce
<1>3. ~Created(s) /\ revisions[s] = <<>>
  BY DEF CommitCreate, ConsumeInv, UnbornIsEmpty
<1>4. /\ revisions'[s] = <<transactions[t].revision>>
      /\ submissions'[s].submitter = transactions[t].user
      /\ \A z \in Submissions \ {s} :
            revisions'[z] = revisions[z] /\ submissions'[z] = submissions[z]
      /\ UNCHANGED <<reviews, attached>>
  BY DEF CommitCreate, TypeInv, TypeOK, extensionVars
<1>5. \A y \in RevisionNumbers : y[1] \in Submissions \ {s}
  BY <1>3 DEF RevisionNumbers
<1>6. RevisionsKept
  BY <1>4, <1>5 DEF RevisionsKept, RevisionNumbers, PackageOf
<1>7. Len(revisions'[s]) = 1 /\ 1 \in 1..MaxRevisions
  BY <1>4, SubmissionAssumption
<1>8. <<s, 1>> \in RevisionNumbers' \ RevisionNumbers
  BY <1>5, <1>7 DEF RevisionNumbers
<1>9. ASSUME NEW y \in RevisionNumbers'
      PROVE  y \in RevisionNumbers \cup {<<s, 1>>}
  <2>1. y \in Submissions \X (1..MaxRevisions) /\ y[2] <= Len(revisions'[y[1]])
    BY <1>9 DEF RevisionNumbers
  <2>2. CASE y[1] = s
    <3>1. y[2] = 1
      <4>1. y[2] \in 1..MaxRevisions /\ y[2] <= 1
        BY <1>7, <2>1, <2>2
      <4> QED
        BY <4>1, SubmissionAssumption
    <3> QED
      BY <2>1, <2>2, <3>1
  <2>3. CASE y[1] # s
    BY <1>4, <2>1, <2>3 DEF RevisionNumbers
  <2> QED
    BY <2>2, <2>3
<1>10. PackageOf(<<s, 1>>)' = p
  BY <1>0, <1>4 DEF PackageOf
<1>11. NewProposal(s, <<s, 1>>, p)
  BY <1>1, <1>2, <1>4, <1>8, <1>9, <1>10 DEF NewProposal
<1> QED
  BY <1>0, <1>6, <1>11

LEMMA ReviseProposes ==
    ASSUME TypeInv, ConsumeInv, NEW t \in Transactions, CommitRevise(t)
    PROVE  /\ RevisionsKept
           /\ \E s, x : \E p \in Packages : NewProposal(s, x, p)
<1>0. PICK s \in Submissions, n \in 0..(MaxRevisions + 1), p \in Packages :
        /\ s = transactions[t].submission
        /\ n = transactions[t].number
        /\ p = transactions[t].revision.package
  BY TransactionType DEF CommitRevise
<1>1. /\ Holds(t, p)
      /\ transactions[t].revision \in Revisions
      /\ submissions[s] \in SubmissionRows
  BY <1>0, TransactionType DEF CommitRevise, Holds, TypeInv, TypeOK, Created
<1>2. \A y \in RevisionNumbers : PackageOf(y) # p
  BY <1>1 DEF ConsumeInv, HeldAlone, ConsumedExactlyOnce
<1>3. /\ revisions'[s] = Append(revisions[s], transactions[t].revision)
      /\ submissions'[s].submitter = submissions[s].submitter
      /\ \A z \in Submissions \ {s} :
            revisions'[z] = revisions[z] /\ submissions'[z] = submissions[z]
      /\ UNCHANGED <<reviews, attached>>
  BY <1>0, <1>1 DEF CommitRevise, TypeInv, TypeOK, SubmissionRows, extensionVars
<1>4. /\ Len(revisions[s]) \in Nat
      /\ n = Len(revisions[s]) + 1
      /\ n \in 1..MaxRevisions
  <2>1. Len(revisions[s]) \in Nat
    BY DEF TypeInv, TypeOK
  <2>2. n = Len(revisions[s]) + 1 /\ n <= MaxRevisions
    BY <1>0, SubmissionAssumption DEF CommitRevise, NextRevision
  <2> QED
    BY <2>1, <2>2, SubmissionAssumption
<1>5. /\ Len(revisions'[s]) = n
      /\ revisions'[s][n] = transactions[t].revision
      /\ \A m \in 1..Len(revisions[s]) : revisions'[s][m] = revisions[s][m]
  BY <1>1, <1>3, <1>4 DEF TypeInv, TypeOK
<1>6. ASSUME NEW y \in RevisionNumbers
      PROVE  /\ y \in RevisionNumbers'
             /\ revisions'[y[1]][y[2]] = revisions[y[1]][y[2]]
             /\ submissions'[y[1]].submitter = submissions[y[1]].submitter
  <2>1. y \in Submissions \X (1..MaxRevisions) /\ y[2] <= Len(revisions[y[1]])
    BY <1>6 DEF RevisionNumbers
  <2>2. CASE y[1] = s
    <3>1. y[2] \in 1..Len(revisions[s]) /\ y[2] <= Len(revisions'[s])
      BY <1>4, <1>5, <2>1, <2>2, SubmissionAssumption
    <3> QED
      BY <1>3, <1>5, <2>1, <2>2, <3>1 DEF RevisionNumbers
  <2>3. CASE y[1] # s
    BY <1>3, <2>1, <2>3 DEF RevisionNumbers
  <2> QED
    BY <2>2, <2>3
<1>7. RevisionsKept
  BY <1>6 DEF RevisionsKept, PackageOf
<1>8. <<s, n>> \in RevisionNumbers' \ RevisionNumbers
  BY <1>4, <1>5 DEF RevisionNumbers
<1>9. ASSUME NEW y \in RevisionNumbers'
      PROVE  y \in RevisionNumbers \cup {<<s, n>>}
  <2>1. y \in Submissions \X (1..MaxRevisions) /\ y[2] <= Len(revisions'[y[1]])
    BY <1>9 DEF RevisionNumbers
  <2>2. CASE y[1] = s /\ y[2] # n
    <3>1. y[2] <= Len(revisions[s])
      BY <1>4, <1>5, <2>1, <2>2, SubmissionAssumption
    <3> QED
      BY <2>1, <2>2, <3>1 DEF RevisionNumbers
  <2>3. CASE y[1] # s
    BY <1>3, <2>1, <2>3 DEF RevisionNumbers
  <2>4. CASE y[1] = s /\ y[2] = n
    BY <2>1, <2>4
  <2> QED
    BY <2>2, <2>3, <2>4
<1>10. PackageOf(<<s, n>>)' = p
  BY <1>0, <1>5 DEF PackageOf
<1>11. submissions'[s].submitter \in Users
  BY <1>1, <1>3 DEF SubmissionRows
<1>12. NewProposal(s, <<s, n>>, p)
  BY <1>2, <1>3, <1>8, <1>9, <1>10, <1>11 DEF NewProposal
<1> QED
  BY <1>7, <1>12

LEMMA QuietKeepsRevisions ==
    ASSUME TypeInv, revisions' = revisions,
           \A s \in Submissions : submissions'[s].submitter = submissions[s].submitter
    PROVE  RevisionsKept
BY SameRevisions DEF RevisionsKept, RevisionNumbers

LEMMA ProvenanceStep ==
    ASSUME TypeInv, TypeInv', JudgeInv, JudgeInv', ConsumeInv, ConsumeInv',
           MappingFacts, MappingFacts', [Next]_vars
    PROVE  [Provenance!ProvenanceNext]_(Provenance!provenanceVars)
<1>0. ReviewsKept
  BY ReviewsStay
<1>1. CASE UNCHANGED <<submissions, revisions, reviews, attached>>
  BY <1>0, <1>1, QuietKeepsRevisions, ProvenanceStutters
<1>2. ASSUME NEW t \in Transactions, NEW s \in Submissions, CommitCreate(t, s)
      PROVE  Provenance!ProvenanceNext
  BY <1>0, <1>2, CreateProposes, ProposeStep
<1>3. ASSUME NEW t \in Transactions, CommitRevise(t)
      PROVE  Provenance!ProvenanceNext
  BY <1>0, <1>3, ReviseProposes, ProposeStep
<1>4. ASSUME NEW t \in Transactions, CommitWithdraw(t)
      PROVE  UNCHANGED Provenance!provenanceVars
  <2>1. PICK s : s = transactions[t].submission
    OBVIOUS
  <2>2. s \in Submissions
    BY <1>4, <2>1 DEF CommitWithdraw, TypeInv, TypeOK, OpenTransactions, Idle
  <2>3. submissions[s] \in SubmissionRows
    BY <1>4, <2>1, <2>2 DEF CommitWithdraw, TypeInv, TypeOK, OpenIsCreated, Created, Idle
  <2>4. /\ UNCHANGED <<revisions, reviews, attached>>
        /\ \A z \in Submissions : submissions'[z].submitter = submissions[z].submitter
    BY <1>4, <2>1, <2>2, <2>3 DEF CommitWithdraw, TypeInv, TypeOK, SubmissionRows, extensionVars
  <2> QED
    BY <1>0, <2>4, QuietKeepsRevisions, ProvenanceStutters
<1>5. ASSUME NEW reviewer \in Admins, NEW s \in Submissions, NEW decision \in Decisions,
             Decide(reviewer, s, decision)
      PROVE  Provenance!ProvenanceNext
  <2>1. submissions[s] \in SubmissionRows
    BY <1>5 DEF Decide, Created, TypeInv, TypeOK
  <2>2. /\ revisions' = revisions
        /\ \A z \in Submissions : submissions'[z].submitter = submissions[z].submitter
    BY <1>5, <2>1 DEF Decide, TypeInv, TypeOK, SubmissionRows
  <2> QED
    BY <1>0, <1>5, <2>2, QuietKeepsRevisions, VerdictStep
<1>6. CASE Governance /\ UNCHANGED submissionVars
  BY <1>1, <1>6, GovernanceKeepsPackages DEF submissionVars
<1>7. \/ UNCHANGED <<submissions, revisions, reviews, attached>>
      \/ \E t \in Transactions, s \in Submissions : CommitCreate(t, s)
      \/ \E t \in Transactions : CommitRevise(t) \/ CommitWithdraw(t)
      \/ \E reviewer \in Admins, s \in Submissions, decision \in Decisions :
            Decide(reviewer, s, decision)
      \/ Governance /\ UNCHANGED submissionVars
  BY DEF Next, vars, submissionVars, extensionVars, Upload, CreateNext, BeginCreate, ReviseNext,
     BeginRevise, WithdrawNext, BeginWithdraw, Consume, Rollback
<1> QED
  BY <1>1, <1>2, <1>3, <1>4, <1>5, <1>6, <1>7

LEMMA ProvenanceStart == ASSUME Init PROVE Provenance!ProvenanceInit
<1>1. TypeInv /\ JudgeInv /\ ConsumeInv
  BY TypeInit, JudgeInit, ConsumeInit
<1>2. MappingFacts
  BY <1>1, MappingHolds
<1>3. RevisionNumbers = {} /\ servedNow = {}
  BY DEF Init, ExtensionInit, RevisionNumbers, servedNow
<1>4. \A p \in Packages :
          stages[p] = "fresh" /\ owners[p] = NoSubmission /\ judges[p] = NoSubmission
  BY <1>2, <1>3 DEF MappingFacts
<1>5. /\ stages = [p \in Packages |-> "fresh"]
      /\ owners = [p \in Packages |-> NoSubmission]
      /\ judges = [p \in Packages |-> NoSubmission]
  BY <1>4 DEF stages, owners, judges
<1> QED
  BY <1>3, <1>5 DEF Provenance!ProvenanceInit, stages, owners, judges, servedNow

\* Whatever races resurrect or overwrite a submission, each package is proposed
\* once, judged once by somebody else, and served only after an approval: the
\* service implements PackageProvenance.
THEOREM ServiceImplementsProvenance == Spec => ImplementsProvenance
<1>1. Init => Provenance!ProvenanceInit
  BY ProvenanceStart
<1>2. TypeInv /\ JudgeInv /\ ConsumeInv => MappingFacts
  BY MappingHolds
<1>3. /\ TypeInv /\ TypeInv' /\ JudgeInv /\ JudgeInv' /\ ConsumeInv /\ ConsumeInv'
      /\ MappingFacts /\ MappingFacts' /\ [Next]_vars
      => [Provenance!ProvenanceNext]_(Provenance!provenanceVars)
  BY ProvenanceStep
<1>4. TypeInv /\ TypeInv' /\ JudgeInv /\ [Next]_vars => JudgeInv'
  BY JudgeStep
<1> QED
  BY <1>1, <1>2, <1>3, <1>4, JudgeInit, TypeInvariance, ConsumeInvariance, PTL
     DEF Spec, ImplementsProvenance, Provenance!ProvenanceSpec
=============================================================================
