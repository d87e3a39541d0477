# A verification of the Enterprise Agent Hub

The Enterprise Agent Hub distributes extensions (skills, MCP servers, plugins) inside a company. A
server keeps the catalogue, the submissions and the organisation; a desktop client installs
extensions, edits the configuration of local tools and reports what it did.

This directory holds TLA+ models of the parts of both where the order of things matters, instances of
them for the model checker TLC, and theorems about them checked by the proof system TLAPS. Paths below
are relative to the repository, `hub/` stands for
`src/server/src/main/java/com/enterpriseagent/hub/` and `main/` for `src/desktop/src/main/`.

    tlc -workers 2 -config MCOutbox.cfg MCNotificationOutbox.tla     # a run
    tlapm NotificationOutboxProofs.tla                               # the proofs of a module

`PROJECT.json` is the index: the components of the system, the runs, for every definition the lines it
models, for every property a mutation of the model that breaks it, the hazards of the code, the
findings, and the theorems.

## 1. The system

### Server: Java, Spring, PostgreSQL at READ COMMITTED

Requests run concurrently, each in transactions of its own. There is no optimistic lock column;
entities are written by full or by named columns, and some reads take a row lock (`for update`). So
what a transaction has read may be old when it writes, two transactions may both find "none" and both
insert, and a rollback undoes rows but not files.

| Component | State | Operations | What is hard | What makes it correct |
|---|---|---|---|---|
| Submission (`hub/submission`) | submissions, revisions, prechecks | create, revise, withdraw | read without a lock, then write; a unique index on (submission, revision) | one upload is submitted once; a final status is final; whoever is told of a task may decide it |
| Review (`hub/review`) | reviews | decide | two reviewers; materialises what was checked long before | each revision is judged once, by somebody else; what is served was approved |
| Extension governance (`hub/extension/ExtensionGovernanceService`) | extensions, scopes, versions | delist, security-delist, relist, archive, reduce scope or visibility, transfer | reads a row, updates a column later; scopes are deleted and inserted | a reduction takes effect; opening an extension to everybody needs a system administrator |
| Packages (`hub/packages`) | package_uploads, package_objects, files | upload, consume, clean up | files are copied in a transaction that may roll back | no uploaded byte is lost |
| Download tickets (`hub/packages/DownloadTicketService`) | download_tickets | issue, replay, authorize | retries, expiry, revocation | a ticket serves once, for a version its owner may have |
| Notification outbox (`hub/notification`) | outbox_events, notifications | poll, claim, deliver, record a failure | several threads, retries, failures at commit, dead letters | every event settles; nobody is told without end |
| Idempotent requests (`hub/common/idempotency`) | idempotency_records | execute | concurrent duplicates; the record commits with the action | an action runs once for a key |
| Authentication, organisation (`hub/auth`, `hub/organization`) | users, sessions, departments | login, reset, disable, move | full-row writes; a guard that counts the administrators left | one system administrator remains; a revoked session ends |
| Client update (`hub/clientupdate`) | versions, packages, events | publish, check, consume, report | upload and rollback as above; repeated reports | a client is offered a published version with a package |
| Local event sync (`hub/localevents`) | local_events | sync | duplicates; one bad value in a batch | each event is counted once |
| Settings, devices, audit | one row or appended rows | update, heartbeat, append | compare-and-set of a version | no lost update |

### Desktop: TypeScript, Electron

One process and one event loop: code between two awaits is atomic, everything else interleaves,
including two calls of the same operation. The local database (sql.js) lives in memory and is written
whole to its file after each statement.

| Component | State | Operations | What is hard | What makes it correct |
|---|---|---|---|---|
| Local event queue and sync (`main/events`) | local_events, back-off | enqueue, syncPending, markSynced, markFailed | overlapping passes, lost and late answers, a crash | an event leaves only when the server has it; every event arrives |
| Local database (`main/db`) | the database and its file | run, transaction, persist | concurrent writes of the file; a crash while writing | what was promised survives |
| Plan executor (`main/executor`) | files, backups, records | execute | a failure at every await; two executions at once | all of a plan or nothing of it |
| Operations on extensions (`main/ipc/handlers.ts`, `main/skill`, `main/mcp`, `main/plugin`) | extension rows, targets, secrets | install, update, enable, disable, test, clean up | the policy is asked before the awaits it guards; several plans and statements for one call | the record follows the plans; what is held back stays off |
| Local lifecycle (`main/lifecycle/local-lifecycle-repository.ts`) | older tables, resource graph, tracked files | record, hint, list, audit, remove a project | a call is many statements, others run between them; transactions, which may fail after their COMMIT | a project goes whole, by a removal that says so; rows are well-formed |
| Kits (`main/lifecycle/local-kit-service.ts`) | manifests, bindings of a kit | save, apply, remove, check | one binding after another, each may fail; the listing is old by then | the report is true; the user's own bindings stay |
| Agent inventory (`main/agents`, `main/lifecycle/local-inventory-scanner.ts`) | resources and bindings found | scan | path by path over a disk that changes; two scans; rows of earlier ones | a scan that ends records what is readable, and every failure |
| Static audit (`shared/local-audit.ts`) | none | audit one resource | two tables (what a rule applies to, what its detector reads); skipped lines | what was found is found again in more text; a declared rule of the text is detected |
| Client update (`main/update`) | pending update, installers, the version last reported | check, cancel, download, install, report a start | the pending update is replaced during an await; restarts | only a verified installer is started; what is reported happened |
| Start-up, heartbeat (`main/main.ts`, `main/startup-recovery.ts`, `main/device`) | attempts, timers, database copies | start, retry, rebuild, heartbeat | overlapping attempts, late successes, timers | one set of services is in use; a start settles |
| Credentials, session (`main/security/secure-store.ts`, `main/ipc/handlers.ts`) | file of secrets, session flag, settings | sign in, sign out, recover, store a secret | the file is read whole and written whole by every call | after a sign-out no request has a token |
| Renderer (`renderer/App.tsx`, `renderer/pages`, `renderer/components`) | page, dialogs, lists, spinners, wizard | load, open, close, submit | answers come late and out of order; dialogs close meanwhile | no spinner waits for nothing; what is sent was inspected |
| Guards, API client | none, or one value | | functions of one path, file or request | |

### Web administration: TypeScript, React

| Component | State | Operations | What is hard | What makes it correct |
|---|---|---|---|---|
| Session (`src/web-admin/src/App.tsx`, `api.ts`) | local and session storage, session shown | sign in, sign out, reload | several tabs, late answers | a tab that signed out has no token |
| Pages (`src/web-admin/src/App.tsx`) | what was read, the row chosen, the decision under way | decide, govern, save, publish | what is shown is old when it is decided on | a setting or a release changes from what was shown |

### How they interact

A submission request writes its rows, its consumed package and an outbox event in one transaction,
under an idempotency record; after the commit the same thread polls the outbox. A decision does the
same and materialises the revision into the catalogue. Governance calls change the same catalogue rows.
The desktop asks for a ticket, downloads, makes a plan, executes it; the execution puts an event into
the queue; a later sync pass sends the queue to the server.
The handler then writes the outcome into the local record, where scans, kits and hints write too; the
renderer reads the record again when a call has returned. The administration's pages call the
server's decisions with what they have read before.

## 2. The modules

    Organization            who may review or manage what; scopes and whom they reach
      ExtensionLifecycle    the catalogue: materialisation of approvals, governance calls
        SubmissionReview    submissions, uploads, reviews, rollbacks; the composition of the three
          PackageProvenance   the abstract specification SubmissionReview implements
          SubmissionReviewProofs, SubmissionSafetyProofs
    NotificationOutbox      the outbox and the threads that consume it
      NotificationOutboxProofs
    LocalEventSync          queue, passes, network and server of the local events
    LocalExecutor           plans, steps, backups, rollback
      LocalExecutorProofs
    OperationPolicy         what an operation may do to a resource (operators only)
      LocalOperations         install, configure, enable, clean up: handlers over plans and records
      LocalKits               kits, over LocalLifecycle
    LocalLifecycle          the record of the machine, statement by statement
    AgentInventory          scans of agents and projects
    StaticAudit             rules, detectors, score and status
    ClientUpdate            the desktop updates itself
    DesktopStartup          attempts to start, timers, the database's copies
    DesktopSession          sign-in, sign-out, the file of secrets
    AppView                 the window: pages, dialogs, spinners
    DesktopPages            the panels of the local page, the publish wizard
    AdminSession            tabs of the web administration and their tokens
    AdminDesk               its pages: what was read, what is decided

The other proofs are in four modules:

    FiniteFolds             finite sets: induction over subsets, folds, sums (no state)
    RecordsProofs           of AgentInventory, StaticAudit, LocalLifecycle with LocalKits
    DesktopProofs           of ClientUpdate, DesktopStartup, DesktopSession, LocalOperations; of MCDesktop
    WindowsProofs           of LocalEventSync, AppView, DesktopPages, AdminSession, AdminDesk; of MCWindows

`MC*` modules give the constants of the runs their values. `MCDesktop`, `MCWindows` and `MCBackground`
put parts side by side that share no variable; a behaviour follows one of them (`focus`), so one run
explores each part in full and none of their product.

### Organization

Pure operators, no state: the department tree (`PathToRoot`), scopes and the users they reach
(`Reach`, `ScopeEvaluator`), who may review (`CanReview`, `ReviewService.canReview`; a submitter may
not), who may manage (`CanManage`), who is told of a task (`ReviewerIds`). The organisation is a
constant: its administration is a later module.

### ExtensionLifecycle

`extensions`, `scopes` (a set of rows per extension, because the code allows more than one), `versions`
and `attached` (which version a package object belongs to), and `pending`: the row update a governance
call has decided on and not executed. A governance call is two actions, `Delist .. TransferOwnership`
(its reads and checks) and `ExecuteUpdate` or `ExecuteScope` (its statement), so that approvals and
other calls fall between them. `Overtaken` and `InsertScope` are the row visibility of READ COMMITTED:
a DELETE that began before another transaction's INSERT leaves the inserted row.

### SubmissionReview

`submissions`, `revisions` (a sequence per submission), `reviews`, `uploads` (row, temporary and
permanent file), `outbox` (the notification events with their recipients; `revision` says when one was
written, what it tells its reader names the submission only), and `transactions`: what an open request has read. A create or revise request
is `Begin..` (reads and prechecks), `Consume` (row lock, file copy), `Commit..`; it may `Rollback` at any
point, which leaves the files as they are. `CommitRevise` fails when the unique index refuses its
revision number. A withdrawal is `BeginWithdraw` and `CommitWithdraw`. `Decide` is one action because
the code holds the submission's row lock throughout.

### PackageProvenance

What a package may go through: proposed by one owner, judged once by somebody who is not the owner,
served after an approval only. `SubmissionReview` implements it under the mapping
`stage <- Stage`, `owner <- Proposer`, `judge <- Judged`, `served <- attached`, all computed from the
rows, in the presence of the races below that do overwrite a submission's status.

### NotificationOutbox

`rows` (status, retry count, whether the retry is due), `created` (the order of the batch), `workers`
(the threads in `processPending`), `notified` (notifications per event, a count of rows). One event is
`Claim` (locks the row, rereads it), `Deliver` or `Fail`, and after a failure `RecordFailure` in a
transaction of its own, or `LoseFailure`. `Fail` rolls the delivery back; a delivery that commits can also
look like a failure to its thread, when the answer to the commit is lost. `Crash` stops all threads.

### LocalEventSync

Both ends of the event synchronisation: `queue` and `saved` (the table in memory and in the file),
`writing` (file writes under way, which end in any order), `callers` (operations that enqueue), `passes`
(phase, the batch of the request, the events still to be acknowledged), `delayed` (requests the client
has given up and the server may still get), `recorded` (rows on the server). `Record` is the server's
transaction; one value that does not fit a column aborts it. `Crash` restarts the client from the file:
the last complete write, one under way, or nothing.

### LocalExecutor

`files` (a file is the set of its entries), `execs` (the executions: phase, plan, step, backups, draft,
verdict), the tables the executor writes (`records`, `planStatus`, `events`) and `reported`, how many of
the statements at the end are behind an execution. One step is `Backup` and then either `Apply` or, for
the actions that go through `atomicWrite`, `Draft`, `RemoveTarget`, `Rename`; `StepFails` stands for a
failure of any of them, `Between` for what a copy or removal that stops half-way leaves. The rollback is
`Clear` and `CopyBack` for each backup, newest first, or `RestoreFails`. The end is `PersistRecord`,
`UpdatePlanStatus` and `EnqueueEvent`, each of which may throw before or after its change
(`StatementFails`); after a success that leads to the rollback. `before` and `alone` are history
variables: the files at the start of an execution, and whether another execution has had one of its
targets since.

The services make a plan's idempotency key of the operation and its object (`main/skill/skill-service.ts:54`),
so it recurs, and the key of the event is that and the verdict. `EnqueueEvent` writes nothing when an event
of that key waits (`main/events/local-event-queue.ts:144`): two executions of one operation before a
synchronisation (`Synced`) leave one event, which names the first of them. That one may even have been rolled
back since, when its enqueue threw after the row was written. `ReturnedIsReported` therefore says no more than
holds: the record and the plan's row have the verdict, and an event of the key and the verdict waits, of
this execution or of another that has recorded the same verdict.

### OperationPolicy, LocalOperations

`OperationPolicy` is `shared/local-phase3-operations.ts` as operators: the registry (what each operation
writes and asks for), `evaluatePhase3Policy`, and the aggregation of results. Where the code tests one
condition after another and the conditions overlap, the operators are chains of `IF`: the arms of a TLA+
`CASE` have no order. `LocalOperations` runs the
handlers over it: `row` (the extension's record), `central` (the version a skill's pointer names),
`entry` (what the target holds), `secrets`, and `opCall`, the calls between two awaits. A plan is one
step that succeeds or leaves the machine as it was; `LocalExecutor` is its inside. A connection test, or
the removal after one that failed, may throw, and then the target has an entry the record does not know of
(`main/ipc/handlers.ts:427`). `applied` and
`cleared` are history: versions a plan has put in place, and calls whose extension was not held back
all the while.

### LocalLifecycle, LocalKits

`tables` and `graph` are the older tables and the resource graph. A call of the repository is a list of
statements in `todo`, executed one at a time; a listing, which awaits nothing, is one step. `Hint`, `Scan`,
static audits, edits of files by somebody else, a statement that throws and a stop of the process fall
between any two statements.

The removal of a project is a transaction with statements before and after it, and `removal` says how far each has come
(`plan`, `record`, `event`, and in `rows` what has become of the project's rows). BEGIN to COMMIT is one
step and the write of the file that follows it another; either may throw (`RemovalFails`). After the second
the project is gone in memory while the failure is written over the record the transaction had committed
(`main/db/local-database.ts:377`, `main/lifecycle/local-lifecycle-repository.ts:1813`); `RemovalIsTold` allows
exactly that and no more. No statement of another call comes between BEGIN and COMMIT, although
`transaction` awaits its work: the work of every caller only runs statements, without an await of its own, so
the await ends among the microtasks of the same turn of the event loop, before any other call, each of which
waits for a write of the file or for its own message, is resumed. The two other transactions, of an audit's
findings and of a kit's record, are one step for the same reason.

`LocalKits` adds the operations on kits: one listing, the policy, the executor's plan, then binding after
binding, each with a result of its own. A statement may throw before it has written, or after it when the file
is not written (`KitStatementFails`). `done` is what an operation counts as a success, `wrote` whether it has
come to change any binding, the kit's own among them, which is written with whatever status has been reached
(`main/lifecycle/local-kit-service.ts:300`), and those a deletion removes before it can fail (`:443`). So a
failure may have changed bindings, and `KitReportHonest` does not say otherwise.

### AgentInventory, StaticAudit

`AgentInventory` scans managed directories, then for each agent the home directory, then each project;
`agentDisk` says what each path holds (nothing, something that fails, files of which some cannot be
parsed) and may change during a scan; each run first purges three kinds, as the code does. A managed
directory that cannot be listed rejects the whole scan (`ScanRejected`,
`main/lifecycle/local-inventory-scanner.ts:450`), and entries whose state cannot be told are passed over.
A path that is gone marks its latest row only, so one that had failed before keeps the row of the scan
before that (`overtaken`). `StaticAudit`
has the rules as records (`auditRules`), the detectors as a table of patterns and kinds of resource, the
mask of descriptive lines, the score and the status; its state machine adds a line or a fact at a time, so
that a property of two texts, one longer, is an action property. The words of a line may be parted by
invisible characters, which `deobfuscate` takes out before any pattern is tried. That is also why the last
of `promptInjectionPatterns` (`local-audit.ts:261`), which looks for those very characters, matches nothing
(`Shows` of a line that has been read never holds `invisibleCharacter`); and `PLUGIN_SOURCE_TRUST`, declared
for kits too (line 215), is only looked for in plugins (line 487), as the tests of the metadata in
`detectMetadataRules` have it. `DeclaredIsDetected` speaks of the detectors of the text and of words, and
leaves out both. Metadata can also count in favour of a resource: the five `ClearingFacts` answer one test
each, and `FindingsAreOnlyAnswered` says that nothing else takes a finding back.

### ClientUpdate, DesktopStartup, DesktopSession

`ClientUpdate` splits check, cancel, confirmDownload, confirmInstall and the report of a start at every
await, over one `pending`; `Restart` ends all calls. `DesktopStartup` has a `stage` per attempt: it reads
or makes the device id, opens the database, and becomes the services in use (`active`), unless a later
attempt has superseded it; `Timeout`, `Retry`, `Rebuild` and `Quit` come at any time. `DesktopSession`
has sign-in, automatic sign-in, sign-out, change of password, recovery and settings, each reading the
file of secrets whole and writing it whole later.

### AppView, DesktopPages

`AppView` is the window: `window` (tab, dialogs, user, boot, what spins), `loads` (how many of each list
are under way) and `windowCall`. A request sets its spinner and an answer ends it; the `finally` blocks,
early returns and guards are those of `App.tsx`. `DesktopPages` has what keeps state of its own: the
panels of the local page (`busyPanels`, gone when unmounted) and the publish wizard (`draft`,
`inspections`).

### AdminSession, AdminDesk

`AdminSession`: one local storage for all tabs, a session storage for each, the session each shows;
requests take their token when they are sent and answer late. `AdminDesk`: the five pages on which
something is decided. A desk has read something (`pane`), has chosen a row, sends a decision with what it
has (`seen`); the server (`thing`) refuses one that is no longer possible.

## 3. The runs

Every property of a passing run has a mutation of the model (in `PROJECT.json`; the operators marked
"Mutant" in the modules) under which the same run finds it violated.

| Run | Module, cfg | Properties | What it shows |
|---|---|---|---|
| submission_races | MCSubmissionReview, MCSubmissionRaces | JudgedAtMostOnce, EffectiveIsApproved, ToldMayDecide, ConsumedExactlyOnce, BytesNeverLost, ImplementsProvenance | two requests at once and reviewers, over two submissions |
| submission_catalogue | MCSubmissionReview, MCSubmissionCatalogue | CurrentVersionHasPackage, ServedIsApproved, EveryoneScopeFromSystemAdmin | publications, updates and archivals among governance calls |
| outbox | MCNotificationOutbox, MCOutbox | NotificationsAccounted, NotificationsBounded, DeadLetterIsFinal, EveryEventSettles | two threads, one poisoned event, failures of both kinds, a crash |
| executor | MCLocalExecutor, MCExecutor | OriginalIsKept, ReturnedIsReported, FailureChangesNothing, SuccessIsTheWholePlan | every kind of step and failure beside a second execution |
| desktop | MCDesktop, MCDesktop | DesktopTypeOK, LaunchedWasVerified, UpdateEventsAreTrue, VersionChangeIsTold, SignedOutStaysOut, ServicesInUse, RecordFollowsPlan, BlockedStaysOff, ScanMirrorsDisk, DeclaredIsDetected, FindingsAreOnlyAnswered, RemovalIsTold, KitReportHonest, KitRemovalSparesOwn | the main process: two calls at a time in each of its parts |
| windows | MCWindows, MCWindows | WindowsTypeOK, SpinnersEnd, InspectionIsOfTheFile, SignedOutTabHasNoToken, SavedWasShown, DroppedIsRecorded | the desktop's window, the administration's tabs and pages, and the events that leave the desktop over a bad network with a crash |
| background | MCBackground, MCBackground | EveryGoodEventArrives, EveryStartSettles | what must eventually happen on the desktop, under fairness |

`DesktopTypeOK` and `WindowsTypeOK` are the type invariants of the parts, each where the run follows it;
those of the other runs are proved only (section 4).

### Bounds, and why they are enough

* *Submissions*: two or three submissions, two or three packages, one or two open requests, up to three
  revisions (`MaxRevisions`) and versions (`MaxVersion`). Every race in the code is between two actors
  over one submission, one upload or one extension; the second submission is there for the rules that
  look at others (an open first publication, an upload named twice), the third for two updates that
  wait together after a publication. Three revisions let one be rejected, one be overtaken and one
  approved.
* *Organisation*: a system administrator, a department administrator and an employee, in a department, its
  parent and a sibling: every branch of `CanReview` and of the scope test is taken. The governance runs
  leave the employee and the sibling out, and so does `submission_races`, where both administrators are in
  the root department and a revise may ask for everybody instead of one department: then who is told and
  who may decide are found in different places (`ToldMayDecide`). One who was told of an earlier revision
  may be refused later.
* *Governance*: one caller besides the reviewers. A call and an approval, or two calls with an approval
  between them, need no more.
* *Outbox*: two events, one of which can never be delivered, a batch of one (so that the batch is too
  small), two threads, three attempts (the code's own limit), one crash.
* *Sync*: two events, two passes, one caller, one crash in `windows`. `background` has one pass
  and no crash: a crash may lose an event (see below), and the safety properties show that a second pass
  does not take an event away that the server does not have.
* *Executor*: two paths and two entries; one call with the plans the services make (two entries of one
  file, a plugin's hash, directory, copy and file, a skill's directory and link, a removal), and one
  that removes an entry of the same file. Both have one idempotency key, as two calls of one operation do.
  Failures are not bounded.
* *Desktop*: two calls at a time in every part, which is what the races of the code need, since each is
  between two readers and writers of one value. Four calls of the updater (check, download, cancel or
  check again, install), three attempts to start (one superseded, one that times out, one that
  succeeds), three calls of the session, one extension of each kind with two versions, a kit of one or two
  resources on one path, a machine that is new or has been used (`Lived`), two projects and one
  agent besides the user's own, one thing out of the ordinary on the disk at the start of a scan. Of scans
  and changes of the disk there are three (`MaxTurns`): a scan, a change and another scan, so that rows of the
  first meet the disk of the second, or two scans at once with a change; the last of the three waits until
  no scan is under way.
  The audit adds two parts to any resource: a property that compares a text with a longer one needs
  no more, and every detector works line by line but for the fence.
* *Windows*: two requests besides the loads of lists, three at most under way together, in four views of
  the window that between them have every operation (`Sights`); two files, one inspection each; two
  tabs, three members of whom two are administrators; two desks on the pages of settings and
  releases, and one on those that read afresh or never again; there the rival is the submitter, who
  sends a new revision (`Resubmit`).

Symmetry is used where the run has no liveness property and the set has no distinguished member.
Deadlock is not checked where the model runs out of submissions, executions or calls and stops; the
outbox run checks it.

### Fairness

* `TrafficSpec` (outbox). A thread goes on with its batch (weak fairness), a row that is free again and
  again is claimed and a failure that can be recorded again and again is recorded (strong: the database
  answers sooner or later), time passes. The code has no scheduler: only threads of later requests poll
  the outbox, so liveness needs the assumption that requests keep coming, which the specification's name
  says. Nothing makes a delivery succeed.
* `Fairness` (sync). The renderer asks for a pass again and again, the event loop runs every
  continuation, and no request, answer, statement or file write fails for ever (strong fairness on the
  steps that can be pre-empted by a failure). A pass that fails is ordinary behaviour.
* `StartFairness` (start-up). The window loads or fails to, and a timer that is set fires. Nothing makes
  an attempt end: a step of it may hang for ever, and `EveryStartSettles` holds because of the timer.

### Disagreements the runs exhibit

Each of these runs checks one property the repository states, and TLC finds a behaviour of the code
that violates it.

| Run | Property | What happens |
|---|---|---|
| withdraw_approved | TerminalIsFinal | A withdrawal that read the submission before it was approved overwrites APPROVED. |
| version_regression | VersionNeverDecreases | Two updates wait together; the lower one, approved last, becomes current. |
| reduction_overtaken | ReductionTakesEffect | A reduction and an approval replace the scope rows at once; both rows stay, and either authorises. |
| executor_overlap | OtherEntriesStay | The rollback of one plan, or its write of what it had read, removes the entry another plan wrote to the same file. |
| unseen_approval | StaleDecisionFails | The review page reads the submission once more at the click and decides on the revision it then finds, which nobody has had on the screen. |

Met while modelling, and without a run of their own.

On the server: two first publications of one
extension can both be open (`hub/submission/RulePrecheckService.java:109`); delisting takes an extension
out of SECURITY_DELISTED and ARCHIVED, and an approval takes it out of any status
(`hub/extension/ExtensionGovernanceService.java:58`, `hub/review/ReviewService.java:186`); a scope call can
widen as well as reduce (`hub/extension/ExtensionGovernanceService.java:207`); after a rollback an upload
can be AVAILABLE although its temporary file is gone (`hub/packages/PackageUploadService.java:218`; its
permanent copy remains, which is what `BytesNeverLost` says); the only administrator told of a task can be its
submitter (`hub/submission/SubmissionService.java:297`); the outbox is consumed by request threads only
(`hub/notification/NotificationOutboxConsumer.java:30`); an execution whose last statements fail is rolled
back and leaves a SUCCESS record, and it may be a SUCCESS event, behind (`main/executor/local-executor.ts:47`), whereas the design
(`src/docs/DetailedDesign/08_本地执行事务与ToolAdapter设计.md`, 8.4) writes one record after the rollback; an
archived extension can be delisted and then relisted (`hub/extension/ExtensionGovernanceService.java:79`, `:173`),
which the core flows (`src/docs/RequirementDocument/16_core_flows.md:158`) do not foresee.

On the desktop:

* Events: one that does not fit its column aborts every request of the device, and a crash while the database
  file is rewritten in place loses events whose enqueue had returned. `LocalEventSync` has both (`Oversized`,
  `Crash`); the runs have no oversized event, and no crash where delivery is checked.
* Start-up: the late success of an attempt that was superseded persists its old copy of the database
  (`main/main.ts:88`), and a rebuilding can be undone by an attempt that had read the file; two first starts
  that overlap make two device ids.
* Secrets and settings are read whole and written whole by every call, so one of two concurrent changes is lost.
* Updates: a cancellation is overwritten by the download or the verification it meant to stop
  (`main/update/client-update-service.ts:143`, `:151`, `:170`); two confirmations start the installer twice.
* Operations: the policy is decided before the awaits it guards; a failing connection test of an update
  removes the entry that worked (`main/ipc/handlers.ts:436`), and one that throws leaves the new entry without
  a row; after an installation whose enabling fails
  nothing is recorded; secrets stay that were stored for a plan that failed.
* Record: a server block is lost to a later scan or a weaker hint; a drift once found is forgotten by the next
  check; hints wipe the metadata that ties a binding to its kit; a scan under way re-records what a
  removal of its project has deleted; every scan of a project purges the hooks of the projects before it
  (`main/agents/agent-inventory-scanner.ts:109`); a file that cannot be parsed hides its later siblings; a path that
  failed in one scan and is gone in the next keeps its old row
  (`main/lifecycle/local-lifecycle-repository.ts:709`); one managed directory that cannot be listed rejects every
  scan; an execution whose event finds one of the same key waiting is not reported to the server by one of its
  own; a kit's deletion that fails at its last statement has removed the bindings already.
* Renderer: late answers of search and of details overwrite newer ones; a publication that is retried has a
  new idempotency key; the custom agent's editor and the kit's editor write back what they were opened with
  (`renderer/pages/LocalPage.tsx:2817`, `:1816`).
* Administration: a late answer after a sign-out shows the old session again, without its token
  (`src/web-admin/src/App.tsx:76`); a session ends only on codes the server never sends (`:84`); a comment typed
  for one submission can be sent with a decision on another.

## 4. The proofs

All theorems are of the form `Spec => []Invariant`, `Spec => ActionProperty` or, for the refinement,
`Spec => ImplementsProvenance`, for every value of the constants: any organisation, any number of
submissions, packages, threads, passes, events, calls, extensions, scans, kits and desks, any bound. Every
invariant and every action property of a passing run is the subject of one; what remains to TLC is
liveness.

The assumptions are the named `ASSUME`s of the modules, and all are about the shape of the constants:
departments are a tree (`TreeAssumption`), bounds are numbers (`OperationAssumption`, `AuditAssumption`, `SessionAssumption`, `WindowsAssumption`), what
the code tells apart by a type or a prefix of an id is disjoint (`LifecycleAssumption`,
`InventoryAssumption`, `DeskAssumption`, `OrganizationAssumption`), a value that stands for "none" is not one
of the others (`RowAssumption`, `SubmissionAssumption`), and what is registered at a time is a finite set
(`LifecycleAssumption`). `LivedAssumption` says of which sets the used machine of `MCDesktop` is made. TLC
evaluates each of them in a run.

Each proof follows the same plan. The property is not inductive; a comment in front of the inductive
invariant says what it adds and why. TLC checks that invariant before it is proved. A lemma per action,
or per kind of action, shows that a step keeps it; a last lemma collects the actions of `Next`, and the
theorems combine it with the initial states.

* **Types of the core** (`SubmissionReviewProofs`). `TypeOK` is not inductive: an update keeps its type
  only if the row it updates is there. `TypeInv` adds that a created submission has its current revision
  (`CurrentExists`), that an open request has found the submission and the upload it will write
  (`OpenIsCreated`, `OpenIsUploaded`), and that a pending governance update is of an existing extension
  (`PendingExists`). One lemma per action; `CatalogueInv` separates the catalogue's half.
  Theorems `TypeInvariance`, `TypeCorrectness`.
* **Safety of the core** (`SubmissionSafetyProofs`). `JudgedOnce`: each revision is judged at most once.
  `JudgeInv` adds that a review is of a revision that exists, so that a new revision has no review yet.
  `ConsumedOnce` and `BytesKept`: `ConsumeInv` adds that a submission that does not exist has no
  revisions, that an upload in the hands of a transaction is in nobody else's (`HeldAlone`, the row
  lock), and that a submitted package is an uploaded one.
* **What approvals leave** (`SubmissionSafetyProofs`). Two lemmas carry these: a step keeps the reviews,
  what they judged and whose it was (`ReviewsStay`), and the catalogue changes through approvals and
  governance calls only (`WhoChangesTheCatalogue`). `EffectiveApproved` follows.
  `ServedApproved` needs that a package is not attached when it is approved: had it been, its one
  revision (`ConsumeInv`) would have been judged already (`JudgeInv`). `CurrentVersionInstallable`: no
  governance call changes a version. `EveryoneFromSystemAdmin`: a replacement of the scope rows puts
  back only rows its DELETE has missed, so it opens nothing that was not open.
* **Who is told** (`SubmissionSafetyProofs`). `TaskInv`: the department that owns a review is the one its current
  revision's scope leads to (`OwnerIsOfScope`), an open revise is of the submitter's own (`OwnRevise`), and those
  told of the current revision were found by that department (`TasksAreTold`). That they may decide is then a
  fact about walks up a tree, where `TreeAssumption` is used. Theorem `WhoIsToldMayDecide`.
* **The refinement** (`SubmissionSafetyProofs`). `MappingFacts` reads the mapping, whose terms choose a
  proposal and a verdict, through the one of each that a package has. The two commits map to `Propose`,
  a decision to `Approve` or `Refuse`, every other step to a stutter, a withdrawal that overwrites an
  approval included. Theorem `ServiceImplementsProvenance`.
* **Outbox** (`NotificationOutboxProofs`). `OutboxInv`: a row is claimed by one thread, a claimed row is
  waiting, a thread holds rows that exist, and for each row the notifications are paid for by its
  retries (`Accounts`, a bound for each status). From it
  `OutboxTypeCorrect`, `OutboxAccounted`, `OutboxBounded` and `OutboxDeadLetters`.
* **Sync** (`WindowsProofs`). `SyncInv`: a pass acknowledges only events the server has
  (`AnsweredIsRecorded`). From it `SyncTypeCorrect` and `OnlyRecordedDropped`.
* **Executor** (`LocalExecutorProofs`), for any number of executions, plans of any length and files of any
  content. `OriginalIsKept` is not inductive: that a rollback gives a file back needs that a target with a
  backup has the *original* as its oldest one. `ExecutorInv` says for each execution what goes with its
  phase (`Shape`: a step under way that can be undone has been backed up, a failure that is being
  reported has no backups left) and what it owes (`Owes`), and that an execution that is alone shares no
  target with another that runs (`Apart`), so that steps of others leave its files as they are. The
  lemmas `AppendBackup` and `FrontBackups` say what taking and putting back a backup does to "the oldest
  backup of t". From it `ExecutorTypeCorrect`, `OriginalKept`, `Reported`, and, since only a report ends an
  execution (`EndsReporting`), `FailureUndone`. `SuccessDoesAll` compares what is on the disk with
  `Outcome`, a fold over the steps of the plan: the files of an execution that is alone are the fold of the
  steps behind it, and one more step is one more application.
* **Update** (`DesktopProofs`). `UpdateInv`: a pending update that is marked verified, and a call past
  its verification, have a sound installer of *their* update on the disk. `ReportInv`: a call that is
  about to write the version file has told the server of that change. Theorems `UpdateInvariant`,
  `OnlyVerifiedIsLaunched`, `EventsAreTrue`, `ChangeIsTold`, for any number of overlapping calls.
* **Desktop session** (`DesktopProofs`). `SessionInv`: while a call writes a token somebody is signing
  in, and after a sign-out the flag of the session is down, whatever a late write puts back into the file.
  Theorems `SessionInvariant`, `NoTokenSignedOut`. The types need an invariant of their own
  (`SessionTypes`): what a call is about to write back is the file that it has read, settings for
  settings and secrets for secrets (`ReadsItsFile`), and the rest of its program fits those files.
* **Start-up** (`DesktopProofs`). `StartInv` adds to `ServicesInUse` that attempts begin in turn and that the
  services in use are those of an attempt that was begun and has succeeded (`InTurn`): a late success
  finds a later attempt begun and closes its own. Theorems `StartTypeCorrect`, `OneSetOfServices`.
* **Operations** (`DesktopProofs`). `OpInv` says for each call, by how far it is, what has come before: a call
  that will record a version carries one that a plan has put in place (`applied`), and one that has been
  judged was allowed or takes something away (`Judged`, `clear`). That an extension is held back *now*
  says nothing of a call judged before, so `BlockedStaysOff` needs the history `cleared`. Theorems
  `OperationTypesCorrect`, `RecordsFollowPlans`, `HeldBackStaysOff`.
* **Inventory** (`RecordsProofs`). `ScanInv`: how far a scan is (`Walk`), that the projects registered are those
  it has been to or has still to go to (`Covers`), that what is behind a scan nothing has disturbed is
  recorded, except what the present run has forgotten of other places (`Mirrored`), that what a run
  forgets is there only for a file on the disk (`Founded`), that a path that is gone keeps no row of an earlier
  scan once this one has passed it (`Gone`), unless it has failed before, and that a path in `overtaken` has a
  failure on record. The mirror at the end is all of these with nothing ahead. Theorems
  `InventoryTypeCorrect`, `ScanIsAMirror`.
* **Audit** (`RecordsProofs`). The detectors are shown monotone, line by line, and
  a fact to take back only the finding of the test it answers (`FactAnswers`); the deductions are a sum over the
  rules found (`DeductionsAreASum`), which grows with them, so the score falls (`ScoreFalls`) and the
  severity rises (`SeverityRises`). Theorems `AuditTypeCorrect`, `GrowthOnlyAnswers`,
  `DeclaredRulesAreDetected`.
* **Record and kits** (`RecordsProofs`). `KitInv` types every queue of statements (`Fits`), ties the queue of a
  removal to how far its row is (`RemovalQueue`: its statements come in their order, or in that of a failure,
  and the row says what is behind them), and accounts for what an operation is still to do: each
  reference a kit requires is with the plan, done, failing, or has its statement in the queue
  (`ApplyOK`), and so has each binding a removal is for (`RemoveOK`). Statements of other calls, hints, scans
  and edits disturb rows but no queue. What a listing queues is a fold over the bindings in some order,
  and is shown to miss none and to add none. Theorems `KitsInvariant`, `LifecycleTypeCorrect`,
  `KitsReportHonestly`, `RemovalsAreTold`, `OwnBindingsStay`.
* **The main process** (`DesktopProofs`). The parts share no variable, so a step of one is a stutter of the
  others (`DesktopInvStep`), and the machine with a past satisfies `KitInv` as the empty one does
  (`LivedIsAPast`). Theorem `DesktopTypesCorrect`.
* **Administration session** (`WindowsProofs`). `SignedOutTabHasNoToken` is inductive together with
  the types of the requests (`AdminTypes`): a late answer to who somebody is puts no token into
  a storage, and a sign-in that does takes its tab off the list. Theorems `AdminTypeCorrect`,
  `NoTokenAfterSignOut`, for any number of tabs, requests and members.
* **Administration desks** (`WindowsProofs`). A pane shows rows of what its desk has asked for last
  (`PaneOK`), and a load whose answer still matters is of that too (`LoadOK`), so a late one cannot fill
  the pane of another row; a decision carries the row that was seen, of a version the setting can still
  leave (`ActOK`). Theorems `DeskTypeCorrect`, `SettingsSavedAsShown`.
* **Windows** (`WindowsProofs`). `WindowInv`: every spinner is served by a request under way, by a load of its
  list or by a start-up that waits for the list (`Served`); `PanelInv` says the
  same of the panels of the local page, both ways: a disabled button has its request, and a request that
  has not been unmounted has its button disabled, so no second one starts. `WizardInv`: the inspection
  shown is of the file chosen. `WindowsInv` puts the parts side by side. Theorems
  `WindowsTypesCorrect`, `EverySpinnerIsWaitedFor`, `WizardShowsItsFile`.
* **Finite sets** (`FiniteFolds`). The library states its induction for an operator, which the provers here
  cannot instantiate; `SubsetInduction` states it for a set of subsets, and follows from the library's fact
  that the strict subset ordering of a finite set is well-founded (a least counterexample). From it: a finite set of numbers has a largest
  (`MaxExists`), the recursive function under the folds of the community modules exists and is unique
  (`FoldExists`, `FoldUnique`), and the sum over a set is a number, has its terms and grows with the set
  (`SumOfFold`, `SumHasTerm`, `SumGrows`). The proofs of the audit, of the kits and of the executor rest on it.

Only model-checked: liveness under fairness (`EveryEventSettles`, `EveryGoodEventArrives`, `EveryStartSettles`),
which is out of this prover's reach, and the five disagreements, which are counterexamples.

## 5. What the models leave out

* Wording, formats, snapshots, audit rows, logging, searching and ranking, statistics: no decision of a
  modelled operation depends on them. The AI precheck writes a row that decides nothing.
* Resource kits in submissions: the branch has the shape of the others with a list of parts.
* The contents of archives: an upload is accepted or not.
* Nested targets of a plan, and temporary files that a failed `atomicWrite` leaves beside the target.
* A crash of the desktop during a plan: nothing in the code resumes or undoes it, so what a crash leaves is
  what any intermediate state of `LocalExecutor` shows, with its plan's status still `planned`.
* What the database's file lacks after a write of it has failed and the process ends before the next: the record
  and the kits (`LocalLifecycle`, `LocalKits`) go on from what was in memory. `LocalEventSync` has the file.
* Idempotency of requests: a replayed request is answered from its record and changes nothing.
* The layout of the renderer and of the administration: what a row, a chart or a form looks like. Stars and
  read marks, the overview, the audit list and the uploads of the administration.
* The shape of each tool's configuration file (the adapters): an entry is there with a version or not.
* The regular expressions of the audit: a line has words of the patterns it matches.

### Not modelled

* *Download tickets*, *idempotent requests*, *authentication and accounts*: planned (below). Their hazards are
  listed in `PROJECT.json` with a note.
* *AI precheck*, *notifications* (listing, marking as read), *devices*, *audit*: single inserts, upserts or
  one-row updates whose order decides nothing.
* *Path and hash guards*: checks of one path or file; a step they refuse is a step that fails.
* *Packaging and deployment*: scripts and configuration of an installation.

`PROJECT.json` lists forty hazards, the ones most worth a property. Smaller ones of the same kinds: the look for a
competing publication before the insert (`hub/submission/RulePrecheckService.java:109`), a status
written over the one the row was read with (`hub/extension/ExtensionGovernanceService.java:173`), the temporary package file that two downloads share, an event's
key that carries no time, and the lost updates named in section 3.

## 6. The plan

Done, in this order: Organization, ExtensionLifecycle, SubmissionReview with PackageProvenance, the
type proof, NotificationOutbox, LocalEventSync, their proofs, the safety proofs of the core, LocalExecutor;
then the desktop's main process (OperationPolicy, LocalOperations, LocalLifecycle, LocalKits,
AgentInventory, StaticAudit, ClientUpdate, DesktopStartup, DesktopSession), what people look at (AppView,
DesktopPages, AdminSession, AdminDesk); the proofs of the executor, the update, both sessions and the
rest of the core, the refinement of `PackageProvenance` included; and those of every other part: start-up,
operations, inventory, audit, record and kits, desks, windows, and the two compositions.

Next, the most important behaviour first:

1. `DownloadTickets` over `ExtensionLifecycle`: issue with credential replay, use once, expiry,
   revocation; abstract specification: a ticket as a one-shot right. A run of retries racing a use.
2. `UserAccounts` over `Organization`, whose constants become its state: login, lock-out, reset, session
   revocation, disabling, and `LastSystemAdminGuard`; property: a system administrator remains.
3. `IdempotentRequests`: an abstract at-most-once action, and the record, unique index and rollback that
   implement it; composed with `SubmissionReview`'s create.
4. The database's file under the record and the kits; the plan of `LocalOperations` as an abstract
   specification that `LocalExecutor` implements.

Proofs still to come: an abstract specification for the client's side of the events (an event is recorded
once and dropped afterwards) and for the executor (a plan is carried out or nothing is), which
`LocalEventSync` and `LocalExecutor` implement, with their refinements; then those of the modules above.
