---------------------------- MODULE LocalExecutor ----------------------------
(***************************************************************************)
(* How the desktop changes files: LocalExecutor.execute runs a plan step   *)
(* by step, backs up what a step will change, and on any failure puts the  *)
(* backups back.  What happened is written to three tables of the local    *)
(* database, and a statement of it can fail like a step.                   *)
(*                                                                         *)
(* Executions are started by the calls of the renderer and nothing keeps   *)
(* two of them apart: every await of one lets the others run.              *)
(*                                                                         *)
(* A file is the set of its entries: the members of a directory, the       *)
(* managed entries of a JSON file, or its one content.  No target lies     *)
(* inside another.  switch-pointer and record-state are write-file here.   *)
(***************************************************************************)
EXTENDS Naturals, Sequences, SequencesExt

CONSTANTS
    Executions,     \* calls of execute
    Targets,        \* paths
    Entries,        \* what a file can hold
    InitialFiles,   \* what a path can be at the start
    Plans,          \* the plans each call may be given
    Keys,           \* idempotency keys of plans
    KeyOf           \* the key of the plan each call is given: the services make
                    \* it of the operation and its object, so that it recurs

AtomicWrites == {"write-file", "json-upsert", "json-remove"}
Irreversible == {"ensure-dir", "verify-hash"}
Actions == AtomicWrites \cup Irreversible \cup {"copy-file", "remove-managed", "symlink"}

PlanSteps == [action : Actions, target : Targets, entry : Entries]

VARIABLES
    files,          \* the file system
    execs,          \* the executions
    planStatus,     \* execution_plans.status of each execution
    records,        \* execution_records of each execution
    events,         \* rows that wait in the event queue
    reported        \* statements each execution has carried through, of the last ones

vars == <<files, execs, planStatus, records, events, reported>>
tables == <<planStatus, records, events, reported>>

Missing == [exists |-> FALSE, entries |-> {}]
File(entries) == [exists |-> TRUE, entries |-> entries]
Files == {Missing} \cup [exists : {TRUE}, entries : SUBSET Entries]

ASSUME ExecutorAssumption ==
    /\ Plans \in [Executions -> SUBSET Seq(PlanSteps)]
    /\ InitialFiles \subseteq Files
    /\ KeyOf \in [Executions -> Keys]

Verdicts == {"dry_run", "success", "rolled_back", "rollback_failed"}

\* Those inside the try block, and those of the rollback.
Stepping == {"stepping", "applying", "drafted", "removed"}
Restoring == {"rolling", "restoring"}
Ended == {"returned", "threw"}
Running == Stepping \cup Restoring \cup {"reporting"}
Phases == {"idle"} \cup Running \cup Ended

\* next: the step under way; draft: the content in the temporary file;
\* verdict: the status the execution is about to report; before and alone are
\* history: the files at its start, and whether no other execution with one of
\* its targets has run since.
Idle == [phase |-> "idle", plan |-> <<>>, next |-> 1, backups |-> <<>>, draft |-> Missing,
         verdict |-> "none", before |-> [t \in Targets |-> Missing], alone |-> TRUE]

ExecutionStates ==
    [phase : Phases, plan : Seq(PlanSteps), next : Nat \ {0},
     backups : Seq([target : Targets, file : Files]), draft : Files,
     verdict : Verdicts \cup {"none"}, before : [Targets -> Files], alone : BOOLEAN]

TypeOK ==
    /\ files \in [Targets -> Files]
    /\ execs \in [Executions -> ExecutionStates]
    /\ planStatus \in [Executions -> Verdicts \cup {"none", "planned"}]
    /\ records \in [Executions -> SUBSET Verdicts]
    /\ events \subseteq [key : Keys, result : Verdicts, of : Executions]
    /\ reported \in [Executions -> 0..2]
    /\ \A e \in Executions : execs[e].phase \in Stepping \ {"stepping"} => execs[e].next \in DOMAIN execs[e].plan

Init ==
    /\ files \in [Targets -> InitialFiles]
    /\ execs = [e \in Executions |-> Idle]
    /\ planStatus = [e \in Executions |-> "none"]
    /\ records = [e \in Executions |-> {}]
    /\ events = {}
    /\ reported = [e \in Executions |-> 0]

-----------------------------------------------------------------------------
(* What a step does                                                        *)

Step(e) == execs[e].plan[execs[e].next]

HasStep(e) == execs[e].next \in DOMAIN execs[e].plan

Rollbackable(step) == step.action \notin Irreversible

Effect(step, file) ==
    CASE step.action = "ensure-dir" -> File(file.entries)
      [] step.action \in {"write-file", "symlink"} -> File({step.entry})
      [] step.action \in {"copy-file", "json-upsert"} -> File(file.entries \cup {step.entry})
      [] step.action = "json-remove" -> File(file.entries \ {step.entry})
      [] step.action = "remove-managed" -> Missing
      [] step.action = "verify-hash" -> file

\* What a recursive copy or removal that stops half-way can leave.
Between(old, new) ==
    {old, new} \cup {File(entries) : entries \in
        {s \in SUBSET (old.entries \cup new.entries) : old.entries \cap new.entries \subseteq s}}

TargetsOf(plan) == {plan[i].target : i \in DOMAIN plan}

Overlap(plan, other) == TargetsOf(plan) \cap TargetsOf(other) # {}

-----------------------------------------------------------------------------
(* execute                                                                 *)

\* The plan is valid and its row is written; a statement that throws ends the
\* call here.
Start(e, plan, dryRun) ==
    /\ execs[e].phase = "idle"
    /\ \/ /\ execs' = [d \in Executions |->
               IF d # e
               THEN [execs[d] EXCEPT !.alone = @ /\ ~Overlap(plan, execs[d].plan)]
               ELSE [Idle EXCEPT
                       !.phase = IF dryRun THEN "reporting" ELSE "stepping",
                       !.plan = plan,
                       !.verdict = IF dryRun THEN "dry_run" ELSE "success",
                       !.before = files,
                       !.alone = \A o \in Executions :
                           execs[o].phase \in Running => ~Overlap(plan, execs[o].plan)]]
          /\ planStatus' = [planStatus EXCEPT ![e] = IF dryRun THEN "dry_run" ELSE "planned"]
       \/ /\ execs' = [execs EXCEPT ![e].phase = "threw"]
          /\ UNCHANGED planStatus
    /\ UNCHANGED <<files, records, events, reported>>

\* Mutant: only a file that exists is backed up.
BackupExisting(e) ==
    /\ execs[e].phase = "stepping"
    /\ HasStep(e)
    /\ execs' = [execs EXCEPT
           ![e].phase = "applying",
           ![e].backups = IF Rollbackable(Step(e)) /\ files[Step(e).target].exists
                          THEN Append(@, [target |-> Step(e).target, file |-> files[Step(e).target]])
                          ELSE @]
    /\ UNCHANGED <<files, tables>>

\* BackupStore.backup: a missing file is recorded as missing.
Backup(e) ==
    /\ execs[e].phase = "stepping"
    /\ HasStep(e)
    /\ execs' = [execs EXCEPT
           ![e].phase = "applying",
           ![e].backups = IF Rollbackable(Step(e))
                          THEN Append(@, [target |-> Step(e).target, file |-> files[Step(e).target]])
                          ELSE @]
    /\ UNCHANGED <<files, tables>>

NextStep(e) == [execs EXCEPT ![e].phase = "stepping", ![e].next = @ + 1]

\* The actions that change their target in one call.
Apply(e) ==
    /\ execs[e].phase = "applying"
    /\ Step(e).action \notin AtomicWrites
    /\ Step(e).action = "symlink" => ~files[Step(e).target].exists
    /\ files' = [files EXCEPT ![Step(e).target] = Effect(Step(e), @)]
    /\ execs' = NextStep(e)
    /\ UNCHANGED tables

\* atomicWrite: the new content is made from the old one and written to a
\* temporary file; the target is removed; the temporary file gets its name.
Draft(e) ==
    /\ execs[e].phase = "applying"
    /\ Step(e).action \in AtomicWrites
    /\ execs' = [execs EXCEPT ![e].phase = "drafted",
                              ![e].draft = Effect(Step(e), files[Step(e).target])]
    /\ UNCHANGED <<files, tables>>

RemoveTarget(e) ==
    /\ execs[e].phase = "drafted"
    /\ files' = [files EXCEPT ![Step(e).target] = Missing]
    /\ execs' = [execs EXCEPT ![e].phase = "removed"]
    /\ UNCHANGED tables

Rename(e) ==
    /\ execs[e].phase = "removed"
    /\ files' = [files EXCEPT ![Step(e).target] = execs[e].draft]
    /\ execs' = [NextStep(e) EXCEPT ![e].draft = Missing]
    /\ UNCHANGED tables

\* Mutant: a step that fails is left out.
SkipFailedStep(e) ==
    /\ execs[e].phase \in Stepping
    /\ HasStep(e)
    /\ execs' = NextStep(e)
    /\ UNCHANGED <<files, tables>>

\* Anything that throws in the loop: a backup, a hash, a step, which may have
\* done a part of its work.
StepFails(e) ==
    /\ execs[e].phase \in Stepping
    /\ HasStep(e)
    /\ \/ UNCHANGED files
       \/ /\ execs[e].phase = "applying"
          /\ Step(e).action \notin AtomicWrites
          /\ \E left \in Between(files[Step(e).target], Effect(Step(e), files[Step(e).target])) :
                files' = [files EXCEPT ![Step(e).target] = left]
    /\ execs' = [execs EXCEPT ![e].phase = "rolling", ![e].verdict = "rolled_back",
                              ![e].draft = Missing]
    /\ UNCHANGED tables

Succeed(e) ==
    /\ execs[e].phase = "stepping"
    /\ ~HasStep(e)
    /\ execs' = [execs EXCEPT ![e].phase = "reporting"]
    /\ UNCHANGED <<files, tables>>

-----------------------------------------------------------------------------
(* RollbackManager and BackupStore.restore                                 *)

LastBackup(e) == Last(execs[e].backups)

\* The target is removed; there is nothing to copy when it was missing before.
Clear(e) ==
    /\ execs[e].phase = "rolling"
    /\ execs[e].backups # <<>>
    /\ files' = [files EXCEPT ![LastBackup(e).target] = Missing]
    /\ execs' = IF LastBackup(e).file.exists
                THEN [execs EXCEPT ![e].phase = "restoring"]
                ELSE [execs EXCEPT ![e].backups = Front(@)]
    /\ UNCHANGED tables

CopyBack(e) ==
    /\ execs[e].phase = "restoring"
    /\ files' = [files EXCEPT ![LastBackup(e).target] = LastBackup(e).file]
    /\ execs' = [execs EXCEPT ![e].phase = "rolling", ![e].backups = Front(@)]
    /\ UNCHANGED tables

\* Mutant: a backup that cannot be put back is not counted.
RestoreFailsUncounted(e) ==
    /\ execs[e].phase \in Restoring
    /\ execs[e].backups # <<>>
    /\ execs' = [execs EXCEPT ![e].phase = "rolling", ![e].backups = Front(@)]
    /\ UNCHANGED <<files, tables>>

\* A backup that cannot be put back is counted, and the others are tried.
RestoreFails(e) ==
    /\ execs[e].phase \in Restoring
    /\ execs[e].backups # <<>>
    /\ \E left \in Between(files[LastBackup(e).target],
                           IF execs[e].phase = "rolling" THEN Missing ELSE LastBackup(e).file) :
          files' = [files EXCEPT ![LastBackup(e).target] = left]
    /\ execs' = [execs EXCEPT ![e].phase = "rolling", ![e].backups = Front(@),
                              ![e].verdict = "rollback_failed"]
    /\ UNCHANGED tables

RolledBack(e) ==
    /\ execs[e].phase = "rolling"
    /\ execs[e].backups = <<>>
    /\ execs' = [execs EXCEPT ![e].phase = "reporting"]
    /\ UNCHANGED <<files, tables>>

-----------------------------------------------------------------------------
(* What the call reports: persistRecord, updatePlanStatus, enqueueEvent     *)

\* The call ends; what it has told its caller remains.
End(e, phase) ==
    /\ execs' = [execs EXCEPT ![e] = [Idle EXCEPT !.phase = phase, !.plan = execs[e].plan,
                                                  !.verdict = execs[e].verdict]]
    /\ reported' = [reported EXCEPT ![e] = 0]

\* What each of the three statements does to its table.
Record(e) == records' = [records EXCEPT ![e] = @ \cup {execs[e].verdict}]

PlanRow(e) == planStatus' = [planStatus EXCEPT ![e] = execs[e].verdict]

Waiting(e) == {m \in events : m.key = KeyOf[e] /\ m.result = execs[e].verdict}

EventOf(e) == [key |-> KeyOf[e], result |-> execs[e].verdict, of |-> e]

\* The plan's row of a dry run has been written with its status.
PersistRecord(e) ==
    /\ execs[e].phase = "reporting" /\ reported[e] = 0
    /\ Record(e)
    /\ reported' = [reported EXCEPT ![e] = IF execs[e].verdict = "dry_run" THEN 2 ELSE 1]
    /\ UNCHANGED <<files, execs, planStatus, events>>

UpdatePlanStatus(e) ==
    /\ execs[e].phase = "reporting" /\ reported[e] = 1
    /\ PlanRow(e)
    /\ reported' = [reported EXCEPT ![e] = 2]
    /\ UNCHANGED <<files, execs, records, events>>

\* An event that waits under the same key is not written again: it is one of
\* an earlier execution, or of one that runs beside this.
EnqueueEvent(e) ==
    /\ execs[e].phase = "reporting" /\ reported[e] = 2
    /\ events' = IF Waiting(e) = {} THEN events \cup {EventOf(e)} ELSE events
    /\ End(e, "returned")
    /\ UNCHANGED <<files, planStatus, records>>

\* Mutant: a statement that throws is ignored.
StatementIgnored(e) ==
    /\ execs[e].phase = "reporting"
    /\ IF reported[e] = 2
       THEN End(e, "returned")
       ELSE /\ reported' = [reported EXCEPT ![e] = @ + 1]
            /\ UNCHANGED execs
    /\ UNCHANGED <<files, planStatus, records, events>>

\* A statement throws, before its change or when the file is written after it.
\* The reports of a success are in the try block: what was done is undone.
StatementFails(e) ==
    /\ execs[e].phase = "reporting"
    /\ reported[e] = 2 => Waiting(e) = {}
    /\ \/ UNCHANGED <<planStatus, records, events>>
       \/ reported[e] = 0 /\ Record(e) /\ UNCHANGED <<planStatus, events>>
       \/ reported[e] = 1 /\ PlanRow(e) /\ UNCHANGED <<records, events>>
       \/ reported[e] = 2 /\ events' = events \cup {EventOf(e)} /\ UNCHANGED <<planStatus, records>>
    /\ IF execs[e].verdict = "success"
       THEN /\ execs' = [execs EXCEPT ![e].phase = "rolling", ![e].verdict = "rolled_back"]
            /\ reported' = [reported EXCEPT ![e] = 0]
       ELSE End(e, "threw")
    /\ UNCHANGED files

-----------------------------------------------------------------------------
(* The synchronisation (LocalEventSync) takes a row out of the queue.      *)

Synced(m) ==
    /\ events' = events \ {m}
    /\ UNCHANGED <<files, execs, planStatus, records, reported>>

-----------------------------------------------------------------------------

\* What one execution does after its start.
Proceed(e) ==
    \/ Backup(e) \/ Apply(e) \/ Draft(e) \/ RemoveTarget(e) \/ Rename(e) \/ StepFails(e)
    \/ Succeed(e)
    \/ Clear(e) \/ CopyBack(e) \/ RestoreFails(e) \/ RolledBack(e)
    \/ PersistRecord(e) \/ UpdatePlanStatus(e) \/ EnqueueEvent(e) \/ StatementFails(e)

Next ==
    \/ \E e \in Executions :
          \/ \E plan \in Plans[e], dryRun \in BOOLEAN : Start(e, plan, dryRun)
          \/ Proceed(e)
    \/ \E m \in events : Synced(m)

Spec == Init /\ [][Next]_vars

-----------------------------------------------------------------------------
(* Properties                                                              *)

\* The targets of a plan that a rollback answers for.
Reversible(plan) ==
    TargetsOf(plan) \ {plan[i].target : i \in {j \in DOMAIN plan : ~Rollbackable(plan[j])}}

\* While an execution has its targets for itself, whatever it has changed can
\* still be put back: the oldest backup of a changed file is the file as it was
\* before, through every failure of a step, of a statement or of the rollback.
OriginalIsKept ==
    \A e \in Executions :
        LET x == execs[e] IN
        x.phase \in Running /\ x.alone /\ x.verdict # "rollback_failed" =>
            \A t \in Reversible(x.plan) :
                \/ files[t] = x.before[t]
                \/ \E i \in DOMAIN x.backups :
                      /\ x.backups[i] = [target |-> t, file |-> x.before[t]]
                      /\ \A j \in 1..(i - 1) : x.backups[j].target # t

Ends(e) == execs[e].phase \in Running /\ execs'[e].phase \in Ended

\* execute ends without a success, and without saying that the rollback failed,
\* only when its plan has changed nothing, whether it returns or throws.
FailureChangesNothing ==
    [][\A e \in Executions :
          Ends(e) /\ execs[e].alone /\ execs[e].verdict \in {"dry_run", "rolled_back"} =>
              \A t \in Reversible(execs[e].plan) : files[t] = execs[e].before[t]]_vars

\* The files after a whole plan.
Outcome(plan, before) ==
    FoldLeft(LAMBDA fs, step : [fs EXCEPT ![step.target] = Effect(step, @)], before, plan)

\* execute ends with a success only when every step of the plan has taken
\* effect, in the order of the plan.
SuccessIsTheWholePlan ==
    [][\A e \in Executions :
          Ends(e) /\ execs[e].alone /\ execs[e].verdict = "success" =>
              \A t \in TargetsOf(execs[e].plan) :
                  files[t] = Outcome(execs[e].plan, execs[e].before)[t]]_vars

\* What execute returns is what its tables say, also when statements of it have
\* failed: there is a record of the verdict, the plan's row has
\* it as its status, and an event of the same key and verdict waits for the
\* synchronisation.  The event may be that of another execution of the key; then
\* that one has a record of the verdict.
ReturnedIsReported ==
    [][\A e \in Executions :
          Ends(e) /\ execs'[e].phase = "returned" =>
              LET verdict == execs'[e].verdict IN
              /\ verdict \in records'[e]
              /\ planStatus'[e] = verdict
              /\ \E m \in events' :
                    m.key = KeyOf[e] /\ m.result = verdict /\ verdict \in records'[m.of]]_vars

\* 8.12: an uninstall takes out the managed entry it names and nothing else.
\* An entry that a successful plan has written is there, unless another plan
\* names the same entry or replaces the file, or a rollback reports its failure.
OtherEntriesStay ==
    (\A e \in Executions :
        execs[e].phase \notin Running /\ execs[e].verdict # "rollback_failed") =>
        \A e \in Executions : execs[e].phase = "returned" /\ execs[e].verdict = "success" =>
            \A i \in DOMAIN execs[e].plan :
                LET step == execs[e].plan[i] IN
                step.action = "json-upsert"
                /\ (\A d \in Executions \ {e} : \A j \in DOMAIN execs[d].plan :
                        execs[d].plan[j].target = step.target =>
                            /\ execs[d].plan[j].action \in {"json-upsert", "json-remove"}
                            /\ execs[d].plan[j].entry # step.entry)
                => step.entry \in files[step.target].entries
=============================================================================
