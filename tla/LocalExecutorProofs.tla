-------------------------- MODULE LocalExecutorProofs --------------------------
(***************************************************************************)
(* What the executor can always put back, for any number of executions,    *)
(* plans of any length and files of any content.                           *)
(***************************************************************************)
EXTENDS LocalExecutor, FiniteFolds, TLAPS

Backups == [target : Targets, file : Files]

\* A backup of t has been taken, and the oldest one holds the file f.
Backed(backups, t) == \E i \in DOMAIN backups : backups[i].target = t
HasOriginal(backups, t, f) ==
    \E i \in DOMAIN backups :
        /\ backups[i] = [target |-> t, file |-> f]
        /\ \A j \in 1..(i - 1) : backups[j].target # t

------------------------------------------------------------------------------
(* Backups                                                                 *)

Taken(backups, t, f) == Append(backups, [target |-> t, file |-> f])

\* Another backup hides no older one, and the first of a target is its oldest.
LEMMA AppendBackup ==
    ASSUME NEW backups \in Seq(Backups), NEW u \in Targets, NEW f \in Files
    PROVE  /\ Taken(backups, u, f) \in Seq(Backups)
           /\ Backed(Taken(backups, u, f), u)
           /\ \A t : Backed(Taken(backups, u, f), t) <=> Backed(backups, t) \/ t = u
           /\ \A t, g : HasOriginal(backups, t, g) => HasOriginal(Taken(backups, u, f), t, g)
           /\ ~Backed(backups, u) => HasOriginal(Taken(backups, u, f), u, f)
<1> DEFINE new == [target |-> u, file |-> f]
           b == Taken(backups, u, f)
           n == Len(backups)
<1>1. new \in Backups /\ new.target = u
  BY DEF Backups
<1>2. b \in Seq(Backups) /\ Len(b) = n + 1 /\ b[n + 1] = new /\ n \in Nat
  BY <1>1 DEF Taken
<1>3. \A i \in 1..n : b[i] = backups[i]
  BY <1>1 DEF Taken
<1>4. DOMAIN b = 1..(n + 1) /\ DOMAIN backups = 1..n
  BY <1>2
<1> HIDE DEF new, b, n
<1>5. Backed(b, u)
  BY <1>1, <1>2, <1>4 DEF Backed
<1>6. \A t : Backed(b, t) <=> Backed(backups, t) \/ t = u
  BY <1>1, <1>2, <1>3, <1>4 DEF Backed
<1>7. ASSUME NEW t, NEW g, HasOriginal(backups, t, g) PROVE HasOriginal(b, t, g)
  <2>1. PICK i \in 1..n : /\ backups[i] = [target |-> t, file |-> g]
                          /\ \A j \in 1..(i - 1) : backups[j].target # t
    BY <1>4, <1>7 DEF HasOriginal
  <2>2. \A j \in 1..(i - 1) : j \in 1..n
    BY <1>2
  <2> QED
    BY <1>2, <1>3, <1>4, <2>1, <2>2 DEF HasOriginal
<1>8. ~Backed(backups, u) => HasOriginal(b, u, f)
  <2>1. ASSUME ~Backed(backups, u) PROVE \A j \in 1..n : b[j].target # u
    BY <1>3, <1>4, <2>1 DEF Backed
  <2>2. n + 1 \in DOMAIN b /\ (n + 1) - 1 = n
    BY <1>2, <1>4
  <2> QED
    BY <1>2, <2>1, <2>2 DEF HasOriginal, new
<1> QED
  BY <1>2, <1>5, <1>6, <1>7, <1>8 DEF b

\* Without the newest backup the older ones remain; the only one of a target was the oldest.
LEMMA FrontBackups ==
    ASSUME NEW backups \in Seq(Backups), backups # <<>>
    PROVE  /\ Front(backups) \in Seq(Backups)
           /\ Last(backups) \in Backups
           /\ Backed(backups, Last(backups).target)
           /\ \A t : Backed(backups, t) <=> Backed(Front(backups), t) \/ t = Last(backups).target
           /\ \A t, g : HasOriginal(backups, t, g) =>
                  IF Backed(Front(backups), t) THEN HasOriginal(Front(backups), t, g)
                  ELSE Last(backups).target = t /\ Last(backups).file = g
<1> DEFINE n == Len(backups)
           b == Front(backups)
<1>1. n \in Nat \ {0} /\ DOMAIN backups = 1..n /\ Last(backups) = backups[n] /\ backups[n] \in Backups
  BY DEF Last
<1>2. b \in Seq(Backups) /\ Len(b) = n - 1 /\ DOMAIN b = 1..(n - 1)
  BY <1>1 DEF Front
<1>3. \A i \in 1..(n - 1) : b[i] = backups[i]
  BY <1>1 DEF Front
<1> HIDE DEF n, b
<1>4. \A i \in 1..n : i \in 1..(n - 1) \/ i = n
  BY <1>1
<1>5. \A i \in 1..(n - 1) : i \in 1..n
  BY <1>1
<1>6. \A t : Backed(backups, t) <=> Backed(b, t) \/ t = backups[n].target
  BY <1>1, <1>2, <1>3, <1>4, <1>5 DEF Backed
<1>7. ASSUME NEW t, NEW g, HasOriginal(backups, t, g)
      PROVE  IF Backed(b, t) THEN HasOriginal(b, t, g)
             ELSE backups[n].target = t /\ backups[n].file = g
  <2>1. PICK i \in 1..n : /\ backups[i] = [target |-> t, file |-> g]
                          /\ \A j \in 1..(i - 1) : backups[j].target # t
    BY <1>1, <1>7 DEF HasOriginal
  <2>2. CASE Backed(b, t)
    <3>1. PICK k \in 1..(n - 1) : backups[k].target = t
      BY <1>2, <1>3, <2>2 DEF Backed
    <3>2. i \in 1..(n - 1)
      BY <1>1, <2>1, <3>1
    <3>3. \A j \in 1..(i - 1) : j \in 1..(n - 1)
      BY <1>1, <3>2
    <3> QED
      BY <1>2, <1>3, <2>1, <2>2, <3>2, <3>3 DEF HasOriginal
  <2>3. CASE ~Backed(b, t)
    <3>1. i \notin 1..(n - 1)
      BY <1>2, <1>3, <2>1, <2>3 DEF Backed
    <3> QED
      BY <1>4, <2>1, <2>3, <3>1
  <2> QED
    BY <2>2, <2>3
<1> QED
  BY <1>1, <1>2, <1>6, <1>7 DEF b

------------------------------------------------------------------------------
(* What a step leaves is a file                                            *)

LEMMA FileShape ==
    ASSUME NEW file \in Files
    PROVE  file.entries \in SUBSET Entries /\ (file.exists \/ file = Missing)
<1>1. CASE file = Missing
  BY <1>1 DEF Missing
<1>2. CASE file \in [exists : {TRUE}, entries : SUBSET Entries]
  BY <1>2
<1> QED
  BY <1>1, <1>2 DEF Files

LEMMA EffectIsFile ==
    ASSUME NEW step \in PlanSteps, NEW file \in Files PROVE Effect(step, file) \in Files
<1>1. file.entries \in SUBSET Entries
  BY FileShape
<1>2. \A entries \in SUBSET Entries : File(entries) \in Files
  BY DEF File, Files
<1>3. Missing \in Files
  BY DEF Files
<1>4. step.entry \in Entries /\ step.action \in Actions
  BY DEF PlanSteps
<1>5. /\ File(file.entries) \in Files /\ File({step.entry}) \in Files
      /\ File(file.entries \cup {step.entry}) \in Files
      /\ File(file.entries \ {step.entry}) \in Files
  BY <1>1, <1>2, <1>4
<1> QED
  BY <1>3, <1>4, <1>5 DEF Effect, Actions, AtomicWrites, Irreversible

LEMMA BetweenIsFile ==
    ASSUME NEW old \in Files, NEW new \in Files, NEW left \in Between(old, new) PROVE left \in Files
<1>1. old.entries \in SUBSET Entries /\ new.entries \in SUBSET Entries
  BY FileShape
<1>2. \A entries \in SUBSET Entries : File(entries) \in Files
  BY DEF File, Files
<1>3. \A entries \in SUBSET (old.entries \cup new.entries) : entries \in SUBSET Entries
  BY <1>1
<1> QED
  BY <1>2, <1>3 DEF Between

------------------------------------------------------------------------------
(* The invariant                                                           *)

\* What an execution that has its targets for itself owes each of them: it is as it was, or
\* a backup of it has been taken, and then the oldest one is the file as it was.
Owes(x, fs) ==
    x.phase \in Running /\ x.alone /\ x.verdict # "rollback_failed" =>
        \A t \in Reversible(x.plan) :
            /\ fs[t] = x.before[t] \/ Backed(x.backups, t)
            /\ Backed(x.backups, t) => HasOriginal(x.backups, t, x.before[t])

\* What goes with the phase of an execution.
Shape(x) ==
    /\ x.phase \in {"applying", "drafted", "removed"} =>
           /\ x.next \in DOMAIN x.plan
           /\ Rollbackable(x.plan[x.next]) => Backed(x.backups, x.plan[x.next].target)
    /\ x.phase \in Stepping => x.verdict = "success"
    /\ x.phase \in Restoring => x.verdict \in {"rolled_back", "rollback_failed"}
    /\ x.phase = "reporting" => x.verdict # "none" /\ (x.verdict # "success" => x.backups = <<>>)
    /\ x.phase = "restoring" => x.backups # <<>>
    /\ \A t : Backed(x.backups, t) => t \in TargetsOf(x.plan)

\* An execution that is alone shares no target with another that runs.
Apart ==
    \A d, e \in Executions :
        d # e /\ execs[d].phase \in Running /\ execs[e].phase \in Running /\ execs[e].alone
            => ~Overlap(execs[e].plan, execs[d].plan)

\* What the statements of an execution have left by the time of the next one, and that an
\* event that waits is of an execution with a record of its verdict.
Told(e) ==
    /\ reported[e] # 0 => execs[e].phase = "reporting" /\ execs[e].verdict \in records[e]
    /\ execs[e].phase = "reporting" /\ (reported[e] = 2 \/ execs[e].verdict = "dry_run") =>
           planStatus[e] = execs[e].verdict

EventsRecorded == \A m \in events : m.result \in records[m.of]

ExecutorInv ==
    /\ TypeOK
    /\ \A e \in Executions : Shape(execs[e]) /\ Owes(execs[e], files)
    /\ Apart
    /\ \A e \in Executions : Told(e)
    /\ EventsRecorded

LEMMA PlanTargets ==
    ASSUME NEW plan \in Seq(PlanSteps)
    PROVE  TargetsOf(plan) \subseteq Targets /\ Reversible(plan) \subseteq TargetsOf(plan)
<1>1. \A i \in DOMAIN plan : plan[i] \in PlanSteps
  OBVIOUS
<1> QED
  BY <1>1 DEF TargetsOf, PlanSteps, Reversible

EventRows == [key : Keys, result : Verdicts, of : Executions]

\* The rows of the other executions stay as they are, and so do the records; a new event has
\* a record of its execution, which is not in the middle of its reports afterwards.
OwnRows(e) ==
    /\ planStatus' \in [Executions -> Verdicts \cup {"none", "planned"}]
    /\ records' \in [Executions -> SUBSET Verdicts]
    /\ events' \subseteq EventRows
    /\ reported' \in [Executions -> 0..2] /\ reported'[e] = 0
    /\ \A d \in Executions \ {e} :
           planStatus'[d] = planStatus[d] /\ reported'[d] = reported[d] /\ records'[d] = records[d]
    /\ records[e] \subseteq records'[e]
    /\ \A m \in events' \ events : m.of = e /\ m.result \in records[e]

LEMMA SameRows ==
    ASSUME ExecutorInv, UNCHANGED tables, NEW e \in Executions, execs[e].phase # "reporting"
    PROVE  OwnRows(e)
BY DEF ExecutorInv, TypeOK, Told, tables, OwnRows, EventRows

\* The events that wait have records, and the other executions have reported what they had.
LEMMA OwnRowsTold ==
    ASSUME ExecutorInv, NEW e \in Executions, OwnRows(e),
           \A d \in Executions \ {e} : execs'[d] = execs[d],
           execs'[e].phase = "reporting" => execs'[e].verdict # "dry_run"
    PROVE  /\ \A d \in Executions : Told(d)'
           /\ EventsRecorded'
<1>1. \A d \in Executions \ {e} : Told(d)'
  BY DEF ExecutorInv, Told, OwnRows
<1>2. Told(e)'
  BY DEF OwnRows, Told
<1>3. ASSUME NEW m \in events' PROVE m.result \in records'[m.of]
  <2>1. m.of \in Executions
    BY DEF OwnRows, EventRows
  <2>2. m.result \in records[m.of]
    BY DEF OwnRows, ExecutorInv, EventsRecorded
  <2> QED
    BY <2>1, <2>2 DEF OwnRows
<1> QED
  BY <1>1, <1>2, <1>3 DEF EventsRecorded

\* One execution goes on, within its plan: it changes files of its own targets only.
LEMMA OwnStep ==
    ASSUME ExecutorInv, NEW e \in Executions, NEW x \in ExecutionStates,
           execs' = [execs EXCEPT ![e] = x],
           execs[e].phase \in Running, x.phase \in Running, x.plan = execs[e].plan, x.alone = execs[e].alone,
           Shape(x), Owes(x, files'),
           files' \in [Targets -> Files],
           \A t \in Targets : files'[t] = files[t] \/ t \in TargetsOf(x.plan),
           OwnRows(e), x.verdict # "dry_run"
    PROVE  ExecutorInv'
<1>1. \A d \in Executions : execs'[d] = IF d = e THEN x ELSE execs[d]
  BY DEF ExecutorInv, TypeOK
<1>2. TypeOK'
  BY <1>1 DEF ExecutorInv, TypeOK, OwnRows, EventRows, Shape, Stepping
<1>3. \A d \in Executions : Shape(execs'[d])
  BY <1>1 DEF ExecutorInv
<1>4. ASSUME NEW d \in Executions PROVE Owes(execs'[d], files')
  <2>1. CASE d = e
    BY <1>1, <2>1
  <2>2. CASE d # e /\ execs[d].phase \in Running /\ execs[d].alone
    <3>1. \A t \in Reversible(execs[d].plan) : t \in TargetsOf(execs[d].plan)
      BY DEF Reversible
    <3>2. \A t \in TargetsOf(execs[d].plan) : t \notin TargetsOf(x.plan)
      BY <2>2 DEF ExecutorInv, Apart, Overlap
    <3>3. TargetsOf(execs[d].plan) \subseteq Targets
      BY PlanTargets DEF ExecutorInv, TypeOK, ExecutionStates
    <3>4. \A t \in Reversible(execs[d].plan) : files'[t] = files[t]
      BY <3>1, <3>2, <3>3
    <3> QED
      BY <1>1, <2>2, <3>4 DEF ExecutorInv, Owes
  <2>3. CASE d # e /\ ~(execs[d].phase \in Running /\ execs[d].alone)
    BY <1>1, <2>3 DEF Owes
  <2> QED
    BY <2>1, <2>2, <2>3
<1>5. Apart'
  BY <1>1 DEF ExecutorInv, Apart
<1>6. (\A d \in Executions : Told(d)') /\ EventsRecorded'
  BY <1>1, OwnRowsTold
<1> QED
  BY <1>2, <1>3, <1>4, <1>5, <1>6 DEF ExecutorInv

\* The execution still owes what it owed, when it changes only what a backup has been taken of.
LEMMA KeptOwes ==
    ASSUME NEW x0, NEW x, NEW fs, NEW gs, Owes(x0, fs), x0.phase \in Running,
           x.plan = x0.plan, x.before = x0.before, x.alone = x0.alone, x.backups = x0.backups,
           x.verdict # "rollback_failed" => x0.verdict # "rollback_failed",
           \A t \in Reversible(x0.plan) : gs[t] = fs[t] \/ Backed(x0.backups, t)
    PROVE  Owes(x, gs)
BY DEF Owes

\* The step under way changes its target, of which a backup has been taken if it can be undone.
LEMMA StepTouches ==
    ASSUME ExecutorInv, NEW e \in Executions, execs[e].phase \in {"applying", "drafted", "removed"},
           NEW f \in Files, files' = [files EXCEPT ![Step(e).target] = f]
    PROVE  /\ Step(e) \in PlanSteps /\ Step(e).target \in Targets
           /\ files' \in [Targets -> Files]
           /\ \A t \in Targets : files'[t] = files[t] \/ t \in TargetsOf(execs[e].plan)
           /\ \A t \in Reversible(execs[e].plan) : files'[t] = files[t] \/ Backed(execs[e].backups, t)
<1> DEFINE plan == execs[e].plan
           n == execs[e].next
<1>1. plan \in Seq(PlanSteps) /\ n \in DOMAIN plan
  BY DEF ExecutorInv, TypeOK, ExecutionStates, Shape
<1>2. Step(e) = plan[n] /\ Step(e) \in PlanSteps
  BY <1>1 DEF Step
<1>3. Step(e).target \in Targets /\ Step(e).target \in TargetsOf(plan)
  BY <1>1, <1>2 DEF PlanSteps, TargetsOf
<1>4. \A t \in Targets : t # Step(e).target => files'[t] = files[t]
  BY DEF ExecutorInv, TypeOK
<1>5. Step(e).target \in Reversible(plan) => Rollbackable(plan[n])
  BY <1>1, <1>2 DEF Reversible
<1>6. Rollbackable(plan[n]) => Backed(execs[e].backups, Step(e).target)
  BY <1>2 DEF ExecutorInv, Shape
<1>7. Reversible(plan) \subseteq Targets
  BY <1>1, PlanTargets
<1>8. files' \in [Targets -> Files]
  BY <1>3 DEF ExecutorInv, TypeOK
<1> QED
  BY <1>2, <1>3, <1>4, <1>5, <1>6, <1>7, <1>8

\* A backup has been put back: its target is as the backup says.
LEMMA PoppedOwes ==
    ASSUME NEW x0 \in ExecutionStates, NEW x, NEW fs, NEW gs, Owes(x0, fs), x0.phase \in Running,
           x0.backups # <<>>,
           x.plan = x0.plan, x.before = x0.before, x.alone = x0.alone, x.verdict = x0.verdict,
           x.backups = Front(x0.backups),
           gs[Last(x0.backups).target] = Last(x0.backups).file,
           \A t \in Targets : t # Last(x0.backups).target => gs[t] = fs[t]
    PROVE  Owes(x, gs)
<1> SUFFICES ASSUME x.alone, x.verdict # "rollback_failed", NEW t \in Reversible(x0.plan)
             PROVE  /\ gs[t] = x0.before[t] \/ Backed(Front(x0.backups), t)
                    /\ Backed(Front(x0.backups), t) => HasOriginal(Front(x0.backups), t, x0.before[t])
  BY DEF Owes
<1>1. /\ fs[t] = x0.before[t] \/ Backed(x0.backups, t)
      /\ Backed(x0.backups, t) => HasOriginal(x0.backups, t, x0.before[t])
  BY DEF Owes
<1>2. t \in Targets /\ x0.backups \in Seq(Backups)
  BY PlanTargets DEF ExecutionStates, Backups
<1>3. CASE Backed(x0.backups, t)
  BY <1>1, <1>2, <1>3, FrontBackups
<1>4. CASE ~Backed(x0.backups, t)
  BY <1>1, <1>2, <1>4, FrontBackups
<1> QED
  BY <1>3, <1>4

------------------------------------------------------------------------------
(* The steps                                                               *)

\* What every proof below begins with.
LEMMA Typed ==
    ASSUME ExecutorInv, NEW e \in Executions
    PROVE  /\ execs[e] \in ExecutionStates /\ Shape(execs[e]) /\ Owes(execs[e], files)
           /\ execs[e].plan \in Seq(PlanSteps) /\ execs[e].next \in Nat \ {0}
           /\ execs[e].backups \in Seq(Backups)
           /\ files \in [Targets -> Files]
           /\ HasStep(e) => Step(e) \in PlanSteps /\ Step(e).target \in Targets
                            /\ Step(e).target \in TargetsOf(execs[e].plan)
<1>1. execs[e] \in ExecutionStates /\ files \in [Targets -> Files]
  BY DEF ExecutorInv, TypeOK
<1>2. execs[e].plan \in Seq(PlanSteps) /\ execs[e].next \in Nat \ {0} /\ execs[e].backups \in Seq(Backups)
  BY <1>1 DEF ExecutionStates, Backups
<1>3. HasStep(e) => Step(e) \in PlanSteps
  BY <1>2 DEF HasStep, Step
<1>4. HasStep(e) => Step(e).target \in Targets /\ Step(e).target \in TargetsOf(execs[e].plan)
  BY <1>3 DEF PlanSteps, TargetsOf, HasStep, Step
<1> QED
  BY <1>1, <1>2, <1>3, <1>4 DEF ExecutorInv

LEMMA BackupStep == ASSUME ExecutorInv, NEW e \in Executions, Backup(e) PROVE ExecutorInv'
<1> DEFINE x0 == execs[e]
           u == Step(e).target
           b == IF Rollbackable(Step(e)) THEN Taken(x0.backups, u, files[u])
                ELSE x0.backups
           x == [x0 EXCEPT !.phase = "applying", !.backups = b]
<1>1. /\ x0 \in ExecutionStates /\ Shape(x0) /\ Owes(x0, files) /\ x0.backups \in Seq(Backups)
      /\ x0.phase = "stepping" /\ x0.next \in DOMAIN x0.plan /\ Step(e) = x0.plan[x0.next]
      /\ u \in Targets /\ u \in TargetsOf(x0.plan) /\ files[u] \in Files
      /\ x0.plan \in Seq(PlanSteps)
  BY Typed DEF Backup, HasStep, Step
<1>2. /\ b \in Seq(Backups)
      /\ Rollbackable(Step(e)) => Backed(b, u)
      /\ \A t : Backed(b, t) => Backed(x0.backups, t) \/ t = u
      /\ \A t : Backed(x0.backups, t) => Backed(b, t)
      /\ \A t, g : HasOriginal(x0.backups, t, g) => HasOriginal(b, t, g)
      /\ Backed(b, u) => Backed(x0.backups, u) \/ HasOriginal(b, u, files[u])
  <2>1. CASE Rollbackable(Step(e))
    BY <1>1, <2>1, AppendBackup
  <2>2. CASE ~Rollbackable(Step(e))
    BY <1>1, <2>2
  <2> QED
    BY <2>1, <2>2
<1>3. execs' = [execs EXCEPT ![e] = x]
  BY DEF Backup, Taken
<1> HIDE DEF b
<1>4. x \in ExecutionStates
  BY <1>1, <1>2 DEF ExecutionStates, Backups, Phases, Running, Stepping
<1>5. /\ x.phase = "applying" /\ x.backups = b /\ x.plan = x0.plan /\ x.next = x0.next
      /\ x.alone = x0.alone /\ x.before = x0.before /\ x.verdict = x0.verdict
  BY <1>1 DEF ExecutionStates
<1> HIDE DEF x
<1>6. Shape(x)
  BY <1>1, <1>2, <1>5 DEF Shape, Stepping, Restoring
<1>7. Owes(x, files)
  <2> SUFFICES ASSUME x.alone, x.verdict # "rollback_failed", NEW t \in Reversible(x0.plan)
               PROVE  /\ files[t] = x0.before[t] \/ Backed(b, t)
                      /\ Backed(b, t) => HasOriginal(b, t, x0.before[t])
    BY <1>5 DEF Owes
  <2>1. /\ files[t] = x0.before[t] \/ Backed(x0.backups, t)
        /\ Backed(x0.backups, t) => HasOriginal(x0.backups, t, x0.before[t])
    BY <1>1, <1>5 DEF Owes, Running, Stepping
  <2> QED
    BY <1>2, <2>1
<1>8. files' = files /\ files' \in [Targets -> Files] /\ OwnRows(e)
  BY <1>1, SameRows, Typed DEF Backup, Stepping
<1>9. x0.phase \in Running /\ x.phase \in Running
  BY <1>1, <1>5 DEF Running, Stepping
<1>10. x.verdict # "dry_run"
  BY <1>1, <1>5 DEF Shape, Stepping
<1> QED
  BY <1>3, <1>4, <1>5, <1>6, <1>7, <1>8, <1>9, <1>10, OwnStep

\* A step goes on to another phase of a plan, with the same backups.
LEMMA GoesOn ==
    ASSUME ExecutorInv, NEW e \in Executions, NEW x \in ExecutionStates,
           execs' = [execs EXCEPT ![e] = x],
           x.plan = execs[e].plan, x.before = execs[e].before, x.alone = execs[e].alone,
           x.backups = execs[e].backups,
           execs[e].phase \in Running \ Restoring, x.phase \in Running, Shape(x),
           execs[e].verdict # "rollback_failed",
           \/ UNCHANGED files
           \/ /\ execs[e].phase \in {"applying", "drafted", "removed"}
              /\ \E f \in Files : files' = [files EXCEPT ![Step(e).target] = f],
           OwnRows(e), x.verdict # "dry_run"
    PROVE  ExecutorInv'
<1>1. /\ files' \in [Targets -> Files]
      /\ \A t \in Targets : files'[t] = files[t] \/ t \in TargetsOf(execs[e].plan)
      /\ \A t \in Reversible(execs[e].plan) : files'[t] = files[t] \/ Backed(execs[e].backups, t)
  BY StepTouches, Typed
<1>2. Owes(x, files')
  BY <1>1, KeptOwes, Typed
<1> QED
  BY <1>1, <1>2, OwnStep

LEMMA ApplyStep == ASSUME ExecutorInv, NEW e \in Executions, Apply(e) PROVE ExecutorInv'
<1> DEFINE x0 == execs[e]
           x == [x0 EXCEPT !.phase = "stepping", !.next = @ + 1]
<1>1. x0 \in ExecutionStates /\ Shape(x0) /\ x0.phase = "applying" /\ HasStep(e)
  BY Typed DEF Apply, Shape, HasStep
<1>2. x \in ExecutionStates
  <2>1. x0.next + 1 \in Nat \ {0}
    BY <1>1 DEF ExecutionStates
  <2> QED
    BY <1>1, <2>1 DEF ExecutionStates, Phases, Running, Stepping
<1>3. /\ x.phase = "stepping" /\ x.backups = x0.backups /\ x.plan = x0.plan
      /\ x.alone = x0.alone /\ x.before = x0.before /\ x.verdict = x0.verdict
  BY <1>1 DEF ExecutionStates
<1>4. execs' = [execs EXCEPT ![e] = x]
  BY DEF Apply, NextStep
<1> HIDE DEF x
<1>5. Shape(x) /\ x0.verdict = "success"
  BY <1>1, <1>3 DEF Shape, Stepping, Restoring
<1>6. \E f \in Files : files' = [files EXCEPT ![Step(e).target] = f]
  <2>1. Step(e) \in PlanSteps /\ files[Step(e).target] \in Files
    BY <1>1, Typed
  <2>2. Effect(Step(e), files[Step(e).target]) \in Files
    BY <2>1, EffectIsFile
  <2> QED
    BY <2>2 DEF Apply
<1>7. OwnRows(e)
  BY <1>1, SameRows DEF Apply, Stepping
<1> QED
  BY <1>1, <1>2, <1>3, <1>4, <1>5, <1>6, <1>7, GoesOn DEF Running, Stepping, Restoring

LEMMA DraftStep == ASSUME ExecutorInv, NEW e \in Executions, Draft(e) PROVE ExecutorInv'
<1> DEFINE x0 == execs[e]
           f == Effect(Step(e), files[Step(e).target])
           x == [x0 EXCEPT !.phase = "drafted", !.draft = f]
<1>1. x0 \in ExecutionStates /\ Shape(x0) /\ x0.phase = "applying" /\ HasStep(e)
  BY Typed DEF Draft, Shape, HasStep
<1>2. f \in Files
  BY <1>1, Typed, EffectIsFile
<1>3. execs' = [execs EXCEPT ![e] = x]
  BY DEF Draft
<1> HIDE DEF f
<1>4. x \in ExecutionStates
  BY <1>1, <1>2 DEF ExecutionStates, Phases, Running, Stepping
<1>5. /\ x.phase = "drafted" /\ x.backups = x0.backups /\ x.plan = x0.plan /\ x.next = x0.next
      /\ x.alone = x0.alone /\ x.before = x0.before /\ x.verdict = x0.verdict
  BY <1>1 DEF ExecutionStates
<1> HIDE DEF x
<1>6. Shape(x) /\ x0.verdict = "success"
  BY <1>1, <1>5 DEF Shape, Stepping, Restoring
<1>7. UNCHANGED files /\ OwnRows(e)
  BY <1>1, SameRows DEF Draft, Stepping
<1> QED
  BY <1>1, <1>3, <1>4, <1>5, <1>6, <1>7, GoesOn DEF Running, Stepping, Restoring

LEMMA RemoveStep == ASSUME ExecutorInv, NEW e \in Executions, RemoveTarget(e) PROVE ExecutorInv'
<1> DEFINE x0 == execs[e]
           x == [x0 EXCEPT !.phase = "removed"]
<1>1. x0 \in ExecutionStates /\ Shape(x0) /\ x0.phase = "drafted"
  BY Typed DEF RemoveTarget
<1>2. x \in ExecutionStates
  BY <1>1 DEF ExecutionStates, Phases, Running, Stepping
<1>3. /\ x.phase = "removed" /\ x.backups = x0.backups /\ x.plan = x0.plan /\ x.next = x0.next
      /\ x.alone = x0.alone /\ x.before = x0.before /\ x.verdict = x0.verdict
  BY <1>1 DEF ExecutionStates
<1>4. execs' = [execs EXCEPT ![e] = x]
  BY DEF RemoveTarget
<1> HIDE DEF x
<1>5. Shape(x) /\ x0.verdict = "success"
  BY <1>1, <1>3 DEF Shape, Stepping, Restoring
<1>6. \E f \in Files : files' = [files EXCEPT ![Step(e).target] = f]
  BY DEF RemoveTarget, Files
<1>7. OwnRows(e)
  BY <1>1, SameRows DEF RemoveTarget, Stepping
<1> QED
  BY <1>1, <1>2, <1>3, <1>4, <1>5, <1>6, <1>7, GoesOn DEF Running, Stepping, Restoring

LEMMA RenameStep == ASSUME ExecutorInv, NEW e \in Executions, Rename(e) PROVE ExecutorInv'
<1> DEFINE x0 == execs[e]
           x == [x0 EXCEPT !.phase = "stepping", !.next = @ + 1, !.draft = Missing]
<1>1. x0 \in ExecutionStates /\ Shape(x0) /\ x0.phase = "removed"
  BY Typed DEF Rename
<1>2. x \in ExecutionStates
  <2>1. x0.next + 1 \in Nat \ {0}
    BY <1>1 DEF ExecutionStates
  <2>2. Missing \in Files
    BY DEF Files
  <2> QED
    BY <1>1, <2>1, <2>2 DEF ExecutionStates, Phases, Running, Stepping
<1>3. /\ x.phase = "stepping" /\ x.backups = x0.backups /\ x.plan = x0.plan
      /\ x.alone = x0.alone /\ x.before = x0.before /\ x.verdict = x0.verdict
  BY <1>1 DEF ExecutionStates
<1>4. execs' = [execs EXCEPT ![e] = x]
  BY DEF Rename, NextStep, ExecutorInv, TypeOK
<1> HIDE DEF x
<1>5. Shape(x) /\ x0.verdict = "success"
  BY <1>1, <1>3 DEF Shape, Stepping, Restoring
<1>6. \E f \in Files : files' = [files EXCEPT ![Step(e).target] = f]
  BY <1>1 DEF Rename, ExecutionStates
<1>7. OwnRows(e)
  BY <1>1, SameRows DEF Rename, Stepping
<1> QED
  BY <1>1, <1>2, <1>3, <1>4, <1>5, <1>6, <1>7, GoesOn DEF Running, Stepping, Restoring

LEMMA FailStep == ASSUME ExecutorInv, NEW e \in Executions, StepFails(e) PROVE ExecutorInv'
<1> DEFINE x0 == execs[e]
           x == [x0 EXCEPT !.phase = "rolling", !.verdict = "rolled_back", !.draft = Missing]
<1>1. x0 \in ExecutionStates /\ Shape(x0) /\ x0.phase \in Stepping /\ HasStep(e)
  BY Typed DEF StepFails
<1>2. x \in ExecutionStates
  <2>1. Missing \in Files
    BY DEF Files
  <2> QED
    BY <1>1, <2>1 DEF ExecutionStates, Phases, Running, Restoring, Verdicts
<1>3. /\ x.phase = "rolling" /\ x.backups = x0.backups /\ x.plan = x0.plan
      /\ x.alone = x0.alone /\ x.before = x0.before /\ x.verdict = "rolled_back"
  BY <1>1 DEF ExecutionStates
<1>4. execs' = [execs EXCEPT ![e] = x]
  BY DEF StepFails
<1> HIDE DEF x
<1>5. Shape(x) /\ x0.verdict = "success"
  BY <1>1, <1>3 DEF Shape, Stepping, Restoring
<1>6. \/ UNCHANGED files
      \/ x0.phase = "applying" /\ \E f \in Files : files' = [files EXCEPT ![Step(e).target] = f]
  <2>1. Step(e) \in PlanSteps /\ files[Step(e).target] \in Files
    BY <1>1, Typed
  <2>2. Effect(Step(e), files[Step(e).target]) \in Files
    BY <2>1, EffectIsFile
  <2>3. Between(files[Step(e).target], Effect(Step(e), files[Step(e).target])) \subseteq Files
    BY <2>1, <2>2, BetweenIsFile
  <2> QED
    BY <2>3 DEF StepFails
<1>7. OwnRows(e)
  BY <1>1, SameRows DEF StepFails, Stepping
<1> QED
  BY <1>1, <1>2, <1>3, <1>4, <1>5, <1>6, <1>7, GoesOn DEF Running, Stepping, Restoring

LEMMA SucceedStep == ASSUME ExecutorInv, NEW e \in Executions, Succeed(e) PROVE ExecutorInv'
<1> DEFINE x0 == execs[e]
           x == [x0 EXCEPT !.phase = "reporting"]
<1>1. x0 \in ExecutionStates /\ Shape(x0) /\ x0.phase = "stepping"
  BY Typed DEF Succeed
<1>2. x \in ExecutionStates
  BY <1>1 DEF ExecutionStates, Phases, Running
<1>3. /\ x.phase = "reporting" /\ x.backups = x0.backups /\ x.plan = x0.plan
      /\ x.alone = x0.alone /\ x.before = x0.before /\ x.verdict = x0.verdict
  BY <1>1 DEF ExecutionStates
<1>4. execs' = [execs EXCEPT ![e] = x]
  BY DEF Succeed
<1> HIDE DEF x
<1>5. Shape(x) /\ x0.verdict = "success"
  BY <1>1, <1>3 DEF Shape, Stepping, Restoring
<1>6. UNCHANGED files /\ OwnRows(e)
  BY <1>1, SameRows DEF Succeed, Stepping
<1> QED
  BY <1>1, <1>2, <1>3, <1>4, <1>5, <1>6, GoesOn DEF Running, Stepping, Restoring

------------------------------------------------------------------------------
(* The rollback                                                            *)

\* A step of the rollback: it changes the target of the newest backup.
LEMMA RestoreTouches ==
    ASSUME ExecutorInv, NEW e \in Executions, execs[e].backups # <<>>,
           NEW f \in Files, files' = [files EXCEPT ![LastBackup(e).target] = f]
    PROVE  /\ LastBackup(e).file \in Files /\ LastBackup(e).target \in Targets
           /\ files' \in [Targets -> Files] /\ files'[LastBackup(e).target] = f
           /\ \A t \in Targets : t # LastBackup(e).target => files'[t] = files[t]
           /\ \A t \in Targets : files'[t] = files[t] \/ t \in TargetsOf(execs[e].plan)
           /\ \A t \in Reversible(execs[e].plan) : files'[t] = files[t] \/ Backed(execs[e].backups, t)
<1>1. LastBackup(e) \in Backups /\ Backed(execs[e].backups, LastBackup(e).target)
  BY Typed, FrontBackups DEF LastBackup
<1>2. LastBackup(e).file \in Files /\ LastBackup(e).target \in Targets
  BY <1>1 DEF Backups
<1>3. LastBackup(e).target \in TargetsOf(execs[e].plan)
  BY <1>1, Typed DEF Shape
<1>4. Reversible(execs[e].plan) \subseteq Targets
  BY Typed, PlanTargets
<1>5. files \in [Targets -> Files]
  BY Typed
<1>6. /\ files' \in [Targets -> Files] /\ files'[LastBackup(e).target] = f
      /\ \A t \in Targets : t # LastBackup(e).target => files'[t] = files[t]
  BY <1>2, <1>5
<1> QED
  BY <1>1, <1>2, <1>3, <1>4, <1>6

\* The newest backup is done with.
LEMMA Popped ==
    ASSUME NEW x0 \in ExecutionStates, Shape(x0), x0.backups # <<>>, NEW x \in ExecutionStates,
           x.plan = x0.plan, x.backups = Front(x0.backups), x.phase = "rolling",
           x.verdict \in {"rolled_back", "rollback_failed"}
    PROVE  Shape(x)
<1>1. \A t : Backed(Front(x0.backups), t) => Backed(x0.backups, t)
  BY FrontBackups DEF ExecutionStates, Backups
<1> QED
  BY <1>1 DEF Shape, Stepping, Restoring

LEMMA ClearStep == ASSUME ExecutorInv, NEW e \in Executions, Clear(e) PROVE ExecutorInv'
<1> DEFINE x0 == execs[e]
<1>1. x0 \in ExecutionStates /\ Shape(x0) /\ Owes(x0, files) /\ x0.phase = "rolling" /\ x0.backups # <<>>
  BY Typed DEF Clear
<1>2. x0.phase \in Running /\ x0.phase \in Restoring /\ x0.verdict \in {"rolled_back", "rollback_failed"}
  BY <1>1 DEF Running, Restoring, Shape
<1>3. OwnRows(e)
  BY <1>1, SameRows DEF Clear, Stepping
<1>4. Missing \in Files /\ files' = [files EXCEPT ![LastBackup(e).target] = Missing]
  BY DEF Clear, Files
<1>5. /\ LastBackup(e).file \in Files /\ files' \in [Targets -> Files]
      /\ files'[LastBackup(e).target] = Missing
      /\ \A t \in Targets : t # LastBackup(e).target => files'[t] = files[t]
      /\ \A t \in Targets : files'[t] = files[t] \/ t \in TargetsOf(x0.plan)
      /\ \A t \in Reversible(x0.plan) : files'[t] = files[t] \/ Backed(x0.backups, t)
  BY <1>1, <1>4, RestoreTouches
<1>6. CASE LastBackup(e).file.exists
  <2> DEFINE x == [x0 EXCEPT !.phase = "restoring"]
  <2>1. x \in ExecutionStates
    BY <1>1 DEF ExecutionStates, Phases, Running, Restoring
  <2>2. /\ x.phase = "restoring" /\ x.backups = x0.backups /\ x.plan = x0.plan
        /\ x.alone = x0.alone /\ x.before = x0.before /\ x.verdict = x0.verdict
    BY <1>1 DEF ExecutionStates
  <2>3. execs' = [execs EXCEPT ![e] = x]
    BY <1>6 DEF Clear
  <2> HIDE DEF x
  <2>4. Shape(x) /\ x.phase \in Running
    BY <1>1, <1>2, <2>2 DEF Shape, Stepping, Restoring, Running
  <2>5. Owes(x, files')
    BY <1>1, <1>2, <1>5, <2>2, KeptOwes
  <2> QED
    BY <1>1, <1>2, <1>3, <1>5, <2>1, <2>2, <2>3, <2>4, <2>5, OwnStep
<1>7. CASE ~LastBackup(e).file.exists
  <2> DEFINE x == [x0 EXCEPT !.backups = Front(@)]
  <2>1. Front(x0.backups) \in Seq(Backups)
    BY <1>1, Typed, FrontBackups
  <2>2. x \in ExecutionStates
    BY <1>1, <2>1 DEF ExecutionStates, Backups
  <2>3. /\ x.phase = "rolling" /\ x.backups = Front(x0.backups) /\ x.plan = x0.plan
        /\ x.alone = x0.alone /\ x.before = x0.before /\ x.verdict = x0.verdict
    BY <1>1 DEF ExecutionStates
  <2>4. execs' = [execs EXCEPT ![e] = x]
    BY <1>7 DEF Clear
  <2> HIDE DEF x
  <2>5. Shape(x) /\ x.phase \in Running
    BY <1>1, <1>2, <2>2, <2>3, Popped
  <2>6. LastBackup(e).file = Missing
    BY <1>5, <1>7, FileShape
  <2>7. Owes(x, files')
    BY <1>1, <1>2, <1>5, <2>3, <2>6, PoppedOwes DEF LastBackup
  <2> QED
    BY <1>1, <1>2, <1>3, <1>5, <2>2, <2>3, <2>4, <2>5, <2>7, OwnStep
<1> QED
  BY <1>6, <1>7

LEMMA CopyStep == ASSUME ExecutorInv, NEW e \in Executions, CopyBack(e) PROVE ExecutorInv'
<1> DEFINE x0 == execs[e]
           x == [x0 EXCEPT !.phase = "rolling", !.backups = Front(@)]
<1>1. x0 \in ExecutionStates /\ Shape(x0) /\ Owes(x0, files) /\ x0.phase = "restoring" /\ x0.backups # <<>>
  BY Typed DEF CopyBack, Shape
<1>2. x0.phase \in Running /\ x0.phase \in Restoring /\ x0.verdict \in {"rolled_back", "rollback_failed"}
  BY <1>1 DEF Running, Restoring, Shape
<1>3. OwnRows(e)
  BY <1>1, SameRows DEF CopyBack, Stepping
<1>4. Front(x0.backups) \in Seq(Backups) /\ LastBackup(e) \in Backups
  BY <1>1, Typed, FrontBackups DEF LastBackup
<1>5. LastBackup(e).file \in Files /\ files' = [files EXCEPT ![LastBackup(e).target] = LastBackup(e).file]
  BY <1>4 DEF CopyBack, Backups
<1>a. /\ LastBackup(e).file \in Files /\ files' \in [Targets -> Files]
      /\ files'[LastBackup(e).target] = LastBackup(e).file
      /\ \A t \in Targets : t # LastBackup(e).target => files'[t] = files[t]
      /\ \A t \in Targets : files'[t] = files[t] \/ t \in TargetsOf(x0.plan)
      /\ \A t \in Reversible(x0.plan) : files'[t] = files[t] \/ Backed(x0.backups, t)
  BY <1>1, <1>5, RestoreTouches
<1>6. x \in ExecutionStates
  BY <1>1, <1>4 DEF ExecutionStates, Backups, Phases, Running, Restoring
<1>7. /\ x.phase = "rolling" /\ x.backups = Front(x0.backups) /\ x.plan = x0.plan
      /\ x.alone = x0.alone /\ x.before = x0.before /\ x.verdict = x0.verdict
  BY <1>1 DEF ExecutionStates
<1>8. execs' = [execs EXCEPT ![e] = x]
  BY DEF CopyBack
<1> HIDE DEF x
<1>9. Shape(x) /\ x.phase \in Running
  BY <1>1, <1>2, <1>6, <1>7, Popped DEF Running, Restoring
<1>10. Owes(x, files')
  BY <1>1, <1>2, <1>a, <1>7, PoppedOwes DEF LastBackup
<1>b. /\ x.plan = execs[e].plan /\ x.alone = execs[e].alone
      /\ files' \in [Targets -> Files]
      /\ \A t \in Targets : files'[t] = files[t] \/ t \in TargetsOf(x.plan)
      /\ x.verdict # "dry_run"
  BY <1>2, <1>7, <1>a
<1> QED
  BY <1>2, <1>3, <1>6, <1>b, <1>8, <1>9, <1>10, OwnStep

LEMMA RestoreFailStep == ASSUME ExecutorInv, NEW e \in Executions, RestoreFails(e) PROVE ExecutorInv'
<1> DEFINE x0 == execs[e]
           x == [x0 EXCEPT !.phase = "rolling", !.backups = Front(@), !.verdict = "rollback_failed"]
<1>1. x0 \in ExecutionStates /\ Shape(x0) /\ x0.phase \in Restoring /\ x0.backups # <<>>
  BY Typed DEF RestoreFails
<1>2. x0.phase \in Running
  BY <1>1 DEF Running
<1>3. OwnRows(e)
  BY <1>1, SameRows DEF RestoreFails, Restoring
<1>4. Front(x0.backups) \in Seq(Backups) /\ LastBackup(e) \in Backups
  BY <1>1, Typed, FrontBackups DEF LastBackup
<1>5. PICK f \in Files : files' = [files EXCEPT ![LastBackup(e).target] = f]
  <2>1. LastBackup(e).file \in Files /\ files[LastBackup(e).target] \in Files /\ Missing \in Files
    BY <1>4, Typed DEF Backups, Files
  <2>2. \A new \in {Missing, LastBackup(e).file} : Between(files[LastBackup(e).target], new) \subseteq Files
    BY <2>1, BetweenIsFile
  <2> QED
    BY <2>2 DEF RestoreFails
<1>a. /\ LastBackup(e).file \in Files /\ files' \in [Targets -> Files]
      /\ files'[LastBackup(e).target] = f
      /\ \A t \in Targets : t # LastBackup(e).target => files'[t] = files[t]
      /\ \A t \in Targets : files'[t] = files[t] \/ t \in TargetsOf(x0.plan)
      /\ \A t \in Reversible(x0.plan) : files'[t] = files[t] \/ Backed(x0.backups, t)
  BY <1>1, <1>5, RestoreTouches
<1>6. x \in ExecutionStates
  BY <1>1, <1>4 DEF ExecutionStates, Backups, Phases, Running, Restoring, Verdicts
<1>7. /\ x.phase = "rolling" /\ x.backups = Front(x0.backups) /\ x.plan = x0.plan
      /\ x.alone = x0.alone /\ x.before = x0.before /\ x.verdict = "rollback_failed"
  BY <1>1 DEF ExecutionStates
<1>8. execs' = [execs EXCEPT ![e] = x]
  BY DEF RestoreFails
<1> HIDE DEF x
<1>9. Shape(x) /\ x.phase \in Running
  BY <1>1, <1>6, <1>7, Popped DEF Running, Restoring
<1>10. Owes(x, files')
  BY <1>7 DEF Owes
<1>b. /\ x.plan = execs[e].plan /\ x.alone = execs[e].alone
      /\ files' \in [Targets -> Files]
      /\ \A t \in Targets : files'[t] = files[t] \/ t \in TargetsOf(x.plan)
      /\ x.verdict # "dry_run"
  BY <1>7, <1>a
<1> QED
  BY <1>2, <1>3, <1>6, <1>b, <1>8, <1>9, <1>10, OwnStep

LEMMA RolledBackStep == ASSUME ExecutorInv, NEW e \in Executions, RolledBack(e) PROVE ExecutorInv'
<1> DEFINE x0 == execs[e]
           x == [x0 EXCEPT !.phase = "reporting"]
<1>1. x0 \in ExecutionStates /\ Shape(x0) /\ Owes(x0, files) /\ x0.phase = "rolling" /\ x0.backups = <<>>
  BY Typed DEF RolledBack
<1>2. x \in ExecutionStates
  BY <1>1 DEF ExecutionStates, Phases, Running
<1>3. /\ x.phase = "reporting" /\ x.backups = x0.backups /\ x.plan = x0.plan
      /\ x.alone = x0.alone /\ x.before = x0.before /\ x.verdict = x0.verdict
  BY <1>1 DEF ExecutionStates
<1>4. execs' = [execs EXCEPT ![e] = x]
  BY DEF RolledBack
<1> HIDE DEF x
<1>5. Shape(x)
  BY <1>1, <1>3 DEF Shape, Stepping, Restoring
<1>6. x0.phase \in Running /\ x.phase \in Running
  BY <1>1, <1>3 DEF Running, Restoring
<1>7. files' = files /\ files' \in [Targets -> Files] /\ OwnRows(e)
  BY <1>1, SameRows, Typed DEF RolledBack, Stepping
<1>8. Owes(x, files')
  BY <1>1, <1>3, <1>6, <1>7, KeptOwes
<1>9. x.verdict # "dry_run"
  BY <1>1, <1>3 DEF Shape, Restoring
<1> QED
  BY <1>2, <1>3, <1>4, <1>5, <1>6, <1>7, <1>8, <1>9, OwnStep

------------------------------------------------------------------------------
(* The reports, and the start                                              *)

\* An execution that has ended keeps its plan and its verdict, and owes nothing.
Over(e, phase) == [Idle EXCEPT !.phase = phase, !.plan = execs[e].plan, !.verdict = execs[e].verdict]

LEMMA OverShape ==
    ASSUME ExecutorInv, NEW e \in Executions, NEW phase \in Ended
    PROVE  /\ Over(e, phase) \in ExecutionStates
           /\ Over(e, phase).phase = phase /\ Over(e, phase).verdict = execs[e].verdict
           /\ Shape(Over(e, phase)) /\ \A fs : Owes(Over(e, phase), fs)
<1> DEFINE x == Over(e, phase)
<1>1. execs[e].plan \in Seq(PlanSteps) /\ execs[e].verdict \in Verdicts \cup {"none"}
  BY Typed DEF ExecutionStates
<1>2. Missing \in Files /\ phase \in Phases /\ 1 \in Nat \ {0}
  BY DEF Files, Phases
<1>3. <<>> \in Seq([target : Targets, file : Files])
  OBVIOUS
<1>4. x \in ExecutionStates
  BY <1>1, <1>2, <1>3 DEF ExecutionStates, Over, Idle
<1>5. x.phase = phase /\ x.backups = <<>> /\ x.verdict = execs[e].verdict
  BY DEF Over, Idle
<1> HIDE DEF x
<1>6. x.phase \notin Running /\ x.phase \notin {"applying", "drafted", "removed"}
  BY <1>5 DEF Ended, Running, Stepping, Restoring
<1>7. \A t : ~Backed(x.backups, t)
  BY <1>5 DEF Backed
<1>8. Shape(x)
  BY <1>6, <1>7 DEF Shape, Running, Restoring
<1>9. \A fs : Owes(x, fs)
  BY <1>6 DEF Owes
<1> QED
  BY <1>4, <1>5, <1>8, <1>9 DEF x

\* A call ends.
LEMMA EndStep ==
    ASSUME ExecutorInv, NEW e \in Executions, NEW phase \in Ended,
           End(e, phase), UNCHANGED files, OwnRows(e)
    PROVE  ExecutorInv'
<1> DEFINE x == Over(e, phase)
<1>1. \A d \in Executions : execs'[d] = IF d = e THEN x ELSE execs[d]
  BY DEF ExecutorInv, TypeOK, End, Over
<1>2. /\ x \in ExecutionStates /\ x.phase = phase /\ x.verdict = execs[e].verdict
      /\ Shape(x) /\ Owes(x, files)
  BY OverShape
<1>3. execs' \in [Executions -> ExecutionStates]
  BY <1>1, <1>2 DEF ExecutorInv, TypeOK, End
<1> HIDE DEF x
<1>4. phase \notin Running
  BY DEF Ended, Running, Stepping, Restoring
<1>5. TypeOK'
  BY <1>1, <1>2, <1>3, <1>4 DEF ExecutorInv, TypeOK, OwnRows, EventRows, Running
<1>6. \A d \in Executions : Shape(execs'[d]) /\ Owes(execs'[d], files')
  BY <1>1, <1>2 DEF ExecutorInv
<1>7. Apart'
  BY <1>1, <1>2, <1>4 DEF ExecutorInv, Apart
<1>8. (\A d \in Executions : Told(d)') /\ EventsRecorded'
  BY <1>1, <1>2, <1>4, OwnRowsTold DEF Running
<1> QED
  BY <1>5, <1>6, <1>7, <1>8 DEF ExecutorInv

LEMMA Reporting ==
    ASSUME ExecutorInv, NEW e \in Executions, execs[e].phase = "reporting"
    PROVE  /\ execs[e] \in ExecutionStates /\ execs[e].verdict \in Verdicts
           /\ EventOf(e) \in EventRows
           /\ reported[e] = 2 => execs[e].verdict \in records[e]
<1>1. execs[e] \in ExecutionStates /\ Shape(execs[e])
  BY Typed
<1>2. execs[e].verdict \in Verdicts
  BY <1>1 DEF ExecutionStates, Shape
<1>3. EventOf(e) \in EventRows
  BY <1>2, ExecutorAssumption DEF EventOf, EventRows
<1> QED
  BY <1>1, <1>2, <1>3 DEF ExecutorInv, Told

\* A statement that is not the last has left its row, and nothing else.
LEMMA StatementStep ==
    ASSUME ExecutorInv, NEW e \in Executions, PersistRecord(e) \/ UpdatePlanStatus(e)
    PROVE  ExecutorInv'
<1>1. /\ execs[e].phase = "reporting" /\ UNCHANGED <<files, execs, events>>
      /\ execs[e].verdict \in Verdicts
  BY Reporting DEF PersistRecord, UpdatePlanStatus
<1>2. /\ records' \in [Executions -> SUBSET Verdicts]
      /\ \A d \in Executions : records[d] \subseteq records'[d]
      /\ execs[e].verdict \in records'[e]
  <2>1. CASE PersistRecord(e)
    BY <1>1, <2>1 DEF PersistRecord, Record, ExecutorInv, TypeOK
  <2>2. CASE UpdatePlanStatus(e)
    BY <1>1, <2>2 DEF UpdatePlanStatus, ExecutorInv, TypeOK, Told
  <2> QED
    BY <2>1, <2>2
<1>3. /\ reported' \in [Executions -> 0..2]
      /\ \A d \in Executions \ {e} : reported'[d] = reported[d] /\ planStatus'[d] = planStatus[d]
      /\ planStatus' \in [Executions -> Verdicts \cup {"none", "planned"}]
      /\ reported'[e] = 2 \/ execs[e].verdict = "dry_run" => planStatus'[e] = execs[e].verdict
  BY <1>1 DEF PersistRecord, UpdatePlanStatus, PlanRow, ExecutorInv, TypeOK, Told
<1>4. TypeOK'
  BY <1>1, <1>2, <1>3 DEF ExecutorInv, TypeOK
<1>5. \A d \in Executions : Told(d)'
  BY <1>1, <1>2, <1>3 DEF ExecutorInv, Told
<1>6. EventsRecorded'
  BY <1>1, <1>2 DEF ExecutorInv, TypeOK, EventsRecorded
<1>7. Apart' /\ \A d \in Executions : Shape(execs'[d]) /\ Owes(execs'[d], files')
  BY <1>1 DEF ExecutorInv, Apart
<1> QED
  BY <1>4, <1>5, <1>6, <1>7 DEF ExecutorInv

LEMMA EnqueueStep == ASSUME ExecutorInv, NEW e \in Executions, EnqueueEvent(e) PROVE ExecutorInv'
<1>1. EventOf(e) \in EventRows /\ execs[e].verdict \in records[e]
  BY Reporting DEF EnqueueEvent
<1>2. EventOf(e).of = e /\ EventOf(e).result = execs[e].verdict
  BY DEF EventOf
<1>3. OwnRows(e)
  BY <1>1, <1>2 DEF EnqueueEvent, End, OwnRows, EventRows, ExecutorInv, TypeOK
<1> QED
  BY <1>3, EndStep DEF EnqueueEvent, Ended

\* The reports of a success are part of what is undone.
LEMMA StatementFailStep == ASSUME ExecutorInv, NEW e \in Executions, StatementFails(e) PROVE ExecutorInv'
<1> DEFINE x0 == execs[e]
           x == [x0 EXCEPT !.phase = "rolling", !.verdict = "rolled_back"]
<1>1. x0 \in ExecutionStates /\ Shape(x0) /\ Owes(x0, files) /\ x0.phase = "reporting"
  BY Typed DEF StatementFails
<1>2. OwnRows(e) /\ UNCHANGED files
  <2>1. /\ x0.verdict \in Verdicts /\ EventOf(e) \in EventRows
        /\ reported[e] = 2 => x0.verdict \in records[e]
    BY <1>1, Reporting
  <2>2. EventOf(e).of = e /\ EventOf(e).result = x0.verdict
    BY DEF EventOf
  <2>3. reported' = [reported EXCEPT ![e] = 0] /\ UNCHANGED files
    BY DEF StatementFails, End
  <2>4. CASE UNCHANGED <<planStatus, records, events>>
    BY <2>3, <2>4 DEF OwnRows, EventRows, ExecutorInv, TypeOK
  <2>5. CASE Record(e) /\ UNCHANGED <<planStatus, events>>
    BY <2>1, <2>3, <2>5 DEF Record, OwnRows, EventRows, ExecutorInv, TypeOK
  <2>6. CASE PlanRow(e) /\ UNCHANGED <<records, events>>
    BY <2>1, <2>3, <2>6 DEF PlanRow, OwnRows, EventRows, ExecutorInv, TypeOK
  <2>7. CASE reported[e] = 2 /\ events' = events \cup {EventOf(e)} /\ UNCHANGED <<planStatus, records>>
    BY <2>1, <2>2, <2>3, <2>7 DEF OwnRows, EventRows, ExecutorInv, TypeOK
  <2> QED
    BY <2>4, <2>5, <2>6, <2>7 DEF StatementFails
<1>3. CASE x0.verdict = "success"
  <2>1. x \in ExecutionStates
    BY <1>1 DEF ExecutionStates, Phases, Running, Restoring, Verdicts
  <2>2. /\ x.phase = "rolling" /\ x.backups = x0.backups /\ x.plan = x0.plan
        /\ x.alone = x0.alone /\ x.before = x0.before /\ x.verdict = "rolled_back"
    BY <1>1 DEF ExecutionStates
  <2>3. execs' = [execs EXCEPT ![e] = x]
    BY <1>3 DEF StatementFails
  <2> HIDE DEF x
  <2>4. Shape(x)
    BY <1>1, <2>2 DEF Shape, Stepping, Restoring
  <2> QED
    BY <1>1, <1>2, <1>3, <2>1, <2>2, <2>3, <2>4, GoesOn DEF Running, Restoring
<1>4. CASE x0.verdict # "success"
  BY <1>2, <1>4, EndStep DEF StatementFails, Ended
<1> QED
  BY <1>3, <1>4

LEMMA SyncedStep == ASSUME ExecutorInv, NEW m \in events, Synced(m) PROVE ExecutorInv'
<1>1. UNCHANGED <<files, execs, planStatus, records, reported>> /\ events' \subseteq events
  BY DEF Synced
<1> QED
  BY <1>1 DEF ExecutorInv, TypeOK, Apart, Told, EventsRecorded

\* A start takes the targets it shares with another away from it.
LEMMA StartStep ==
    ASSUME ExecutorInv, NEW e \in Executions, NEW plan \in Plans[e], NEW dryRun \in BOOLEAN,
           Start(e, plan, dryRun)
    PROVE  ExecutorInv'
<1> DEFINE x0 == execs[e]
           new == [Idle EXCEPT !.phase = IF dryRun THEN "reporting" ELSE "stepping",
                               !.plan = plan,
                               !.verdict = IF dryRun THEN "dry_run" ELSE "success",
                               !.before = files,
                               !.alone = \A o \in Executions :
                                   execs[o].phase \in Running => ~Overlap(plan, execs[o].plan)]
<1>1. /\ x0 \in ExecutionStates /\ x0.phase = "idle" /\ plan \in Seq(PlanSteps)
      /\ files \in [Targets -> Files] /\ UNCHANGED <<files, records, events, reported>>
  <2>1. plan \in Seq(PlanSteps)
    BY ExecutorAssumption
  <2> QED
    BY <2>1, Typed DEF Start
<1>2. CASE execs' = [execs EXCEPT ![e].phase = "threw"] /\ UNCHANGED planStatus
  <2> DEFINE x == [x0 EXCEPT !.phase = "threw"]
  <2>1. x \in ExecutionStates
    BY <1>1 DEF ExecutionStates, Phases, Ended
  <2>2. x.phase = "threw" /\ x.backups = x0.backups /\ x.plan = x0.plan
    BY <1>1 DEF ExecutionStates
  <2>3. execs' = [execs EXCEPT ![e] = x]
    BY <1>2
  <2> HIDE DEF x
  <2>4. Shape(x) /\ Owes(x, files) /\ x.phase \notin Running /\ x.phase \notin Stepping
    BY <1>1, <2>2, Typed DEF Shape, Owes, Running, Stepping, Restoring
  <2>5. \A d \in Executions : execs'[d] = IF d = e THEN x ELSE execs[d]
    BY <2>3 DEF ExecutorInv, TypeOK
  <2>6. TypeOK'
    BY <1>1, <1>2, <2>1, <2>3, <2>4, <2>5 DEF ExecutorInv, TypeOK
  <2>7. \A d \in Executions : Shape(execs'[d]) /\ Owes(execs'[d], files')
    BY <1>1, <2>4, <2>5 DEF ExecutorInv
  <2>8. Apart'
    BY <2>4, <2>5 DEF ExecutorInv, Apart
  <2>9. (\A d \in Executions : Told(d)') /\ EventsRecorded'
    BY <1>1, <1>2, <2>2, <2>5 DEF ExecutorInv, Told, EventsRecorded
  <2> QED
    BY <2>6, <2>7, <2>8, <2>9 DEF ExecutorInv
<1>3. CASE /\ execs' = [d \in Executions |->
                IF d # e THEN [execs[d] EXCEPT !.alone = @ /\ ~Overlap(plan, execs[d].plan)] ELSE new]
           /\ planStatus' = [planStatus EXCEPT ![e] = IF dryRun THEN "dry_run" ELSE "planned"]
  <2> DEFINE less(d) == [execs[d] EXCEPT !.alone = @ /\ ~Overlap(plan, execs[d].plan)]
             alone == \A o \in Executions : execs[o].phase \in Running => ~Overlap(plan, execs[o].plan)
  <2>1. new \in ExecutionStates
    <3>1. alone \in BOOLEAN
      OBVIOUS
    <3>2. Missing \in Files /\ 1 \in Nat \ {0} /\ <<>> \in Seq([target : Targets, file : Files])
      BY DEF Files
    <3> HIDE DEF alone
    <3>3. /\ (IF dryRun THEN "reporting" ELSE "stepping") \in Phases
          /\ (IF dryRun THEN "dry_run" ELSE "success") \in Verdicts
      BY DEF Phases, Running, Stepping, Verdicts
    <3> QED
      BY <1>1, <3>1, <3>2, <3>3 DEF ExecutionStates, Idle, alone
  <2>2. /\ new.phase = (IF dryRun THEN "reporting" ELSE "stepping") /\ new.plan = plan
        /\ new.verdict = (IF dryRun THEN "dry_run" ELSE "success")
        /\ new.before = files /\ new.backups = <<>>
        /\ new.alone = alone
    BY DEF Idle
  <2>3. \A d \in Executions \ {e} : execs'[d] = less(d)
    BY <1>3
  <2>4. execs'[e] = new
    BY <1>3
  <2>5. ASSUME NEW d \in Executions \ {e}
        PROVE  /\ less(d) \in ExecutionStates
               /\ less(d).phase = execs[d].phase /\ less(d).plan = execs[d].plan
               /\ less(d).next = execs[d].next /\ less(d).backups = execs[d].backups
               /\ less(d).verdict = execs[d].verdict /\ less(d).before = execs[d].before
               /\ less(d).alone <=> execs[d].alone /\ ~Overlap(plan, execs[d].plan)
    BY Typed DEF ExecutionStates
  <2> HIDE DEF less, new
  <2>6. execs' \in [Executions -> ExecutionStates]
    BY <1>3, <2>1, <2>5 DEF less
  <2>7. \A t : ~Backed(new.backups, t)
    BY <2>2 DEF Backed
  <2>8. Shape(new) /\ new.phase \notin {"applying", "drafted", "removed"} /\ Owes(new, files)
    BY <2>2, <2>7 DEF Shape, Owes, Running, Stepping, Restoring
  <2>9. ASSUME NEW d \in Executions \ {e} PROVE Shape(less(d)) /\ Owes(less(d), files)
    <3>1. Shape(execs[d]) /\ Owes(execs[d], files)
      BY DEF ExecutorInv
    <3> DEFINE x == less(d)
    <3>2. /\ x.phase = execs[d].phase /\ x.plan = execs[d].plan
          /\ x.next = execs[d].next /\ x.backups = execs[d].backups
          /\ x.verdict = execs[d].verdict /\ x.before = execs[d].before
          /\ x.alone => execs[d].alone
      BY <2>5
    <3> HIDE DEF x
    <3>3. Shape(x)
      BY <3>1, <3>2 DEF Shape
    <3>4. Owes(x, files)
      BY <3>1, <3>2 DEF Owes
    <3> QED
      BY <3>3, <3>4 DEF x
  <2>10. TypeOK'
    <3>1. (IF dryRun THEN "dry_run" ELSE "planned") \in Verdicts \cup {"none", "planned"}
      BY DEF Verdicts
    <3>2. planStatus' \in [Executions -> Verdicts \cup {"none", "planned"}]
      BY <1>3, <3>1 DEF ExecutorInv, TypeOK
    <3>3. \A d \in Executions : execs'[d].phase \in Stepping \ {"stepping"} =>
              execs'[d].next \in DOMAIN execs'[d].plan
      BY <2>3, <2>4, <2>5, <2>8 DEF ExecutorInv, TypeOK, Stepping
    <3> QED
      BY <1>1, <2>6, <3>2, <3>3 DEF ExecutorInv, TypeOK
  <2>11. \A d \in Executions : Shape(execs'[d]) /\ Owes(execs'[d], files')
    BY <1>1, <2>3, <2>4, <2>8, <2>9
  <2>12. Apart'
    <3> SUFFICES ASSUME NEW c \in Executions, NEW d \in Executions, c # d, execs'[c].phase \in Running,
                        execs'[d].phase \in Running, execs'[d].alone
                 PROVE  ~Overlap(execs'[d].plan, execs'[c].plan)
      BY DEF Apart
    <3>1. CASE c # e /\ d # e
      BY <2>3, <2>5, <3>1 DEF ExecutorInv, Apart
    <3>2. CASE d = e
      BY <2>2, <2>3, <2>4, <2>5, <3>2
    <3>3. CASE c = e
      BY <2>2, <2>3, <2>4, <2>5, <3>3 DEF Overlap
    <3> QED
      BY <3>1, <3>2, <3>3
  <2>13. ASSUME NEW d \in Executions PROVE Told(d)'
    <3>1. CASE d = e
      <4>1. reported[e] = 0 /\ (dryRun => planStatus'[e] = "dry_run")
        BY <1>1, <1>3 DEF ExecutorInv, TypeOK, Told
      <4> QED
        BY <1>1, <2>2, <2>4, <3>1, <4>1 DEF Told
    <3>2. CASE d # e
      <4>1. planStatus'[d] = planStatus[d]
        BY <1>3, <3>2 DEF ExecutorInv, TypeOK
      <4>2. execs'[d].phase = execs[d].phase /\ execs'[d].verdict = execs[d].verdict
        BY <2>3, <2>5, <3>2
      <4> QED
        BY <1>1, <4>1, <4>2 DEF ExecutorInv, Told
    <3> QED
      BY <3>1, <3>2
  <2>14. EventsRecorded'
    BY <1>1 DEF ExecutorInv, EventsRecorded
  <2> QED
    BY <2>10, <2>11, <2>12, <2>13, <2>14 DEF ExecutorInv
<1> QED
  BY <1>2, <1>3 DEF Start

LEMMA ExecutorStep == ExecutorInv /\ [Next]_vars => ExecutorInv'
<1> SUFFICES ASSUME ExecutorInv, [Next]_vars PROVE ExecutorInv'
  OBVIOUS
<1>1. CASE UNCHANGED vars
  BY <1>1 DEF vars, ExecutorInv, TypeOK, Apart, Told, EventsRecorded
<1>2. ASSUME NEW e \in Executions, NEW plan \in Plans[e], NEW dryRun \in BOOLEAN, Start(e, plan, dryRun)
      PROVE  ExecutorInv'
  BY <1>2, StartStep
<1>3. ASSUME NEW e \in Executions, Proceed(e) PROVE ExecutorInv'
  BY <1>3, BackupStep, ApplyStep, DraftStep, RemoveStep, RenameStep, FailStep, SucceedStep,
     ClearStep, CopyStep, RestoreFailStep, RolledBackStep, StatementStep, EnqueueStep,
     StatementFailStep DEF Proceed
<1>4. ASSUME NEW m \in events, Synced(m) PROVE ExecutorInv'
  BY <1>4, SyncedStep
<1> QED
  BY <1>1, <1>2, <1>3, <1>4 DEF Next

LEMMA ExecutorInit == Init => ExecutorInv
<1> SUFFICES ASSUME Init PROVE ExecutorInv
  OBVIOUS
<1>1. Missing \in Files /\ 1 \in Nat \ {0} /\ <<>> \in Seq(PlanSteps)
      /\ <<>> \in Seq([target : Targets, file : Files])
  BY DEF Files
<1>2. Idle \in ExecutionStates
  BY <1>1 DEF Idle, ExecutionStates, Phases
<1>3. /\ Idle.phase = "idle" /\ Idle.backups = <<>>
  BY DEF Idle
<1>4. \A e \in Executions : execs[e] = Idle
  BY DEF Init
<1>5. Idle.phase \notin Running /\ Idle.phase \notin Stepping /\ \A t : ~Backed(Idle.backups, t)
  BY <1>3 DEF Running, Stepping, Restoring, Backed
<1>6. Shape(Idle) /\ \A fs : Owes(Idle, fs)
  BY <1>3, <1>5 DEF Shape, Owes, Running
<1>7. TypeOK
  <2>1. files \in [Targets -> Files]
    BY ExecutorAssumption DEF Init
  <2>2. execs \in [Executions -> ExecutionStates]
    BY <1>2 DEF Init
  <2> QED
    BY <1>4, <1>5, <2>1, <2>2 DEF Init, TypeOK
<1>8. Apart /\ EventsRecorded /\ \A e \in Executions : Told(e)
  BY <1>3, <1>4, <1>5 DEF Init, Apart, Told, EventsRecorded
<1> QED
  BY <1>4, <1>6, <1>7, <1>8 DEF ExecutorInv

------------------------------------------------------------------------------
(* The theorems                                                            *)

\* The files, the executions and the three tables have their types, and an execution is never
\* in the middle of a step its plan does not have.
THEOREM ExecutorTypeCorrect == Spec => []TypeOK
<1>1. ExecutorInv => TypeOK
  BY DEF ExecutorInv
<1> QED
  BY <1>1, ExecutorInit, ExecutorStep, PTL DEF Spec

\* What an execution with its targets to itself has changed can be put back: its oldest backup
\* of the file is the file as it was before.
THEOREM OriginalKept == Spec => []OriginalIsKept
<1>1. ExecutorInv => OriginalIsKept
  BY DEF ExecutorInv, OriginalIsKept, Owes, HasOriginal
<1> QED
  BY <1>1, ExecutorInit, ExecutorStep, PTL DEF Spec

\* Only a report ends an execution under way.
LEMMA EndsReporting ==
    ASSUME ExecutorInv, [Next]_vars, NEW e \in Executions, Ends(e) PROVE execs[e].phase = "reporting"
<1>1. execs[e].phase \in Running /\ execs'[e].phase \in Ended
  BY DEF Ends
<1>2. execs[e].phase # execs'[e].phase /\ execs'[e].phase \notin Running
  BY <1>1 DEF Ended, Running, Stepping, Restoring
<1>3. PICK f \in Executions :
        (\E plan \in Plans[f], dryRun \in BOOLEAN : Start(f, plan, dryRun)) \/ Proceed(f)
  BY <1>2 DEF Next, Synced, vars
<1>4. execs \in [Executions -> ExecutionStates]
  BY DEF ExecutorInv, TypeOK
<1>5. CASE f = e
  <2>1. \A plan \in Plans[e], dryRun \in BOOLEAN : ~Start(e, plan, dryRun)
    BY <1>1 DEF Start, Running, Stepping, Restoring
  <2>2. ~Backup(e)
    BY <1>2, <1>4 DEF Backup, ExecutionStates, Running, Stepping, Restoring
  <2>3. ~Apply(e)
    BY <1>2, <1>4 DEF Apply, NextStep, ExecutionStates, Running, Stepping, Restoring
  <2>4. ~Draft(e)
    BY <1>2, <1>4 DEF Draft, ExecutionStates, Running, Stepping, Restoring
  <2>5. ~RemoveTarget(e)
    BY <1>2, <1>4 DEF RemoveTarget, ExecutionStates, Running, Stepping, Restoring
  <2>6. ~Rename(e)
    BY <1>2, <1>4 DEF Rename, NextStep, ExecutionStates, Running, Stepping, Restoring
  <2>7. ~StepFails(e)
    BY <1>2, <1>4 DEF StepFails, ExecutionStates, Running, Stepping, Restoring
  <2>8. ~Succeed(e)
    BY <1>2, <1>4 DEF Succeed, ExecutionStates, Running, Stepping, Restoring
  <2>9. ~Clear(e)
    BY <1>2, <1>4 DEF Clear, ExecutionStates, Running, Stepping, Restoring
  <2>10. ~CopyBack(e)
    BY <1>2, <1>4 DEF CopyBack, ExecutionStates, Running, Stepping, Restoring
  <2>11. ~RestoreFails(e)
    BY <1>2, <1>4 DEF RestoreFails, ExecutionStates, Running, Stepping, Restoring
  <2>12. ~RolledBack(e)
    BY <1>2, <1>4 DEF RolledBack, ExecutionStates, Running, Stepping, Restoring
  <2> QED
    BY <1>3, <1>5, <2>1, <2>2, <2>3, <2>4, <2>5, <2>6, <2>7, <2>8, <2>9, <2>10, <2>11, <2>12
       DEF Proceed, PersistRecord, UpdatePlanStatus, EnqueueEvent, StatementFails
<1>6. CASE f # e
  <2>1. ASSUME NEW plan \in Plans[f], NEW dryRun \in BOOLEAN, Start(f, plan, dryRun)
        PROVE  execs'[e].phase = execs[e].phase
    <3>1. execs[e] \in ExecutionStates
      BY <1>4
    <3>2. \/ execs'[e] = execs[e]
          \/ execs'[e] = [execs[e] EXCEPT !.alone = @ /\ ~Overlap(plan, execs[e].plan)]
      BY <1>4, <1>6, <2>1 DEF Start
    <3> QED
      BY <3>1, <3>2 DEF ExecutionStates
  <2>2. Backup(f) \/ Apply(f) \/ Draft(f) \/ RemoveTarget(f) => execs'[e] = execs[e]
    BY <1>4, <1>6 DEF Backup, Apply, NextStep, Draft, RemoveTarget
  <2>3. Rename(f) \/ StepFails(f) \/ Succeed(f) => execs'[e] = execs[e]
    BY <1>4, <1>6 DEF Rename, NextStep, StepFails, Succeed
  <2>4. Clear(f) \/ CopyBack(f) \/ RestoreFails(f) \/ RolledBack(f) => execs'[e] = execs[e]
    BY <1>4, <1>6 DEF Clear, CopyBack, RestoreFails, RolledBack
  <2>5. PersistRecord(f) \/ UpdatePlanStatus(f) \/ EnqueueEvent(f) \/ StatementFails(f)
            => execs'[e] = execs[e]
    BY <1>4, <1>6 DEF PersistRecord, UpdatePlanStatus, EnqueueEvent, StatementFails, End
  <2> QED
    BY <1>2, <1>3, <2>1, <2>2, <2>3, <2>4, <2>5 DEF Proceed
<1> QED
  BY <1>5, <1>6

LEMMA FailsPhase ==
    ASSUME ExecutorInv, NEW e \in Executions, StatementFails(e)
    PROVE  /\ execs'[e].phase # "returned"
           /\ execs'[e].phase = "threw" \/ execs'[e].verdict = "rolled_back"
<1>1. execs \in [Executions -> ExecutionStates] /\ execs[e] \in ExecutionStates
  BY DEF ExecutorInv, TypeOK
<1>2. CASE execs[e].verdict = "success"
  <2>1. execs' = [execs EXCEPT ![e] = [@ EXCEPT !.phase = "rolling", !.verdict = "rolled_back"]]
    BY <1>2 DEF StatementFails
  <2>2. execs'[e] = [execs[e] EXCEPT !.phase = "rolling", !.verdict = "rolled_back"]
    BY <1>1, <2>1
  <2> QED
    BY <1>1, <2>2 DEF ExecutionStates
<1>3. CASE execs[e].verdict # "success"
  <2>1. execs'[e] = [Idle EXCEPT !.phase = "threw", !.plan = execs[e].plan, !.verdict = execs[e].verdict]
    BY <1>1, <1>3 DEF StatementFails, End
  <2> QED
    BY <2>1 DEF Idle
<1> QED
  BY <1>2, <1>3

\* execute returns after its last statement only.
LEMMA ReturnsEnqueued ==
    ASSUME ExecutorInv, [Next]_vars, NEW e \in Executions, Ends(e), execs'[e].phase = "returned"
    PROVE  EnqueueEvent(e)
<1>1. execs[e].phase = "reporting" /\ execs'[e] # execs[e]
  BY EndsReporting
<1>2. execs \in [Executions -> ExecutionStates]
  BY DEF ExecutorInv, TypeOK
<1>3. ASSUME NEW f \in Executions, NEW plan \in Plans[f], NEW dryRun \in BOOLEAN, Start(f, plan, dryRun)
      PROVE  FALSE
  <2>1. f # e
    BY <1>1, <1>3 DEF Start
  <2>2. execs[e] \in ExecutionStates
    BY <1>2
  <2>3. \/ execs'[e] = execs[e]
        \/ execs'[e] = [execs[e] EXCEPT !.alone = @ /\ ~Overlap(plan, execs[e].plan)]
    BY <1>2, <1>3, <2>1 DEF Start
  <2> QED
    BY <1>1, <2>2, <2>3 DEF ExecutionStates
<1>4. ASSUME NEW f \in Executions, Proceed(f) PROVE EnqueueEvent(e)
  <2>1. CASE f = e
    <3>1. ~StatementFails(e)
      BY FailsPhase
    <3> QED
      BY <1>1, <1>4, <2>1, <3>1 DEF Proceed, Backup, Apply, Draft, RemoveTarget, Rename, StepFails,
         Stepping, Succeed, Clear, CopyBack, RestoreFails, Restoring, RolledBack, PersistRecord,
         UpdatePlanStatus
  <2>2. CASE f # e
    <3>1. Backup(f) \/ Apply(f) \/ Draft(f) \/ RemoveTarget(f) => execs'[e] = execs[e]
      BY <1>2, <2>2 DEF Backup, Apply, NextStep, Draft, RemoveTarget
    <3>2. Rename(f) \/ StepFails(f) \/ Succeed(f) => execs'[e] = execs[e]
      BY <1>2, <2>2 DEF Rename, NextStep, StepFails, Succeed
    <3>3. Clear(f) \/ CopyBack(f) \/ RestoreFails(f) \/ RolledBack(f) => execs'[e] = execs[e]
      BY <1>2, <2>2 DEF Clear, CopyBack, RestoreFails, RolledBack
    <3>4. PersistRecord(f) \/ UpdatePlanStatus(f) \/ EnqueueEvent(f) \/ StatementFails(f)
              => execs'[e] = execs[e]
      BY <1>2, <2>2 DEF PersistRecord, UpdatePlanStatus, EnqueueEvent, StatementFails, End
    <3> QED
      BY <1>1, <1>4, <3>1, <3>2, <3>3, <3>4 DEF Proceed
  <2> QED
    BY <2>1, <2>2
<1> QED
  BY <1>1, <1>3, <1>4 DEF Next, Synced, vars

\* When execute returns, the plan's row and a record have the verdict, and an event of its key and
\* verdict waits; an event it has found there is of an execution that has recorded that verdict.
THEOREM Reported == Spec => ReturnedIsReported
<1> DEFINE P == \A e \in Executions :
          Ends(e) /\ execs'[e].phase = "returned" =>
              LET verdict == execs'[e].verdict IN
              /\ verdict \in records'[e]
              /\ planStatus'[e] = verdict
              /\ \E m \in events' :
                    m.key = KeyOf[e] /\ m.result = verdict /\ verdict \in records'[m.of]
<1>1. ExecutorInv /\ [Next]_vars => P
  <2> SUFFICES ASSUME ExecutorInv, [Next]_vars, NEW e \in Executions, Ends(e),
                      execs'[e].phase = "returned"
               PROVE  /\ execs'[e].verdict \in records'[e]
                      /\ planStatus'[e] = execs'[e].verdict
                      /\ \E m \in events' : /\ m.key = KeyOf[e] /\ m.result = execs'[e].verdict
                                            /\ execs'[e].verdict \in records'[m.of]
    OBVIOUS
  <2>1. /\ execs[e].phase = "reporting" /\ reported[e] = 2
        /\ UNCHANGED <<planStatus, records>> /\ End(e, "returned")
        /\ events' = IF Waiting(e) = {} THEN events \cup {EventOf(e)} ELSE events
    BY ReturnsEnqueued DEF EnqueueEvent
  <2>2. execs'[e].verdict = execs[e].verdict
    BY <2>1 DEF End, Idle, ExecutorInv, TypeOK
  <2>3. execs[e].verdict \in records[e] /\ planStatus[e] = execs[e].verdict
    BY <2>1 DEF ExecutorInv, Told
  <2>4. CASE Waiting(e) = {}
    <3>1. EventOf(e).key = KeyOf[e] /\ EventOf(e).result = execs[e].verdict /\ EventOf(e).of = e
      BY DEF EventOf
    <3> QED
      BY <2>1, <2>2, <2>3, <2>4, <3>1
  <2>5. CASE Waiting(e) # {}
    <3>1. PICK m \in events : m.key = KeyOf[e] /\ m.result = execs[e].verdict
      BY <2>5 DEF Waiting
    <3>2. m.result \in records[m.of]
      BY DEF ExecutorInv, EventsRecorded
    <3> QED
      BY <2>1, <2>2, <2>3, <2>5, <3>1, <3>2
  <2> QED
    BY <2>4, <2>5
<1>2. ExecutorInv /\ [Next]_vars => [P]_vars
  BY <1>1
<1> QED
  BY <1>2, ExecutorInit, ExecutorStep, PTL DEF Spec, ReturnedIsReported, P

\* An execution that ends without a success, and without saying that its rollback failed, has
\* changed none of the files it answers for.
THEOREM FailureUndone == Spec => FailureChangesNothing
<1> DEFINE P == \A e \in Executions :
          Ends(e) /\ execs[e].alone /\ execs[e].verdict \in {"dry_run", "rolled_back"} =>
              \A t \in Reversible(execs[e].plan) : files[t] = execs[e].before[t]
<1>1. ExecutorInv /\ [Next]_vars => P
  <2> SUFFICES ASSUME ExecutorInv, [Next]_vars, NEW e \in Executions, Ends(e), execs[e].alone,
                      execs[e].verdict \in {"dry_run", "rolled_back"},
                      NEW t \in Reversible(execs[e].plan)
               PROVE  files[t] = execs[e].before[t]
    OBVIOUS
  <2>1. execs[e].phase = "reporting"
    BY EndsReporting
  <2>2. execs[e].backups = <<>>
    BY <2>1, Typed DEF Shape
  <2>3. ~Backed(execs[e].backups, t)
    BY <2>2 DEF Backed
  <2> QED
    BY <2>1, <2>3, Typed DEF Owes, Running
<1>2. ExecutorInv /\ [Next]_vars => [P]_vars
  BY <1>1
<1> QED
  BY <1>2, ExecutorInit, ExecutorStep, PTL DEF Spec, FailureChangesNothing, P

------------------------------------------------------------------------------
(* The outcome of a plan                                                   *)

\* The greatest position of a part of a plan.
LEMMA MaxOfPlan ==
    ASSUME NEW n \in Nat, NEW s \in SUBSET (1..n), s # {}
    PROVE  Max(s) \in s /\ \A i \in s : i <= Max(s)
<1>1. IsFiniteSet(s)
  <2>1. IsFiniteSet(1..n)
    BY FS_Interval
  <2> QED
    BY <2>1, FS_Subset
<1>2. HasMax(s)
  BY <1>1, MaxExists
<1>3. Max(s) \in s /\ \A i \in s : Max(s) >= i
  BY <1>2 DEF HasMax, Max
<1>4. \A i \in s : i \in Int
  OBVIOUS
<1> QED
  BY <1>3, <1>4

\* What FoldLeft computes, unrolled: the steps are taken one after the other, from the first.
LEMMA OutcomeIsFold ==
    ASSUME NEW plan \in Seq(PlanSteps), NEW before \in [Targets -> Files],
       \A step \in PlanSteps, f \in Files : Effect(step, f) \in Files
    PROVE  \E h \in [0..Len(plan) -> [Targets -> Files]] :
              /\ h[0] = before
              /\ \A n \in 1..Len(plan) :
                    h[n] = [h[n - 1] EXCEPT ![plan[n].target] = Effect(plan[n], @)]
              /\ Outcome(plan, before) = h[Len(plan)]
<1> DEFINE V == [Targets -> Files]
           D == DOMAIN plan
           R(it) == it = [s \in SUBSET D |-> IF s = {} THEN before
              ELSE LET x == Max(s) IN [it[s \ {x}] EXCEPT ![plan[x].target] = Effect(plan[x], @)]]
           iter == CHOOSE it : R(it)
<1>1. Outcome(plan, before) = iter[D]
  BY DEF Outcome, FoldLeft, MapThenFoldSet
<1> DEFINE pick == [s \in SUBSET D |-> Max(s)]
           does == [w \in D \X V |-> [w[2] EXCEPT ![plan[w[1]].target] = Effect(plan[w[1]], @)]]
<1>2. IsFiniteSet(D) /\ D = 1..Len(plan) /\ \A i \in D : plan[i] \in PlanSteps
  BY FS_Interval
<1>3. \A s \in SUBSET D : s # {} => Max(s) \in s /\ \A i \in s : i <= Max(s)
  <2>1. Len(plan) \in Nat
    OBVIOUS
  <2> HIDE DEF D
  <2> QED
    BY <1>2, <2>1, MaxOfPlan
<1>4. Picks(pick, D)
  BY <1>3 DEF Picks
<1>5. does \in [D \X V -> V]
  <2>1. ASSUME NEW w \in D \X V PROVE does[w] \in V
    <3>1. plan[w[1]] \in PlanSteps /\ w[2] \in [Targets -> Files]
      BY <1>2
    <3>2. plan[w[1]].target \in Targets
      BY <3>1 DEF PlanSteps
    <3> QED
      BY <3>1, <3>2
  <2> QED
    BY <2>1
<1>6. HasFold(before, pick, does, D, V)
  <2>1. before \in V
    OBVIOUS
  <2> HIDE DEF D, V, pick, does
  <2> QED
    BY <1>2, <1>4, <1>5, <2>1, FoldExists
<1>7. PICK g \in [SUBSET D -> V] : IsFold(g, before, pick, does, D)
  BY <1>6 DEF HasFold
<1>8. \A s \in SUBSET D : g[s] = IF s = {} THEN before
              ELSE LET x == Max(s) IN [g[s \ {x}] EXCEPT ![plan[x].target] = Effect(plan[x], @)]
  <2>1. ASSUME NEW s \in SUBSET D, s # {} PROVE g[s] = LET x == Max(s) IN [g[s \ {x}] EXCEPT ![plan[x].target] = Effect(plan[x], @)]
    <3>1. Max(s) \in D /\ s \ {Max(s)} \in SUBSET D
      BY <1>3, <2>1
    <3>2. g[s] = does[<<Max(s), g[s \ {Max(s)}]>>]
      BY <1>7, <2>1 DEF IsFold, FoldAt
    <3>3. <<Max(s), g[s \ {Max(s)}]>> \in D \X V
      BY <3>1
    <3> QED
      BY <3>2, <3>3
  <2> QED
    BY <2>1, <1>7 DEF IsFold, FoldAt
<1>9. R(g)
  <2>1. g = [s \in SUBSET D |-> g[s]]
    OBVIOUS
  <2> HIDE DEF D
  <2> QED
    BY <1>8, <2>1
<1>10. R(iter)
  <2> HIDE DEF R
  <2> QED
    BY <1>9
<1>11. \A s \in SUBSET D : iter[s] = IF s = {} THEN before
              ELSE LET x == Max(s) IN [iter[s \ {x}] EXCEPT ![plan[x].target] = Effect(plan[x], @)]
  <2> HIDE DEF iter, D
  <2> QED
    BY <1>10
<1>12. AgreeInTurn(g, iter, D)
  <2> HIDE DEF iter, pick, does
  <2> SUFFICES ASSUME NEW s \in SUBSET D, \A r \in SUBSET s : r # s => g[r] = iter[r] PROVE g[s] = iter[s]
    BY DEF AgreeInTurn
  <2>1. CASE s = {}
    BY <1>8, <1>11, <2>1
  <2>2. CASE s # {}
    <3>1. g[s \ {Max(s)}] = iter[s \ {Max(s)}]
      BY <1>3, <2>2
    <3> QED
      BY <1>8, <1>11, <2>2, <3>1
  <2> QED
    BY <2>1, <2>2
<1>13. \A s \in SUBSET D : g[s] = iter[s]
  <2> HIDE DEF iter, D
  <2>1. Agree(g, iter, D)
    BY <1>2, <1>12, SubsetUnique
  <2> QED
    BY <2>1 DEF Agree
<1> DEFINE h == [n \in 0..Len(plan) |-> g[1..n]]
<1>14. \A n \in 0..Len(plan) : 1..n \in SUBSET D
  BY <1>2
<1>15. h \in [0..Len(plan) -> V] /\ h[0] = before /\ h[Len(plan)] = Outcome(plan, before)
  <2>1. Len(plan) \in Nat /\ 1..0 = {} /\ 1..Len(plan) = D
    BY <1>2
  <2>2. g[{}] = before /\ g[D] = Outcome(plan, before)
    BY <1>1, <1>8, <1>13
  <2>3. \A n \in 0..Len(plan) : g[1..n] \in V
    BY <1>14
  <2> HIDE DEF D, V
  <2> QED
    BY <2>1, <2>2, <2>3
<1>16. ASSUME NEW n \in 1..Len(plan) PROVE h[n] = [h[n - 1] EXCEPT ![plan[n].target] = Effect(plan[n], @)]
  <2>1. 1..n # {} /\ 1..n \in SUBSET D /\ n - 1 \in 0..Len(plan) /\ n \in 0..Len(plan)
    <3>1. Len(plan) \in Nat /\ n \in 1..Len(plan)
      OBVIOUS
    <3> HIDE DEF D
    <3> QED
      BY <1>2, <3>1
  <2>2. Max(1..n) = n
    <3>1. Max(1..n) \in 1..n /\ \A i \in 1..n : i <= Max(1..n)
      BY <1>3, <2>1
    <3>2. n \in 1..n /\ n \in Nat
      OBVIOUS
    <3> QED
      BY <3>1, <3>2
  <2>3. (1..n) \ {n} = 1..(n - 1)
    OBVIOUS
  <2>4. g[1..n] = [g[1..(n - 1)] EXCEPT ![plan[n].target] = Effect(plan[n], @)]
    BY <1>8, <2>1, <2>2, <2>3
  <2> HIDE DEF D, V
  <2> QED
    BY <2>1, <2>4
<1> QED
  BY <1>15, <1>16

------------------------------------------------------------------------------
(* A success is the whole plan.                                            *)

\* h: the files after 0, 1, 2, ... steps of the plan.
Course(h, plan, before) ==
    /\ h \in [0..Len(plan) -> [Targets -> Files]]
    /\ h[0] = before
    /\ \A n \in 1..Len(plan) : h[n] = [h[n - 1] EXCEPT ![plan[n].target] = Effect(plan[n], @)]

\* The files of the plan are as the course h has them after the steps done so far, and a
\* step that is half done holds what it will write.
OnCourse(x, fs, h) ==
    /\ x.phase = "reporting" => \A t \in TargetsOf(x.plan) : fs[t] = h[Len(x.plan)][t]
    /\ x.phase \in Stepping =>
           /\ x.next \in 1..(Len(x.plan) + 1)
           /\ \A t \in TargetsOf(x.plan) :
                  fs[t] = h[x.next - 1][t] \/ (x.phase = "removed" /\ t = x.plan[x.next].target)
    /\ x.phase \in {"drafted", "removed"} =>
           x.draft = Effect(x.plan[x.next], h[x.next - 1][x.plan[x.next].target])

\* An execution that has its targets for itself and has not failed has done the steps
\* before the one under way, all of them and nothing else.
Succeeding(x) == x.phase \in Running /\ x.alone /\ x.verdict = "success"
Done(x, fs) == Succeeding(x) => \A h : Course(h, x.plan, x.before) => OnCourse(x, fs, h)

DoneInv == \A e \in Executions : Done(execs[e], files)

\* The history of a plan ends in its outcome.
LEMMA OutcomeOfCourse ==
    ASSUME NEW plan \in Seq(PlanSteps), NEW before \in [Targets -> Files]
    PROVE  \E h : Course(h, plan, before) /\ Outcome(plan, before) = h[Len(plan)]
<1>1. \A step \in PlanSteps, f \in Files : Effect(step, f) \in Files
  BY EffectIsFile
<1>2. \E h \in [0..Len(plan) -> [Targets -> Files]] :
              /\ h[0] = before
              /\ \A n \in 1..Len(plan) :
                    h[n] = [h[n - 1] EXCEPT ![plan[n].target] = Effect(plan[n], @)]
              /\ Outcome(plan, before) = h[Len(plan)]
  BY <1>1, OutcomeIsFold
<1> QED
  BY <1>2 DEF Course

\* A step of a running execution leaves the others where they are: it changes files of its
\* own targets only, and they share none with it.
LEMMA DoneStep ==
    ASSUME ExecutorInv, DoneInv, NEW e \in Executions, execs[e].phase \in Running,
           \A d \in Executions \ {e} : execs'[d] = execs[d],
           \A t \in Targets : files'[t] = files[t] \/ t \in TargetsOf(execs[e].plan),
           Done(execs'[e], files')
    PROVE  DoneInv'
<1> SUFFICES ASSUME NEW d \in Executions, d # e PROVE Done(execs[d], files')
  BY DEF DoneInv
<1>1. Done(execs[d], files)
  BY DEF DoneInv
<1> SUFFICES ASSUME Succeeding(execs[d]), NEW h, Course(h, execs[d].plan, execs[d].before)
             PROVE  OnCourse(execs[d], files', h)
  BY DEF Done
<1>2. OnCourse(execs[d], files, h)
  BY <1>1 DEF Done
<1>3. ~Overlap(execs[d].plan, execs[e].plan)
  BY DEF ExecutorInv, Apart, Succeeding
<1>4. TargetsOf(execs[d].plan) \subseteq Targets
  BY Typed, PlanTargets
<1>5. \A t \in TargetsOf(execs[d].plan) : files'[t] = files[t]
  BY <1>3, <1>4 DEF Overlap
<1> QED
  BY <1>2, <1>5 DEF OnCourse

\* What a step of the plan starts from.
LEMMA UnderWay ==
    ASSUME ExecutorInv, DoneInv, NEW e \in Executions, Succeeding(execs[e]),
           execs[e].phase \in Stepping, HasStep(e),
           NEW h, Course(h, execs[e].plan, execs[e].before)
    PROVE  /\ execs[e].next \in 1..Len(execs[e].plan)
           /\ execs[e].next \in Nat /\ Len(execs[e].plan) \in Nat
           /\ h[execs[e].next] =
                 [h[execs[e].next - 1] EXCEPT ![Step(e).target] = Effect(Step(e), @)]
           /\ h[execs[e].next - 1] \in [Targets -> Files]
           /\ OnCourse(execs[e], files, h)
           /\ Step(e).target \in Targets /\ TargetsOf(execs[e].plan) \subseteq Targets
           /\ files \in [Targets -> Files]
           /\ Step(e).target \in TargetsOf(execs[e].plan)
<1>1. execs[e].plan \in Seq(PlanSteps) /\ execs[e].next \in Nat \ {0}
  BY Typed
<1>2. execs[e].next \in 1..Len(execs[e].plan)
  BY <1>1 DEF HasStep
<1>3. execs[e].next - 1 \in 0..Len(execs[e].plan) /\ Len(execs[e].plan) \in Nat
  BY <1>1, <1>2
<1>4. OnCourse(execs[e], files, h)
  BY DEF DoneInv, Done
<1> QED
  BY <1>1, <1>2, <1>3, <1>4, Typed, PlanTargets DEF Course, Step

\* The step under way has been done: its target is as the course has it next.
LEMMA DoneNext ==
    ASSUME ExecutorInv, DoneInv, NEW e \in Executions, execs[e].phase \in Stepping, HasStep(e),
           execs[e].phase # "removed" => execs[e].phase = "applying",
           NEW f, files' = [files EXCEPT ![Step(e).target] = f],
           f = IF execs[e].phase = "removed" THEN execs[e].draft
               ELSE Effect(Step(e), files[Step(e).target]),
           NEW x, execs'[e] = x,
           x.phase = "stepping", x.next = execs[e].next + 1, x.plan = execs[e].plan,
           x.before = execs[e].before, x.alone = execs[e].alone, x.verdict = execs[e].verdict
    PROVE  Done(execs'[e], files')
<1> SUFFICES ASSUME Succeeding(x), NEW h, Course(h, x.plan, x.before)
             PROVE  OnCourse(x, files', h)
  BY DEF Done
<1>1. Succeeding(execs[e]) /\ Course(h, execs[e].plan, execs[e].before)
  BY DEF Succeeding, Running
<1> DEFINE n == execs[e].next
           u == Step(e).target
<1>2. /\ n \in 1..Len(execs[e].plan) /\ n \in Nat /\ Len(execs[e].plan) \in Nat
      /\ h[n] = [h[n - 1] EXCEPT ![u] = Effect(Step(e), @)]
      /\ h[n - 1] \in [Targets -> Files]
      /\ OnCourse(execs[e], files, h)
      /\ u \in Targets /\ TargetsOf(execs[e].plan) \subseteq Targets
      /\ files \in [Targets -> Files]
      /\ u \in TargetsOf(execs[e].plan)
  BY <1>1, UnderWay
<1>3. f = Effect(Step(e), h[n - 1][u])
  BY <1>2 DEF OnCourse, Step
<1>4. ASSUME NEW t \in TargetsOf(execs[e].plan) PROVE files'[t] = h[n][t]
  <2>1. t \in Targets
    BY <1>2
  <2>2. CASE t = u
    BY <1>2, <1>3, <2>1, <2>2
  <2>3. CASE t # u
    <3>1. files[t] = h[n - 1][t]
      BY <1>2, <2>3 DEF OnCourse, Step
    <3> QED
      BY <1>2, <2>1, <2>3, <3>1
  <2> QED
    BY <2>2, <2>3
<1>5. x.next \in 1..(Len(x.plan) + 1) /\ x.next - 1 = n
  BY <1>2
<1> QED
  BY <1>4, <1>5 DEF OnCourse

\* Every step of a running execution keeps it on its course, or it has failed or ended.
LEMMA OwnDone ==
    ASSUME ExecutorInv, DoneInv, NEW e \in Executions, Proceed(e)
    PROVE  DoneInv'
<1>1. execs \in [Executions -> ExecutionStates] /\ files \in [Targets -> Files]
  BY DEF ExecutorInv, TypeOK
<1> DEFINE x0 == execs[e]
           Others == \A d \in Executions \ {e} : execs'[d] = execs[d]
           Touches == \A t \in Targets : files'[t] = files[t] \/ t \in TargetsOf(execs[e].plan)
<1>2. x0 \in ExecutionStates /\ Shape(x0) /\ (HasStep(e) => Step(e) \in PlanSteps)
  BY Typed
<1>3. x0.phase \in {"applying", "drafted", "removed"} => HasStep(e)
  BY <1>2 DEF Shape, HasStep
<1>a. x0.next \in Nat \ {0} /\ x0.plan \in Seq(PlanSteps)
  BY Typed
<1>4. CASE Backup(e)
  <2>1. PICK b : execs' = [execs EXCEPT ![e].phase = "applying", ![e].backups = b]
    BY <1>1, <1>4 DEF Backup
  <2>2. Others /\ Touches /\ x0.phase \in Running /\ UNCHANGED files
    BY <1>1, <1>4, <2>1 DEF Backup, Running, Stepping
  <2>3. /\ x0.phase = "stepping" /\ HasStep(e)
        /\ execs'[e].phase = "applying" /\ execs'[e].plan = x0.plan /\ execs'[e].next = x0.next
        /\ execs'[e].before = x0.before /\ execs'[e].alone = x0.alone
        /\ execs'[e].verdict = x0.verdict
    BY <1>1, <1>2, <1>4, <2>1 DEF Backup, ExecutionStates
  <2>4. Done(execs'[e], files')
    <3> SUFFICES ASSUME Succeeding(execs'[e]), NEW h, Course(h, x0.plan, x0.before)
                 PROVE  OnCourse(execs'[e], files, h)
      BY <2>2, <2>3 DEF Done
    <3>1. OnCourse(x0, files, h)
      BY <2>2, <2>3 DEF DoneInv, Done, Succeeding
    <3> QED
      BY <2>3, <3>1 DEF OnCourse, Stepping
  <2> QED
    BY <2>2, <2>4, DoneStep
<1>5. CASE Apply(e)
  <2> DEFINE f == Effect(Step(e), files[Step(e).target])
  <2>1. /\ x0.phase = "applying" /\ files' = [files EXCEPT ![Step(e).target] = f]
        /\ execs' = [execs EXCEPT ![e].phase = "stepping", ![e].next = @ + 1]
    BY <1>5 DEF Apply, NextStep
  <2>2. f \in Files
    BY <1>1, <1>2, <1>3, <2>1, Typed, EffectIsFile
  <2> HIDE DEF f
  <2>3. Others /\ x0.phase \in Running /\ x0.phase \in Stepping
    BY <1>1, <2>1 DEF Running, Stepping
  <2>4. Touches
    BY <2>1, <2>2, StepTouches
  <2>5. /\ execs'[e].phase = "stepping" /\ execs'[e].plan = x0.plan /\ execs'[e].next = x0.next + 1
        /\ execs'[e].before = x0.before /\ execs'[e].alone = x0.alone
        /\ execs'[e].verdict = x0.verdict
    BY <1>1, <1>2, <2>1 DEF ExecutionStates
  <2>6. Done(execs'[e], files')
    BY <1>3, <2>1, <2>3, <2>5, DoneNext DEF f
  <2> QED
    BY <2>3, <2>4, <2>6, DoneStep
<1>6. CASE Draft(e)
  <2>1. /\ x0.phase = "applying" /\ UNCHANGED files
        /\ execs' = [execs EXCEPT ![e].phase = "drafted",
                                  ![e].draft = Effect(Step(e), files[Step(e).target])]
    BY <1>6 DEF Draft
  <2>2. Others /\ Touches /\ x0.phase \in Running /\ x0.phase \in Stepping
    BY <1>1, <2>1 DEF Running, Stepping
  <2>3. /\ execs'[e].phase = "drafted" /\ execs'[e].plan = x0.plan /\ execs'[e].next = x0.next
        /\ execs'[e].before = x0.before /\ execs'[e].alone = x0.alone
        /\ execs'[e].verdict = x0.verdict
        /\ execs'[e].draft = Effect(Step(e), files[Step(e).target])
    BY <1>1, <1>2, <2>1 DEF ExecutionStates
  <2>4. Done(execs'[e], files')
    <3> SUFFICES ASSUME Succeeding(execs'[e]), NEW h, Course(h, x0.plan, x0.before)
                 PROVE  OnCourse(execs'[e], files, h)
      BY <2>1, <2>3 DEF Done
    <3>1. Succeeding(x0)
      BY <2>2, <2>3 DEF Succeeding
    <3>2. OnCourse(x0, files, h) /\ Step(e).target \in TargetsOf(x0.plan)
      BY <1>3, <2>1, <2>2, <3>1, UnderWay
    <3>3. files[Step(e).target] = h[x0.next - 1][Step(e).target]
      BY <2>1, <2>2, <3>2 DEF OnCourse
    <3> QED
      BY <2>1, <2>2, <2>3, <3>2, <3>3 DEF OnCourse, Stepping, Step
  <2> QED
    BY <2>2, <2>4, DoneStep
<1>7. CASE RemoveTarget(e)
  <2>1. /\ x0.phase = "drafted" /\ files' = [files EXCEPT ![Step(e).target] = Missing]
        /\ execs' = [execs EXCEPT ![e].phase = "removed"]
    BY <1>7 DEF RemoveTarget
  <2>2. Others /\ x0.phase \in Running /\ x0.phase \in Stepping
    BY <1>1, <2>1 DEF Running, Stepping
  <2>3. Touches
    <3>1. Missing \in Files
      BY DEF Files
    <3> QED
      BY <2>1, <3>1, StepTouches
  <2>4. /\ execs'[e].phase = "removed" /\ execs'[e].plan = x0.plan /\ execs'[e].next = x0.next
        /\ execs'[e].before = x0.before /\ execs'[e].alone = x0.alone
        /\ execs'[e].verdict = x0.verdict /\ execs'[e].draft = x0.draft
    BY <1>1, <1>2, <2>1 DEF ExecutionStates
  <2>5. Done(execs'[e], files')
    <3> SUFFICES ASSUME Succeeding(execs'[e]), NEW h, Course(h, x0.plan, x0.before)
                 PROVE  OnCourse(execs'[e], files', h)
      BY <2>4 DEF Done
    <3>1. Succeeding(x0)
      BY <2>2, <2>4 DEF Succeeding
    <3>2. OnCourse(x0, files, h) /\ TargetsOf(x0.plan) \subseteq Targets
      BY <1>3, <2>1, <2>2, <3>1, UnderWay
    <3>3. \A t \in TargetsOf(x0.plan) : t = Step(e).target \/ files'[t] = files[t]
      BY <1>1, <2>1, <3>2
    <3>4. \A t \in TargetsOf(x0.plan) : t = Step(e).target \/ files'[t] = h[x0.next - 1][t]
      BY <2>1, <2>2, <3>2, <3>3 DEF OnCourse
    <3>5. /\ x0.next \in 1..(Len(x0.plan) + 1)
          /\ x0.draft = Effect(x0.plan[x0.next], h[x0.next - 1][x0.plan[x0.next].target])
      BY <2>1, <2>2, <3>2 DEF OnCourse
    <3>6. Step(e) = x0.plan[x0.next]
      BY DEF Step
    <3> HIDE DEF x0
    <3> QED
      BY <2>4, <3>4, <3>5, <3>6 DEF OnCourse
  <2> QED
    BY <2>2, <2>3, <2>5, DoneStep
<1>8. CASE Rename(e)
  <2>1. /\ x0.phase = "removed" /\ files' = [files EXCEPT ![Step(e).target] = x0.draft]
        /\ execs' = [NextStep(e) EXCEPT ![e].draft = Missing]
    BY <1>8 DEF Rename
  <2>2. execs' = [execs EXCEPT ![e].phase = "stepping", ![e].next = @ + 1, ![e].draft = Missing]
    BY <1>1, <2>1 DEF NextStep
  <2>3. Others /\ x0.phase \in Running /\ x0.phase \in Stepping /\ x0.draft \in Files
    BY <1>1, <1>2, <2>1, <2>2 DEF Running, Stepping, ExecutionStates
  <2>4. Touches
    BY <2>1, <2>3, StepTouches
  <2>5. /\ execs'[e].phase = "stepping" /\ execs'[e].plan = x0.plan /\ execs'[e].next = x0.next + 1
        /\ execs'[e].before = x0.before /\ execs'[e].alone = x0.alone
        /\ execs'[e].verdict = x0.verdict
    BY <1>1, <1>2, <2>2 DEF ExecutionStates
  <2>6. Done(execs'[e], files')
    BY <1>3, <2>1, <2>3, <2>5, DoneNext
  <2> QED
    BY <2>3, <2>4, <2>6, DoneStep
<1>9. CASE StepFails(e)
  <2>1. Others /\ x0.phase \in Running /\ execs'[e].verdict = "rolled_back"
    BY <1>1, <1>2, <1>9 DEF StepFails, Running, ExecutionStates
  <2>2. Touches
    <3>1. CASE UNCHANGED files
      BY <3>1
    <3>2. CASE ~UNCHANGED files
      <4>1. Step(e) \in PlanSteps /\ files[Step(e).target] \in Files
        BY <1>9, Typed DEF StepFails
      <4>2. Effect(Step(e), files[Step(e).target]) \in Files
        BY <4>1, EffectIsFile
      <4>3. Between(files[Step(e).target], Effect(Step(e), files[Step(e).target])) \subseteq Files
        BY <4>1, <4>2, BetweenIsFile
      <4>4. x0.phase = "applying" /\ \E f \in Files : files' = [files EXCEPT ![Step(e).target] = f]
        BY <1>9, <3>2, <4>3 DEF StepFails
      <4> QED
        BY <4>4, StepTouches
    <3> QED
      BY <3>1, <3>2
  <2>3. Done(execs'[e], files')
    BY <2>1 DEF Done, Succeeding
  <2> QED
    BY <2>1, <2>2, <2>3, DoneStep
<1>10. CASE Succeed(e)
  <2>1. /\ x0.phase = "stepping" /\ UNCHANGED files /\ ~HasStep(e)
        /\ execs' = [execs EXCEPT ![e].phase = "reporting"]
    BY <1>10 DEF Succeed
  <2>2. Others /\ Touches /\ x0.phase \in Running
    BY <1>1, <2>1 DEF Running, Stepping
  <2>3. /\ execs'[e].phase = "reporting" /\ execs'[e].plan = x0.plan
        /\ execs'[e].before = x0.before /\ execs'[e].alone = x0.alone
        /\ execs'[e].verdict = x0.verdict
    BY <1>1, <1>2, <2>1 DEF ExecutionStates
  <2>4. Done(execs'[e], files')
    <3> SUFFICES ASSUME Succeeding(execs'[e]), NEW h, Course(h, x0.plan, x0.before)
                 PROVE  OnCourse(execs'[e], files, h)
      BY <2>1, <2>3 DEF Done
    <3>1. OnCourse(x0, files, h)
      BY <2>2, <2>3 DEF DoneInv, Done, Succeeding
    <3>2. x0.next \in 1..(Len(x0.plan) + 1) /\ x0.next \notin 1..Len(x0.plan)
      BY <1>a, <2>1, <3>1 DEF OnCourse, Stepping, HasStep
    <3>3. x0.next - 1 = Len(x0.plan)
      BY <1>a, <3>2
    <3> QED
      BY <2>1, <2>3, <3>1, <3>3 DEF OnCourse, Stepping
  <2> QED
    BY <2>2, <2>4, DoneStep
<1>11. CASE Clear(e)
  <2>1. x0.phase = "rolling" /\ x0.verdict # "success" /\ x0.backups # <<>>
        /\ files' = [files EXCEPT ![LastBackup(e).target] = Missing]
    BY <1>2, <1>11 DEF Clear, Shape, Restoring
  <2>2. Others /\ x0.phase \in Running /\ execs'[e].verdict = x0.verdict
    BY <1>1, <1>2, <1>11, <2>1 DEF Clear, Running, Restoring, ExecutionStates
  <2>3. Missing \in Files
    BY DEF Files
  <2>4. Touches
    BY <2>1, <2>3, RestoreTouches
  <2> QED
    BY <2>1, <2>2, <2>4, DoneStep DEF Done, Succeeding
<1>12. CASE CopyBack(e)
  <2>1. x0.phase = "restoring" /\ x0.verdict # "success" /\ x0.backups # <<>>
        /\ files' = [files EXCEPT ![LastBackup(e).target] = LastBackup(e).file]
    BY <1>2, <1>12 DEF CopyBack, Shape, Restoring
  <2>2. Others /\ x0.phase \in Running /\ execs'[e].verdict = x0.verdict
    BY <1>1, <1>2, <1>12, <2>1 DEF CopyBack, Running, Restoring, ExecutionStates
  <2>3. LastBackup(e).file \in Files
    BY <2>1, Typed, FrontBackups DEF LastBackup, Backups
  <2>4. Touches
    BY <2>1, <2>3, RestoreTouches
  <2> QED
    BY <2>1, <2>2, <2>4, DoneStep DEF Done, Succeeding
<1>13. CASE RestoreFails(e)
  <2>1. Others /\ x0.phase \in Running /\ execs'[e].verdict = "rollback_failed"
    BY <1>1, <1>2, <1>13 DEF RestoreFails, Running, ExecutionStates
  <2>2. Touches
    <3> DEFINE old == files[LastBackup(e).target]
               new == IF x0.phase = "rolling" THEN Missing ELSE LastBackup(e).file
    <3>1. x0.backups # <<>>
      BY <1>13 DEF RestoreFails
    <3>2. LastBackup(e).file \in Files /\ LastBackup(e).target \in Targets
      BY <3>1, Typed, FrontBackups DEF LastBackup, Backups
    <3>3. old \in Files /\ new \in Files
      BY <1>1, <3>2 DEF Files
    <3>4. Between(old, new) \subseteq Files
      BY <3>3, BetweenIsFile
    <3>5. \E left \in Between(old, new) : files' = [files EXCEPT ![LastBackup(e).target] = left]
      BY <1>13 DEF RestoreFails
    <3>6. PICK left \in Files : files' = [files EXCEPT ![LastBackup(e).target] = left]
      BY <3>4, <3>5
    <3> HIDE DEF old, new
    <3> QED
      BY <3>1, <3>6, RestoreTouches
  <2> QED
    BY <2>1, <2>2, DoneStep DEF Done, Succeeding
<1>14. CASE RolledBack(e)
  <2>1. x0.phase = "rolling" /\ x0.verdict # "success" /\ UNCHANGED files
    BY <1>2, <1>14 DEF RolledBack, Shape, Restoring
  <2>2. Others /\ Touches /\ x0.phase \in Running /\ execs'[e].verdict = x0.verdict
    BY <1>1, <1>2, <1>14, <2>1 DEF RolledBack, Running, Restoring, ExecutionStates
  <2> QED
    BY <2>1, <2>2, DoneStep DEF Done, Succeeding
<1>15. CASE PersistRecord(e) \/ UpdatePlanStatus(e)
  <2>1. UNCHANGED <<execs, files>>
    BY <1>15 DEF PersistRecord, UpdatePlanStatus
  <2> QED
    BY <2>1 DEF DoneInv
<1>16. CASE EnqueueEvent(e)
  <2>1. Others /\ Touches /\ x0.phase \in Running
    BY <1>1, <1>16 DEF EnqueueEvent, End, Running
  <2>2. execs'[e].phase = "returned"
    BY <1>1, <1>16 DEF EnqueueEvent, End, Idle
  <2> QED
    BY <2>1, <2>2, DoneStep DEF Done, Succeeding, Running, Stepping, Restoring
<1>17. CASE StatementFails(e)
  <2>1. Others /\ Touches /\ x0.phase \in Running
    BY <1>1, <1>17 DEF StatementFails, End, Running
  <2>2. execs'[e].phase = "threw" \/ execs'[e].verdict = "rolled_back"
    BY <1>17, FailsPhase
  <2> QED
    BY <2>1, <2>2, DoneStep DEF Done, Succeeding, Running, Stepping, Restoring
<1> QED
  BY <1>4, <1>5, <1>6, <1>7, <1>8, <1>9, <1>10, <1>11, <1>12, <1>13, <1>14, <1>15, <1>16, <1>17 DEF Proceed

\* A new execution starts at the head of its course, and touches nothing yet.
LEMMA StartDone ==
    ASSUME ExecutorInv, DoneInv, NEW e \in Executions, NEW plan \in Plans[e], NEW dryRun \in BOOLEAN,
           Start(e, plan, dryRun)
    PROVE  DoneInv'
<1>1. execs \in [Executions -> ExecutionStates] /\ UNCHANGED files /\ execs[e].phase = "idle"
  BY DEF ExecutorInv, TypeOK, Start
<1>2. plan \in Seq(PlanSteps)
  BY ExecutorAssumption
<1> SUFFICES ASSUME NEW d \in Executions PROVE Done(execs'[d], files)
  BY <1>1 DEF DoneInv
<1>3. Done(execs[d], files)
  BY DEF DoneInv
<1>4. CASE execs' = [execs EXCEPT ![e].phase = "threw"]
  <2>1. CASE d = e
    BY <1>1, <1>4, <2>1 DEF Done, Succeeding, Running, Stepping, Restoring, ExecutionStates
  <2>2. CASE d # e
    BY <1>1, <1>3, <1>4, <2>2
  <2> QED
    BY <2>1, <2>2
<1>5. CASE execs' # [execs EXCEPT ![e].phase = "threw"]
  <2>1. CASE d # e
    <3>1. execs'[d] = [execs[d] EXCEPT !.alone = @ /\ ~Overlap(plan, execs[d].plan)]
      BY <1>5, <2>1 DEF Start
    <3>2. execs[d] \in ExecutionStates
      BY <1>1
    <3>3. /\ execs'[d].phase = execs[d].phase /\ execs'[d].plan = execs[d].plan
          /\ execs'[d].next = execs[d].next /\ execs'[d].draft = execs[d].draft
          /\ execs'[d].verdict = execs[d].verdict /\ execs'[d].before = execs[d].before
          /\ execs'[d].alone => execs[d].alone
      BY <3>1, <3>2 DEF ExecutionStates
    <3> QED
      BY <1>3, <3>3 DEF Done, Succeeding, OnCourse
  <2>2. CASE d = e
    <3> DEFINE quiet == \A o \in Executions :
                  execs[o].phase \in Running => ~Overlap(plan, execs[o].plan)
               begun == [Idle EXCEPT !.phase = IF dryRun THEN "reporting" ELSE "stepping",
                                     !.plan = plan,
                                     !.verdict = IF dryRun THEN "dry_run" ELSE "success",
                                     !.before = files, !.alone = quiet]
    <3>a. execs' = [o \in Executions |->
                     IF o # e THEN [execs[o] EXCEPT !.alone = @ /\ ~Overlap(plan, execs[o].plan)]
                     ELSE begun]
      BY <1>5, Zenon DEF Start
    <3>b. execs'[e] = begun
      <4> HIDE DEF begun
      <4> QED
        BY <3>a
    <3>c. /\ begun.phase = IF dryRun THEN "reporting" ELSE "stepping"
          /\ begun.verdict = IF dryRun THEN "dry_run" ELSE "success"
          /\ begun.next = 1 /\ begun.plan = plan /\ begun.before = files
      <4> HIDE DEF quiet
      <4> QED
        BY DEF Idle
    <3> HIDE DEF begun
    <3>1. /\ execs'[d].phase = IF dryRun THEN "reporting" ELSE "stepping"
          /\ execs'[d].verdict = IF dryRun THEN "dry_run" ELSE "success"
          /\ execs'[d].next = 1 /\ execs'[d].plan = plan /\ execs'[d].before = files
      BY <2>2, <3>b, <3>c
    <3> SUFFICES ASSUME execs'[d].phase = "stepping", NEW h, Course(h, plan, files)
                 PROVE  OnCourse(execs'[d], files, h)
      BY <3>1 DEF Done, Succeeding
    <3>2. h[1 - 1] = files
      BY DEF Course
    <3>3. 1 \in 1..(Len(plan) + 1)
      BY <1>2
    <3> QED
      BY <3>1, <3>2, <3>3 DEF OnCourse
  <2> QED
    BY <2>1, <2>2
<1> QED
  BY <1>4, <1>5

LEMMA DoneNextStep == ExecutorInv /\ DoneInv /\ [Next]_vars => DoneInv'
<1> SUFFICES ASSUME ExecutorInv, DoneInv, [Next]_vars PROVE DoneInv'
  OBVIOUS
<1>1. CASE UNCHANGED vars
  BY <1>1 DEF vars, DoneInv
<1>2. CASE UNCHANGED <<execs, files>>
  BY <1>2 DEF DoneInv
<1> QED
  BY <1>1, <1>2, StartDone, OwnDone DEF Next, Synced

LEMMA DoneInit == Init => DoneInv
BY DEF Init, DoneInv, Done, Succeeding, Idle, Running, Stepping, Restoring

\* An execution that reports a success and had its targets for itself leaves them as the whole
\* plan does, step after step, for plans of any length (LocalExecutor.execute).
THEOREM SuccessDoesAll == Spec => SuccessIsTheWholePlan
<1> DEFINE P == \A e \in Executions :
          Ends(e) /\ execs[e].alone /\ execs[e].verdict = "success" =>
              \A t \in TargetsOf(execs[e].plan) :
                  files[t] = Outcome(execs[e].plan, execs[e].before)[t]
<1>1. ExecutorInv /\ DoneInv /\ [Next]_vars => P
  <2> SUFFICES ASSUME ExecutorInv, DoneInv, [Next]_vars, NEW e \in Executions, Ends(e),
                      execs[e].alone, execs[e].verdict = "success",
                      NEW t \in TargetsOf(execs[e].plan)
               PROVE  files[t] = Outcome(execs[e].plan, execs[e].before)[t]
    OBVIOUS
  <2>1. execs[e].phase = "reporting"
    BY EndsReporting
  <2>2. execs[e].plan \in Seq(PlanSteps) /\ execs[e].before \in [Targets -> Files]
    BY Typed DEF ExecutionStates
  <2>3. PICK h : /\ Course(h, execs[e].plan, execs[e].before)
                 /\ Outcome(execs[e].plan, execs[e].before) = h[Len(execs[e].plan)]
    BY <2>2, OutcomeOfCourse
  <2>4. OnCourse(execs[e], files, h)
    BY <2>1, <2>3 DEF DoneInv, Done, Succeeding, Running
  <2> QED
    BY <2>1, <2>3, <2>4 DEF OnCourse
<1>2. ExecutorInv /\ DoneInv /\ [Next]_vars => [P]_vars
  BY <1>1
<1> QED
  BY <1>2, ExecutorInit, ExecutorStep, DoneInit, DoneNextStep, PTL
     DEF Spec, SuccessIsTheWholePlan, P
=============================================================================
