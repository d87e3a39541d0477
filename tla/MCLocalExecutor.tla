--------------------------- MODULE MCLocalExecutor ---------------------------
(* Instances of LocalExecutor for TLC, with plans as the services make them. *)
EXTENDS LocalExecutor, TLC

CONSTANTS e1, e2, p, q, mine, other, k

PlanStep(action, target, entry) == [action |-> action, target |-> target, entry |-> entry]

\* A plugin whose manifest has two entries for one configuration file.
TwoEntries == <<PlanStep("json-upsert", p, mine), PlanStep("json-upsert", p, other)>>
\* A plugin that makes its directory, copies its files there and writes a file.
InstallPlugin ==
    <<PlanStep("verify-hash", q, mine), PlanStep("ensure-dir", q, mine),
      PlanStep("copy-file", q, mine), PlanStep("write-file", p, other)>>
\* A skill in the directory p of a tool.
EnableSkill == <<PlanStep("ensure-dir", p, mine), PlanStep("symlink", q, mine)>>
RemoveEntry == <<PlanStep("json-remove", p, mine)>>
AddOther == <<PlanStep("json-upsert", p, other)>>
RemoveSkill == <<PlanStep("remove-managed", q, mine)>>

\* One call with any plan, and beside it one that shares the configuration file.
EveryKind ==
    e1 :> {TwoEntries, InstallPlugin, EnableSkill, RemoveSkill} @@ e2 :> {RemoveEntry}
OneEntryEach == e1 :> {AddOther} @@ e2 :> {RemoveEntry}

\* Both calls are of one operation on one object.
OneKey == [e \in Executions |-> k]

\* Nothing, or what a user or an earlier plan has left.
MissingOrOther == {Missing, File({other})}
MissingOrAny == {Missing} \cup {File(entries) : entries \in SUBSET Entries}
=============================================================================
