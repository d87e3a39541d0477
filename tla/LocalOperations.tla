---------------------------- MODULE LocalOperations ----------------------------
(***************************************************************************)
(* What the renderer asks the main process to do with an extension of the  *)
(* hub (ipc/handlers.ts): install a Skill, configure or test an MCP        *)
(* server, prepare a Plugin, clean one up.  A handler asks the policy,     *)
(* asks the server, downloads, lets the executor run plans made by the     *)
(* services of the three kinds, and records what came of it.  Every await  *)
(* lets other calls run; each of them may fail.                            *)
(*                                                                         *)
(* A plan is one step here: it succeeds, or it is rolled back and leaves   *)
(* the machine as it was (LocalExecutor models its inside).                *)
(***************************************************************************)
EXTENDS OperationPolicy

CONSTANTS
    Skills, Servers, Plugins,   \* extensions of the hub
    PackageVersions,
    OpCalls,                    \* calls under way at a time
    MaxOpCalls,                 \* bound: calls in all
    NoPackage

ASSUME OperationAssumption == MaxOpCalls \in Nat

VARIABLES
    row,            \* the record of each extension, see RecordOf
    central,        \* the version the current.json of a Skill points to
    entry,          \* what the target of each extension holds: a version
    secrets,        \* MCP servers whose sensitive variable is stored
    opCall,         \* the calls under way
    opMade,         \* number of calls made
    applied,        \* history: versions a plan has put in place
    cleared         \* history: calls whose extension was not held back all the while

opVars == <<row, central, entry, secrets, opCall, opMade, applied, cleared>>
machine == <<central, entry, secrets>>

Hub == Skills \cup Servers \cup Plugins
TypeOf(e) == CASE e \in Skills -> "SKILL" [] e \in Servers -> "MCP_SERVER" [] OTHER -> "PLUGIN"

NoRow == [status |-> "none", version |-> NoPackage, auth |-> "none", drift |-> "none"]
RecordOf(status, v) == [status |-> status, version |-> v, auth |-> "AUTHORIZED", drift |-> "none"]

NoOp == [op |-> "none", ext |-> NoPackage, version |-> NoPackage, dry |-> FALSE, at |-> "ready",
         tested |-> "none"]

OpStages == {"ready", "blocked", "detail", "definition", "asking", "ticket", "fetch", "verify", "install", "enable",
             "record", "variables", "write", "test", "undo", "apply", "remove"}

OperationTypeOK ==
    /\ \A e \in Hub : /\ entry[e] \in PackageVersions \cup {NoPackage}
                      /\ row[e].version \in PackageVersions \cup {NoPackage}
    /\ central \in [Skills -> PackageVersions \cup {NoPackage}]
    /\ secrets \subseteq Servers
    /\ \A c \in OpCalls : opCall[c].at \in OpStages /\ opCall[c].dry \in BOOLEAN
    /\ opMade \in 0..MaxOpCalls

\* A machine without extensions, or with one of them.
OperationInit ==
    /\ \E had \in {{}} \cup {{e} : e \in Hub}, v \in PackageVersions :
         /\ row = [e \in Hub |-> IF e \in had THEN RecordOf("enabled", v) ELSE NoRow]
         /\ central = [e \in Skills |-> IF e \in had THEN v ELSE NoPackage]
         /\ entry = [e \in Hub |-> IF e \in had THEN v ELSE NoPackage]
         /\ secrets = Servers \cap had
         /\ applied = had \X {v}
    /\ cleared = {}
    /\ opCall = [c \in OpCalls |-> NoOp]
    /\ opMade = 0

-----------------------------------------------------------------------------
OpAt(c, op, stage) == opCall[c].op \in op /\ opCall[c].at = stage
OpGoto(c, stage) == opCall' = [opCall EXCEPT ![c].at = stage]
OpEnd(c) == opCall' = [opCall EXCEPT ![c] = NoOp]
Ask(c, success) == OpGoto(c, success) \/ OpEnd(c)
OpBegin(c, op, e, dry, stage) ==
    /\ opCall[c] = NoOp
    /\ opMade < MaxOpCalls
    /\ opMade' = opMade + 1
    /\ \E v \in PackageVersions :
         opCall' = [opCall EXCEPT ![c] = [NoOp EXCEPT !.op = op, !.ext = e, !.version = v,
                                                      !.dry = dry, !.at = stage]]

(* phase3ResourcesForExtension: the rows of the extension, or a resource of *)
(* which nothing is known.                                                  *)
ResourceOf(e) ==
    [type |-> TypeOf(e), server |-> row[e] # NoRow, mode |-> "none", byKit |-> FALSE, byPlugin |-> FALSE,
     expected |-> NoValue, current |-> NoValue, path |-> "OK", audit |-> "none",
     auth |-> row[e].auth, drift |-> row[e].drift]

PolicyAllows_Always(e, op, transport) == TRUE \* mutant: the policy is not asked

(* assertPhase3IpcPolicyAllowed: decides on the record as it is now; an     *)
(* operation that only reads is not let through either.                     *)
PolicyAllows(e, op, transport) == Decision(op, {ResourceOf(e)}, FALSE, transport) = "allowed"

ReportBlocked(c) ==
    /\ opCall[c].at = "blocked"
    /\ OpEnd(c)
    /\ UNCHANGED <<row, machine, opMade, applied>>

-----------------------------------------------------------------------------
(* extensionInstall.                                                        *)
ExtensionInstall(c) ==
    \E e \in Skills, dry \in BOOLEAN :
        /\ OpBegin(c, "skill.install", e, dry, IF PolicyAllows(e, "skill.install", "none") THEN "detail" ELSE "blocked")
        /\ UNCHANGED <<row, machine, applied>>

ExtensionDetail(c) ==
    /\ OpAt(c, {"skill.install"}, "detail")
    /\ Ask(c, IF opCall[c].dry THEN "install" ELSE "ticket")
    /\ UNCHANGED <<row, machine, opMade, applied>>

(* downloadExtensionPackage: a ticket, the file, and its hash.              *)
DownloadTicket(c) ==
    /\ opCall[c].at = "ticket"
    /\ Ask(c, "fetch")
    /\ UNCHANGED <<row, machine, opMade, applied>>

DownloadToTemp(c) ==
    /\ opCall[c].at = "fetch"
    /\ Ask(c, "verify")
    /\ UNCHANGED <<row, machine, opMade, applied>>

VerifyDownload(c) ==
    /\ opCall[c].at = "verify"
    /\ Ask(c, IF opCall[c].op = "skill.install" THEN "install" ELSE "apply")
    /\ UNCHANGED <<row, machine, opMade, applied>>

(* createInstallPlan: the package goes to the central store, and its        *)
(* current.json to the version; a plan that is rolled back ends the call.   *)
InstallSkill(c) ==
    LET k == opCall[c]
    IN  /\ OpAt(c, {"skill.install"}, "install")
        /\ \/ k.dry /\ central' = central /\ OpGoto(c, "enable")
           \/ ~k.dry /\ central' = [central EXCEPT ![k.ext] = k.version] /\ OpGoto(c, "enable")
           \/ central' = central /\ OpEnd(c)
        /\ UNCHANGED <<row, entry, secrets, opMade, applied>>

EnableSkill_Recorded(c) == \* mutant: recorded, whatever came of the plan
    LET k == opCall[c]
    IN  /\ OpAt(c, {"skill.install"}, "enable")
        /\ \/ /\ ~k.dry /\ entry[k.ext] = NoPackage
              /\ entry' = [entry EXCEPT ![k.ext] = k.version]
              /\ applied' = applied \cup {<<k.ext, k.version>>}
           \/ UNCHANGED <<entry, applied>>
        /\ OpGoto(c, "record")
        /\ UNCHANGED <<row, central, secrets, opMade>>

(* createEnablePlan: a link to the version in the target; there may be one  *)
(* already, and then the step fails.                                        *)
EnableSkill(c) ==
    LET k == opCall[c]
    IN  /\ OpAt(c, {"skill.install"}, "enable")
        /\ \/ /\ ~k.dry /\ entry[k.ext] = NoPackage
              /\ entry' = [entry EXCEPT ![k.ext] = k.version]
              /\ applied' = applied \cup {<<k.ext, k.version>>}
              /\ OpGoto(c, "record")
           \/ OpEnd(c) /\ UNCHANGED <<entry, applied>>
        /\ UNCHANGED <<row, central, secrets, opMade>>

(* recordSkillInstalled and recordTarget.                                   *)
RecordSkill(c) ==
    LET k == opCall[c]
    IN  /\ OpAt(c, {"skill.install"}, "record")
        /\ row' = [row EXCEPT ![k.ext] = RecordOf("enabled", k.version)]
        /\ OpEnd(c)
        /\ UNCHANGED <<machine, opMade, applied>>

-----------------------------------------------------------------------------
(* mcpConfigure.                                                            *)
McpConfigure(c) ==
    \E e \in Servers, dry \in BOOLEAN :
        /\ OpBegin(c, "mcp.configure", e, dry, IF PolicyAllows(e, "mcp.configure", "none") THEN "definition" ELSE "blocked")
        /\ UNCHANGED <<row, machine, applied>>

McpDefinition(c) ==
    /\ OpAt(c, {"mcp.configure"}, "definition")
    /\ Ask(c, "variables")
    /\ UNCHANGED <<row, machine, opMade, applied>>

(* createConfigWritePlan: a connection test the client does not run, or a   *)
(* variable that is missing, ends the call; a sensitive value goes to the   *)
(* secure store before there is a plan, and only its reference on.          *)
RenderVariables(c) ==
    LET k == opCall[c]
    IN  /\ OpAt(c, {"mcp.configure"}, "variables")
        /\ \/ secrets' = (IF k.dry THEN secrets ELSE secrets \cup {k.ext}) /\ OpGoto(c, "write")
           \/ secrets' = secrets /\ OpEnd(c)
        /\ UNCHANGED <<row, central, entry, opMade, applied>>

(* The plan replaces the entry, of this version or of another.              *)
WriteConfig(c) ==
    LET k == opCall[c]
    IN  /\ OpAt(c, {"mcp.configure"}, "write")
        /\ \/ /\ ~k.dry
              /\ entry' = [entry EXCEPT ![k.ext] = k.version]
              /\ applied' = applied \cup {<<k.ext, k.version>>}
              /\ OpGoto(c, "test") \/ OpGoto(c, "record")
           \/ OpEnd(c) /\ UNCHANGED <<entry, applied>>
        /\ UNCHANGED <<row, central, secrets, opMade>>

(* executeConnectionTest, of a configuration or on its own.  One that throws *)
(* (the device is not known, its event is not kept) ends the call, and what  *)
(* the configuration has written stays, with no row.                         *)
RunConnectionTest(c) ==
    /\ opCall[c].at = "test"
    /\ \/ /\ opCall[c].op # "mcp.connection-test"
          /\ \E result \in {<<"record", "reachable">>, <<"undo", "unreachable">>} :
               opCall' = [opCall EXCEPT ![c].at = result[1], ![c].tested = result[2]]
       \/ OpEnd(c)
    /\ UNCHANGED <<row, machine, opMade, applied>>

(* The rollback of a configuration whose test failed is the plan of an      *)
(* uninstallation: whatever was there before is gone.  Its result is kept   *)
(* with the record and decides nothing; if it throws there is no record.    *)
UndoConfig(c) ==
    /\ OpAt(c, {"mcp.configure"}, "undo")
    /\ entry' \in {entry, [entry EXCEPT ![opCall[c].ext] = NoPackage]}
    /\ OpGoto(c, "record") \/ OpEnd(c)
    /\ UNCHANGED <<row, central, secrets, opMade, applied>>

RecordMcp(c) ==
    LET k == opCall[c]
    IN  /\ OpAt(c, {"mcp.configure"}, "record")
        /\ row' = [row EXCEPT ![k.ext] =
               RecordOf(IF k.tested = "unreachable" THEN "connection_test_failed" ELSE "connected", k.version)]
        /\ OpEnd(c)
        /\ UNCHANGED <<machine, opMade, applied>>

(* mcpConnectionTest: the policy is asked once the definition is there; a   *)
(* test that would start a process is disabled.                             *)
McpConnectionTest(c) ==
    \/ \E e \in Servers :
         /\ OpBegin(c, "mcp.connection-test", e, FALSE, "definition")
         /\ UNCHANGED <<row, machine, applied>>
    \/ /\ OpAt(c, {"mcp.connection-test"}, "definition")
       /\ \/ \E transport \in {"none", "stdio"} :
               OpGoto(c, IF PolicyAllows(opCall[c].ext, "mcp.connection-test", transport) THEN "test" ELSE "blocked")
          \/ OpEnd(c)
       /\ UNCHANGED <<row, machine, opMade, applied>>

-----------------------------------------------------------------------------
(* pluginPrepare: what it does depends on the mode and the operation asked  *)
(* for (phase3PluginOperation).                                             *)
PluginOps == {"plugin.install", "plugin.download", "plugin.update", "plugin.enable", "plugin.disable", "plugin.uninstall"}
Downloads(op) == op \in {"plugin.install", "plugin.download", "plugin.update"}

PluginStatus(op) ==
    CASE op = "plugin.enable" -> {"enabled", "installed"}
      [] op = "plugin.disable" -> {"disabled"}
      [] op = "plugin.update" -> {"updated"}
      [] op = "plugin.uninstall" -> {"uninstalled", "manual_uninstalled"}
      [] op = "plugin.download" -> {"downloaded"}
      [] OTHER -> {"installed", "configured"}

PluginPrepare(c) ==
    \E e \in Plugins, op \in PluginOps, dry \in BOOLEAN :
        /\ OpBegin(c, op, e, dry, "definition")
        /\ UNCHANGED <<row, machine, applied>>

(* A plugin that is only a configuration is not downloaded.                 *)
PluginDefinition(c) ==
    LET k == opCall[c]
    IN  /\ OpAt(c, PluginOps, "definition")
        /\ \/ IF PolicyAllows(k.ext, k.op, "none")
              THEN \/ OpGoto(c, "apply") /\ (k.dry \/ k.op # "plugin.download")
                   \/ OpGoto(c, "ticket") /\ ~k.dry /\ Downloads(k.op)
              ELSE OpGoto(c, "blocked")
           \/ OpEnd(c)
        /\ UNCHANGED <<row, machine, opMade, applied>>

(* The plans of PluginService: what they put into the target or remove.     *)
(* Marking a manual installation as removed writes a state, not nothing.    *)
PluginPlan(op, v) == IF op = "plugin.uninstall" THEN {NoPackage, v} ELSE {v}

ApplyPluginPlan(c) ==
    LET k == opCall[c]
    IN  /\ OpAt(c, PluginOps, "apply")
        /\ \/ /\ ~k.dry
              /\ entry' \in {[entry EXCEPT ![k.ext] = w] : w \in PluginPlan(k.op, k.version)}
              /\ applied' = applied \cup {<<k.ext, k.version>>}
              /\ OpGoto(c, "record")
           \/ OpEnd(c) /\ UNCHANGED <<entry, applied>>
        /\ UNCHANGED <<row, central, secrets, opMade>>

RecordPlugin(c) ==
    LET k == opCall[c]
    IN  /\ OpAt(c, PluginOps, "record")
        /\ \E status \in PluginStatus(k.op) : row' = [row EXCEPT ![k.ext] = RecordOf(status, k.version)]
        /\ OpEnd(c)
        /\ UNCHANGED <<machine, opMade, applied>>

-----------------------------------------------------------------------------
(* localCleanup: allowed whatever the policy says of the extension, offline *)
(* too.  Without a target only the record changes.                          *)
MarkRowCleaned(e) == row' = [row EXCEPT ![e] = IF @ = NoRow THEN NoRow ELSE [@ EXCEPT !.status = "cleaned"]]

LocalCleanup(c) ==
    \E e \in Hub, dry \in BOOLEAN :
        /\ OpBegin(c, "cleanup", e, dry, "remove")
        /\ UNCHANGED <<row, machine, applied>>

(* The uninstall plan of its kind; the central store keeps the versions.    *)
CleanupTarget(c) ==
    LET k == opCall[c]
    IN  /\ OpAt(c, {"cleanup"}, "remove")
        /\ \/ ~k.dry /\ entry' = [entry EXCEPT ![k.ext] = NoPackage] /\ OpGoto(c, "record")
           \/ ~k.dry /\ entry' = entry /\ OpGoto(c, "record")
           \/ entry' = entry /\ OpEnd(c)
        /\ UNCHANGED <<row, central, secrets, opMade, applied>>

RecordCleanup(c) ==
    /\ OpAt(c, {"cleanup"}, "record")
    /\ MarkRowCleaned(opCall[c].ext)
    /\ OpEnd(c)
    /\ UNCHANGED <<machine, opMade, applied>>

(* What else changes a row while a call waits: a hint of the server, or a   *)
(* check of its path.                                                       *)
Judgements == {<<"AUTHORIZED", "none">>, <<"SECURITY_DELISTED", "none">>, <<"AUTHORIZED", "DRIFTED">>}
RowChanges ==
    /\ \E e \in Hub, j \in Judgements :
         row[e] # NoRow /\ row' = [row EXCEPT ![e].auth = j[1], ![e].drift = j[2]]
    /\ UNCHANGED <<machine, opCall, opMade, applied>>

OperationStep ==
    \/ \E c \in OpCalls :
         \/ ReportBlocked(c)
         \/ ExtensionInstall(c) \/ ExtensionDetail(c) \/ DownloadTicket(c) \/ DownloadToTemp(c)
         \/ VerifyDownload(c) \/ InstallSkill(c) \/ EnableSkill(c) \/ RecordSkill(c)
         \/ McpConfigure(c) \/ McpDefinition(c) \/ RenderVariables(c) \/ WriteConfig(c)
         \/ RunConnectionTest(c) \/ UndoConfig(c) \/ RecordMcp(c) \/ McpConnectionTest(c)
         \/ PluginPrepare(c) \/ PluginDefinition(c) \/ ApplyPluginPlan(c) \/ RecordPlugin(c)
         \/ LocalCleanup(c) \/ CleanupTarget(c) \/ RecordCleanup(c)
    \/ RowChanges

(* cleared is not in the program: it tells the calls that may go on.        *)
HeldBack(r) == r.auth \in ShrinkAuth \/ r.drift \in BlockingDrift
OperationNext ==
    /\ OperationStep
    /\ cleared' = {c \in OpCalls : /\ opCall'[c] # NoOp
                                   /\ c \in cleared \/ ~HeldBack(row'[opCall'[c].ext])}

OperationSpec == OperationInit /\ [][OperationNext]_opVars

-----------------------------------------------------------------------------
(* An extension the server has delisted, or whose files have drifted, gets  *)
(* nothing onto the machine from a call made and carried through while the  *)
(* record said so, other than one that takes something away; and a dry run  *)
(* changes nothing at all, on the machine or in the record                  *)
(* (assertPhase3IpcPolicyAllowed before, and dryRun at every later await).  *)
BlockedStaysOff ==
    [][\A c \in OpCalls : opCall'[c] # opCall[c] =>
          /\ LET e == opCall[c].ext
             IN  opCall[c] # NoOp /\ entry'[e] # entry[e] /\ entry'[e] # NoPackage
                    => c \in cleared \/ opCall[c].op \in CleanupOps
          /\ opCall[c].dry => UNCHANGED <<machine, row>>]_opVars

(* The record says of an extension only what a plan has done: a version     *)
(* that is recorded as enabled, connected or installed was put in place,    *)
(* whichever downloads, plans, tests and rollbacks failed on the way.       *)
RecordFollowsPlan ==
    \A e \in Hub : row[e].status \notin {"none", "cleaned"} => <<e, row[e].version>> \in applied
=============================================================================
