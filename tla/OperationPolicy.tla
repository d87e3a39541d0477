--------------------------- MODULE OperationPolicy ---------------------------
(* What an operation of the desktop may do to which resources               *)
(* (shared/local-phase3-operations.ts): the registry of operations, the     *)
(* decision taken before one, and the status of one whose resources ended   *)
(* differently.  Shared by the renderer, the handlers and the kit service.  *)
EXTENDS Naturals, FiniteSets

NoValue == "none"

ServerTypes == {"SKILL", "MCP_SERVER", "PLUGIN"}
ExecutableTypes == {"HOOK", "CLI_COMMAND"}
ConfigTypes == {"AGENT_CONFIG", "RULE", "MEMORY", "SUBAGENT", "IGNORE_FILE"}
ShrinkAuth == {"AUTH_REVOKED", "SECURITY_DELISTED", "DELISTED"}
VerifiedAuth == {"AUTH_CACHE_VALID", "AUTHORIZED"}
BlockingDrift == {"HASH_CHANGED", "DRIFTED", "EXTERNALLY_MODIFIED", "MANAGED_BLOCK_MISSING"}
BlockingPaths == {"MISSING", "NOT_WRITABLE", "INVALID", "CONFLICT"}

-----------------------------------------------------------------------------
(* The kinds of operations: what each may do and what it asks for.          *)

Write == [mutates |-> TRUE, readOnly |-> FALSE, static |-> FALSE, auth |-> TRUE, hash |-> TRUE,
          backup |-> TRUE, rollback |-> TRUE, offline |-> FALSE, shrink |-> FALSE]
LocalConfigWrite == [Write EXCEPT !.auth = FALSE, !.offline = TRUE]
MetadataWrite == [Write EXCEPT !.auth = FALSE, !.hash = FALSE, !.backup = FALSE,
                               !.rollback = FALSE, !.offline = TRUE]
Cleanup == [Write EXCEPT !.auth = FALSE, !.hash = FALSE, !.offline = TRUE, !.shrink = TRUE]
Static == [MetadataWrite EXCEPT !.mutates = FALSE, !.readOnly = TRUE, !.static = TRUE, !.shrink = TRUE]
StaticWrite == [Write EXCEPT !.static = TRUE, !.auth = FALSE, !.offline = TRUE]
StaticDisable == [StaticWrite EXCEPT !.shrink = TRUE]

CleanupOps == {"skill.disable", "skill.uninstall", "mcp.disable", "mcp.uninstall",
    "mcp.remove-managed-config", "mcp.cleanup-secret-refs", "plugin.disable", "plugin.uninstall",
    "plugin.manual-record-cleanup", "plugin.mark-uninstalled"}
StaticOps == {"skill.static-audit", "skill.view-events", "mcp.static-config-check", "mcp.view-events",
    "plugin.static-audit", "plugin.view-events", "hook.path-check", "hook.static-audit",
    "hook.view-events", "cli.path-check", "cli.version-metadata-read", "cli.static-audit",
    "cli.view-events", "project.path-check", "project.static-audit", "kit.view-drift",
    "kit.static-audit", "kit.view-events"}

(* PHASE3_ACTION_REGISTRY, by kind of operation.                            *)
OfflineWrites == {"skill.enable", "plugin.enable", "kit.apply"}
OnlineWrites == {"skill.install", "skill.update", "mcp.configure", "mcp.update", "mcp.config-write",
    "mcp.config-update", "mcp.copy-config", "plugin.install", "plugin.download", "plugin.update",
    "plugin.repair", "project.apply-kit"}
Probes == {"mcp.connection-test", "kit.check-update"}
ConfigCleanups == {"mcp.config-disable", "mcp.config-uninstall", "kit.remove", "kit.remove-application"}
ConfigWrites == {"settings.update", "settings.restore", "rules.enable", "rules.disable", "rules.update",
    "memory.update", "memory.restore", "subagents.enable", "subagents.disable", "subagents.update",
    "ignore.update", "custom-agent-profile.create", "custom-agent-profile.update", "kit.export"}
ExecutableWrites == {"hook.register", "hook.enable", "hook.update", "cli.register", "cli.enable", "cli.update"}
ExecutableDisables == {"hook.disable", "cli.disable"}
MetadataWrites == {"project.register", "project.update-path", "project.rescan", "project.enable-agent",
    "project.enable-local-resource", "kit.create", "kit.edit", "kit.import", "kit.export-data",
    "kit.generate-from-agent", "kit.generate-from-project", "kit.drift-check", "kit.static-audit-run"}
Operations == CleanupOps \cup StaticOps \cup OfflineWrites \cup OnlineWrites \cup Probes
    \cup ConfigCleanups \cup ConfigWrites \cup ExecutableWrites \cup ExecutableDisables
    \cup MetadataWrites \cup {"project.remove-record"}

(* An operation the registry does not name is treated as a write            *)
(* (inferDefinition).                                                       *)
Definition(op) ==
    CASE op \in StaticOps -> Static
      [] op \in CleanupOps \cup ConfigCleanups -> Cleanup
      [] op \in OfflineWrites -> [Write EXCEPT !.offline = TRUE]
      [] op \in Probes -> [Write EXCEPT !.backup = FALSE, !.rollback = FALSE]
      [] op \in ConfigWrites -> LocalConfigWrite
      [] op \in ExecutableWrites -> StaticWrite
      [] op \in ExecutableDisables -> StaticDisable
      [] op \in MetadataWrites -> MetadataWrite
      [] op = "project.remove-record" -> [MetadataWrite EXCEPT !.shrink = TRUE]
      [] OTHER -> Write

(* PHASE4_LOCAL_OPERATION_COVERAGE: what the plan of a local operation      *)
(* announces: offline, authorisation, hash, backup, rollback, static.       *)
Announced(op) ==
    LET row(o, a, h, b, s) == [offline |-> o, auth |-> a, hash |-> h, backup |-> b, rollback |-> b, static |-> s]
    IN CASE op \in ConfigWrites -> row(TRUE, FALSE, TRUE, TRUE, FALSE)
         [] op \in OnlineWrites -> row(FALSE, TRUE, TRUE, TRUE, FALSE)
         [] op \in OfflineWrites -> row(TRUE, TRUE, TRUE, TRUE, FALSE)
         [] op \in CleanupOps \cup ConfigCleanups -> row(TRUE, FALSE, FALSE, TRUE, FALSE)
         [] op \in ExecutableWrites \cup ExecutableDisables -> row(TRUE, FALSE, TRUE, TRUE, TRUE)
         [] OTHER -> row(TRUE, FALSE, FALSE, FALSE, FALSE)
CoveredOps == (ConfigWrites \ {"kit.export"}) \cup ExecutableWrites \cup ExecutableDisables \cup OfflineWrites
    \cup {"skill.install", "skill.disable", "skill.update", "skill.uninstall", "mcp.config-write",
          "mcp.config-update", "mcp.config-disable", "mcp.config-uninstall", "plugin.install",
          "plugin.disable", "plugin.update", "plugin.uninstall", "kit.remove", "project.register",
          "project.update-path", "project.remove-record"}

-----------------------------------------------------------------------------
(* A resource as a decision sees it (toPhase3ResourceContext).              *)

SecurityBlocked(r) == r.auth = "SECURITY_DELISTED" \/ r.audit = "SECURITY_RISK"
AppliesKit(op) == op \in {"kit.apply", "project.apply-kit"}
FromServer(r) == r.server \/ r.mode = "SERVER_MANAGED"

ShouldBlockForAuth(op, r) ==
    /\ ~Definition(op).shrink
    /\ \/ AppliesKit(op)
       \/ r.type \in ServerTypes
       \/ r.type \in ExecutableTypes /\ (FromServer(r) \/ r.byKit \/ r.byPlugin)
       \/ r.type \notin ExecutableTypes /\ Definition(op).auth /\ r.server

ShouldRequireVerified(op, r) ==
    /\ ~Definition(op).shrink
    /\ AppliesKit(op)
    /\ r.type \in ServerTypes \/ FromServer(r)

HashOrDrift(r) ==
    \/ r.expected # NoValue /\ r.current # NoValue /\ r.expected # r.current
    \/ r.drift \in BlockingDrift

(* The checks of one resource that block.                                   *)
Blocks(op, r) ==
    LET d == Definition(op)
        shrunk == r.auth \in ShrinkAuth \/ SecurityBlocked(r)
    IN  {check \in {"security-delisted", "authorization-shrink", "authorization-not-verified",
                    "hash-or-drift", "path-status"} :
          \/ check = "security-delisted" /\ SecurityBlocked(r) /\ ShouldBlockForAuth(op, r)
          \/ check = "authorization-shrink" /\ shrunk /\ ~SecurityBlocked(r) /\ ShouldBlockForAuth(op, r)
          \/ /\ check = "authorization-not-verified"
             /\ ~shrunk /\ ShouldRequireVerified(op, r) /\ r.auth \notin VerifiedAuth
          \/ check = "hash-or-drift" /\ HashOrDrift(r) /\ d.hash /\ ~d.shrink
          \/ check = "path-status" /\ d.mutates /\ ~d.shrink /\ r.path \in BlockingPaths}

(* mcpConnectionPolicyCheck: a test may not start a local process.          *)
StartsProcess(op, transport) ==
    op = "mcp.connection-test" /\ transport \in {"stdio", "command", "local_command", "local-command"}

Decision(op, resources, offline, transport) ==
    IF StartsProcess(op, transport) THEN "disabled"
    ELSE IF \/ offline /\ ~Definition(op).offline
            \/ \E r \in resources : Blocks(op, r) # {} THEN "blocked"
    ELSE IF Definition(op).readOnly THEN "read_only"
    ELSE "allowed"

Permitted(decision) == decision \in {"allowed", "read_only"}

-----------------------------------------------------------------------------
(* aggregateResourceChangeStatus: the status of an operation from those of  *)
(* its resources.                                                           *)
FailureLike == {"failure", "blocked", "disabled", "rolled_back"}
SuccessLike == {"success", "skipped", "dry_run"}
Aggregate(statuses, fallback) ==
    IF statuses = {} THEN IF fallback = "success" THEN "failure" ELSE fallback
    ELSE IF "rollback_failed" \in statuses THEN "rollback_failed"
    ELSE IF statuses \cap FailureLike # {} /\ statuses \cap SuccessLike # {} THEN "partial_success"
    ELSE IF statuses \in {{"blocked"}, {"disabled"}, {"rolled_back"}, {"dry_run"}}
    THEN CHOOSE s \in statuses : TRUE
    ELSE IF statuses \cap FailureLike # {} THEN "failure"
    ELSE "success"
=============================================================================
