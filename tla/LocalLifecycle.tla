--------------------------- MODULE LocalLifecycle ---------------------------
(* The desktop's record of what is on this machine                          *)
(* (local-lifecycle-repository.ts).  The older tables say what was done     *)
(* (extensions, targets, MCP and plugin installations, projects, tools);    *)
(* the resource graph says what the screens show: a row per resource, a row *)
(* per binding of a resource to a place, a row per tracked file.  Every     *)
(* db.run is awaited, so a call is a sequence of statements and the         *)
(* statements of other calls run in between; query and runSync are not, and *)
(* a listing is one step.  The process may die between two statements.      *)
EXTENDS Naturals, SequencesExt

CONSTANTS
    Extensions,   \* extensions the server delivers or a scan finds
    Configured,   \* those with a table of installations: MCP servers, plugins
    Projects, Kits,
    AgentFiles,   \* resources found in the directory of an agent
    Manifests,    \* what a kit may list: resource -> hash it expects, or None
    Paths,        \* targets: every one is a path of the disk
    Contents,     \* what a file may hold
    Calls,        \* calls of the repository that may be under way
    MaxCalls,     \* bound on the calls that are made and the edits of files
    None, Legacy  \* no row; the key of a binding without a target

ASSUME LifecycleAssumption ==
    /\ Configured \subseteq Extensions
    /\ MaxCalls \in Nat
    /\ None \notin Contents \cup Paths \cup Kits \cup Projects
    /\ IsFiniteSet(Extensions \cup Projects \cup Kits \cup AgentFiles \cup Paths)
    /\ Extensions \cap (Projects \cup Kits \cup AgentFiles \cup Paths) = {}
    /\ Projects \cap (Kits \cup AgentFiles \cup Paths) = {}
    /\ Kits \cap (AgentFiles \cup Paths) = {}
    /\ AgentFiles \cap Paths = {}

VARIABLES
    tables,   \* the older tables
    graph,    \* resources, bindings, files, audit findings
    todo,     \* the statements each call has still to execute
    made,     \* calls made so far
    disk,     \* what the paths hold
    removal   \* per call: its removal of a project - plan, record, event

lifecycleVars == <<tables, graph, todo, made, disk, removal>>

(* A resource's id is its type and its source id; the failure of a scan is  *)
(* a resource named after the path that could not be read.                  *)
Resources == Extensions \cup Projects \cup Kits \cup AgentFiles \cup Paths

(* A binding's id is its resource and its target; the bindings a kit makes  *)
(* have the kit in front of the target.                                     *)
Keys == Paths \cup {Legacy} \cup (Kits \X Paths)
Places == Resources \X Keys

(* isKitManifest: a kit lists extensions and what an agent has, each with   *)
(* the hash it expects and whether the kit is of use without it.            *)
Hash == Contents \cup {None}
KitManifests ==
    UNION {[S -> [hash : Hash, required : BOOLEAN]] : S \in SUBSET (Extensions \cup AgentFiles)}

(* The words an operation or a hint of the server puts on a resource.       *)
Hints == {"security_blocked", "scope_reduced", "delisted",
          "metadata_refresh", "server_hint_info"}
Statuses == Hints \cup {"installed", "enabled", "scanned", "cleaned",
                        "disabled", "scan_failed", "success", "partial_success", "failure"}

(* mapHintState: the hints of one answer, the strongest first.              *)
Precedence == [h \in Hints |->
    CASE h = "security_blocked" -> 1 [] h = "scope_reduced" -> 2
      [] h = "delisted" -> 3 [] h = "metadata_refresh" -> 4
      [] h = "server_hint_info" -> 5]
Strongest(hints) == CHOOSE h \in hints : \A g \in hints : Precedence[h] <= Precedence[g]

LifecycleOf(s) ==
    CASE s = "enabled" -> "ENABLED"
      [] s = "installed" -> "INSTALLED"
      [] s = "disabled" -> "DISABLED"
      [] s = "cleaned" -> "REMOVED"
      [] s \in Hints \cup {"scanned"} -> "RECORDED"
      [] OTHER -> "UNKNOWN"

AuthOf(s) ==
    CASE s = "security_blocked" -> "SECURITY_DELISTED"
      [] s = "scope_reduced" -> "AUTH_REVOKED"
      [] s = "delisted" -> "DELISTED"
      [] s \in {"installed", "enabled"} -> "AUTH_CACHE_VALID"
      [] OTHER -> "UNKNOWN"

AuditOf(s) == IF s = "security_blocked" THEN "SECURITY_RISK" ELSE "NOT_AUDITED"

Resource(origin, s, manifest) == [origin |-> origin, audit |-> AuditOf(s), manifest |-> manifest]

(* createBinding: a binding knows nothing of the one it replaces.           *)
Binding(s, kit, project) ==
    [status |-> s, audit |-> AuditOf(s), path |-> "UNKNOWN", drift |-> FALSE,
     hash |-> None, kit |-> kit, meta |-> kit, project |-> project]

(* A path or a kit path: where the binding's target is on the disk.         *)
PathOf(key) == IF key \in Kits \X Paths THEN key[2] ELSE key

-----------------------------------------------------------------------------
(* Statements.                                                              *)

PutExtension(e, cached, s) == [do |-> "extension", id |-> e, cached |-> cached, status |-> s]
PutTarget(e, t, s) == [do |-> "target", id |-> e, key |-> t, status |-> s]
PutInstallation(e, t, s) == [do |-> "installation", id |-> e, key |-> t, status |-> s]
PutProject(p, t) == [do |-> "project", id |-> p, key |-> t]
PutTool(k, t, manifest) == [do |-> "tool", id |-> k, key |-> t, manifest |-> manifest]
PutResource(r, origin, s, manifest) ==
    [do |-> "resource", id |-> r, origin |-> origin, status |-> s, manifest |-> manifest]
PutBinding(r, key, s, kit, project, tracked) ==
    [do |-> "binding", id |-> r, key |-> key, status |-> s, kit |-> kit,
     project |-> project, tracked |-> tracked]
PutFile(r, key, file) == [do |-> "file", id |-> r, key |-> key, file |-> file]
KnownTarget(e, t, s) == [do |-> "known", id |-> e, key |-> t, status |-> s]
SetExtension(e, s) == [do |-> "setExtension", id |-> e, status |-> s]
SetTargets(e, ts, s) == [do |-> "setTargets", id |-> e, keys |-> ts, status |-> s]
SetInstallations(e, ts, s) == [do |-> "setInstallations", id |-> e, keys |-> ts, status |-> s]
MarkBindings(e, ts, s) == [do |-> "mark", id |-> e, keys |-> ts, status |-> s]
Check(r, key) == [do |-> "check", id |-> r, key |-> key]
Checked(r, key, path, file) == [do |-> "checked", id |-> r, key |-> key, path |-> path, file |-> file]
Audit(r, key) == [do |-> "audit", id |-> r, key |-> key]
Forget(table, rs) == [do |-> table, ids |-> rs]
PutPlan(p, s) == [do |-> "plan", id |-> p, status |-> s]
UpdatePlan(s) == [do |-> "replan", status |-> s]
PutRecord(s) == [do |-> "record", status |-> s]
DeleteProject(p) == [do |-> "deleteProject", id |-> p]
WriteRemoval == [do |-> "write"]
Announce(what) == [do |-> "event", status |-> what]

(* recordResourceGraph: the resource, then the binding when there is a key. *)
Graph(r, origin, t, s, project, manifest) ==
    <<PutResource(r, origin, s, manifest)>> \o
    (IF t = None THEN <<>> ELSE <<PutBinding(r, t, s, None, project, TRUE)>>)

-----------------------------------------------------------------------------
EmptyTables == [extension    |-> [e \in Extensions |-> None],
                target       |-> [w \in Extensions \X Paths |-> None],
                installation |-> [w \in Configured \X Paths |-> None],
                project      |-> [p \in Projects |-> None],
                tool         |-> [k \in Kits |-> None]]
EmptyGraph == [resource |-> [r \in Resources |-> None],
               binding  |-> [b \in Places |-> None],
               file     |-> [b \in Places |-> None],
               finding  |-> [b \in Places |-> None]]

Init ==
    /\ tables = EmptyTables
    /\ graph = EmptyGraph
    /\ todo = [c \in Calls |-> <<>>]
    /\ made = 0
    /\ disk = [t \in Paths |-> None]
    /\ removal = [c \in Calls |-> None]

Idle(c) == todo[c] = <<>>

(* A set worked through in the order of a query.                            *)
InSomeOrder(S) == FoldSet(LAMBDA one, rest : <<one>> \o rest, <<>>, S)

Call(c, statements) ==
    /\ made' = made + 1
    /\ todo' = [todo EXCEPT ![c] = statements]
    /\ UNCHANGED <<tables, graph, disk, removal>>

RecordSkillInstalled(c, e) ==
    Call(c, <<PutExtension(e, TRUE, "installed")>> \o Graph(e, "install", None, "installed", None, None))

RecordTarget(c, e, t) ==
    \E s \in {"enabled", "disabled"} :
        Call(c, <<PutTarget(e, t, s), KnownTarget(e, t, s)>>)

RecordInstallation(c, e, t) ==
    /\ e \in Configured
    /\ Call(c, <<PutInstallation(e, t, "installed")>> \o Graph(e, "install", t, "installed", None, None))

RecordScannedExtension(c, e, t) ==
    Call(c, <<PutExtension(e, FALSE, "scanned"),
              PutTarget(e, t, "scanned"), KnownTarget(e, t, "scanned")>>
            \o Graph(e, "scan", t, "scanned", None, None))

RecordScannedTool(c, k, t) ==
    \E manifest \in Manifests :
        Call(c, <<PutTool(k, t, manifest)>> \o Graph(k, "scan", t, "scanned", None, manifest))

RecordScannedProject(c, p, t) ==
    Call(c, <<PutProject(p, t)>> \o Graph(p, "scan", t, "scanned", p, None))

RecordAgentResource(c, r, t, project) ==
    Call(c, Graph(r, "agent", t, "scanned", project, None))

RecordScanFailure(c, t) ==
    Call(c, <<PutResource(t, "scan", "scan_failed", None),
              PutBinding(t, t, "scan_failed", None, None, FALSE)>>)

(* markCleaned: the table depends on the kind and on whether a target is    *)
(* named; the bindings follow it.                                           *)
MarkCleaned(c, e) ==
    \/ \E t \in Paths :
         Call(c, <<IF e \in Configured THEN SetInstallations(e, {t}, "cleaned")
                                       ELSE SetTargets(e, {t}, "cleaned"),
                   MarkBindings(e, {t}, "cleaned")>>)
    \/ Call(c, <<SetExtension(e, "cleaned"), MarkBindings(e, Keys, "cleaned")>>)

(* applyServerStateHints for the hints of one extension.                    *)
ApplyHints(c, e, hints) ==
    LET s == Strongest(hints) IN
    Call(c, <<SetExtension(e, s), SetTargets(e, Paths, s),
              SetInstallations(e, Paths, s), MarkBindings(e, Keys, s)>>)

(* deleteAgentInventoryResourcesByKinds: the ids are read once.             *)
DeleteAgentInventory(c) ==
    LET found == {r \in Resources : graph.resource[r] # None /\ graph.resource[r].origin = "agent"} IN
    /\ found # {}
    /\ Call(c, <<Forget("forgetFiles", found), Forget("forgetBindings", found),
                 Forget("forgetResources", found)>>)

(* checkResourcePath of a binding.                                          *)
CheckResourcePath(c, b) == graph.binding[b] # None /\ Call(c, <<Check(b[1], b[2])>>)

(* runStaticAuditForAllResources: one transaction per row of the listing.   *)
RunStaticAudit(c) ==
    LET rows == InSomeOrder({b \in Places : graph.binding[b] # None}) IN
    /\ rows # <<>>
    /\ Call(c, [i \in DOMAIN rows |-> Audit(rows[i][1], rows[i][2])])

(* validateProjectRemoval: what is still bound inside the project.          *)
ProjectKnown(p) == graph.resource[p] # None
Blockers(p) ==
    {b \in Places : /\ b[1] \notin Projects
                    /\ graph.binding[b] # None
                    /\ graph.binding[b].project = p
                    /\ LifecycleOf(graph.binding[b].status) # "REMOVED"}

(* removeProjectManagementRecord.                                           *)
RemoveProject(c, p) ==
    LET allowed == ProjectKnown(p) /\ Blockers(p) = {} IN
    Call(c, IF allowed
            THEN <<PutPlan(p, "planned"), DeleteProject(p), Announce("removed")>>
            ELSE <<PutPlan(p, "blocked"), PutRecord("blocked"), Announce("blocked")>>)

-----------------------------------------------------------------------------
(* The execution of statements.                                             *)

Rest(c) == [todo EXCEPT ![c] = Tail(@)]
Then(c, statements) == [todo EXCEPT ![c] = statements \o Tail(@)]

(* The bindings of a source id at the targets that are named.               *)
BindingsAt(e, keys) ==
    {b \in Places : b[1] = e /\ graph.binding[b] # None
                    /\ (b[2] \in keys \/ PathOf(b[2]) \in keys)}

(* markResourceBindings replaces the status columns and the metadata.       *)
Marked(b, s) == [graph.binding[b] EXCEPT !.status = s, !.audit = AuditOf(s), !.meta = None]

(* createFileBackedResource: the hash found last becomes the known one.     *)
ScannedFile_PathAsHash(b) ==
    [known |-> PathOf(b[2]), current |-> disk[PathOf(b[2])], drifted |-> FALSE]
ScannedFile(b) ==
    LET t == PathOf(b[2])
        old == graph.file[b]
        before == IF old = None THEN disk[t] ELSE old.current
    IN  [known |-> before, current |-> disk[t], drifted |-> before # disk[t]]

(* checkResourcePath compares with the hash found last and keeps the hash   *)
(* known first.                                                             *)
CheckedFile(b) ==
    LET old == graph.file[b] IN
    [known   |-> IF old = None THEN disk[PathOf(b[2])] ELSE old.known,
     current |-> disk[PathOf(b[2])],
     drifted |-> old # None /\ old.current # disk[PathOf(b[2])]]

(* upsertAuditRunFindings: a resource is as bad as the worst of what was    *)
(* found at its bindings.                                                   *)
Audited(b, verdict) ==
    LET findings == [graph.finding EXCEPT ![b] = verdict]
        worst == IF \E o \in Places : o[1] = b[1] /\ findings[o] = "SECURITY_RISK"
                 THEN "SECURITY_RISK" ELSE "SAFE"
    IN  [graph EXCEPT
            !.finding = findings,
            !.resource[b[1]] = IF @ = None THEN None ELSE [@ EXCEPT !.audit = worst],
            !.binding[b] = IF @ = None THEN None ELSE [@ EXCEPT !.audit = verdict]]

(* One operator per statement on a table, then per statement on the graph.  *)
SetTables(c, value) == tables' = value /\ todo' = Rest(c) /\ UNCHANGED <<graph, removal>>
ExecExtension(c, s) ==
    /\ s.do = "extension"
    /\ SetTables(c, [tables EXCEPT !.extension[s.id] = [cached |-> s.cached, status |-> s.status]])
ExecTarget(c, s) ==
    /\ s.do \in {"target", "installation"}
    /\ SetTables(c, [tables EXCEPT ![s.do][<<s.id, s.key>>] = s.status])
ExecProject(c, s) == s.do = "project" /\ SetTables(c, [tables EXCEPT !.project[s.id] = s.key])
ExecTool(c, s) ==
    /\ s.do = "tool"
    /\ SetTables(c, [tables EXCEPT !.tool[s.id] = [at |-> s.key, manifest |-> s.manifest]])

(* UPDATE ... WHERE: rows that are not there stay away.                     *)
Updated(table, s) ==
    [w \in DOMAIN table |-> IF w[1] = s.id /\ w[2] \in s.keys /\ table[w] # None THEN s.status ELSE table[w]]
ExecSetExtension(c, s) ==
    /\ s.do = "setExtension"
    /\ SetTables(c, IF tables.extension[s.id] = None THEN tables
                    ELSE [tables EXCEPT !.extension[s.id].status = s.status])
ExecSetTargets(c, s) ==
    s.do = "setTargets" /\ SetTables(c, [tables EXCEPT !.target = Updated(@, s)])
ExecSetInstallations(c, s) ==
    s.do = "setInstallations" /\ SetTables(c, [tables EXCEPT !.installation = Updated(@, s)])

SetGraph(value, statements) == graph' = value /\ todo' = statements /\ UNCHANGED <<tables, removal>>
OnDisk(key) == PathOf(key) \in Paths /\ disk[PathOf(key)] # None

ExecResource(c, s) ==
    /\ s.do = "resource"
    /\ SetGraph([graph EXCEPT !.resource[s.id] = Resource(s.origin, s.status, s.manifest)], Rest(c))

(* recordResourceBindingForKnownTarget: only for a resource that is there.  *)
ExecKnown(c, s) ==
    /\ s.do = "known"
    /\ SetGraph(graph, Then(c, IF graph.resource[s.id] = None THEN <<>>
                               ELSE Graph(s.id, "scan", s.key, s.status, None, None)))

(* pathStatusForTarget.                                                     *)
PathStatus(status, key) ==
    IF status = "scan_failed" THEN "UNKNOWN" ELSE IF OnDisk(key) THEN "OK" ELSE "MISSING"

(* The binding, and the file behind it when there is one.                   *)
ExecBinding(c, s) ==
    /\ s.do = "binding"
    /\ LET b == <<s.id, s.key>>
           tracked == OnDisk(s.key) /\ s.tracked
           drifted == tracked /\ ScannedFile(b).drifted
           row == [Binding(s.status, s.kit, s.project) EXCEPT
                     !.path = PathStatus(s.status, s.key),
                     !.drift = drifted,
                     !.hash = IF drifted THEN disk[PathOf(s.key)] ELSE None]
       IN  SetGraph([graph EXCEPT !.binding[b] = row],
                    Then(c, IF tracked THEN <<PutFile(s.id, s.key, ScannedFile(b))>> ELSE <<>>))

ExecFile(c, s) ==
    s.do = "file" /\ SetGraph([graph EXCEPT !.file[<<s.id, s.key>>] = s.file], Rest(c))

ExecMark(c, s) ==
    /\ s.do = "mark"
    /\ LET there == BindingsAt(s.id, s.keys) IN
       SetGraph([graph EXCEPT !.binding = [b \in Places |->
                    IF b \in there THEN Marked(b, s.status) ELSE @[b]]], Rest(c))

(* checkResourcePath: the file's row first, the binding's in a statement of *)
(* its own, which overwrites what another call has found in between.        *)
ExecCheck(c, s) ==
    /\ s.do = "check"
    /\ LET b == <<s.id, s.key>>
           file == IF OnDisk(s.key) THEN CheckedFile(b) ELSE None
       IN  SetGraph(IF file = None THEN graph ELSE [graph EXCEPT !.file[b] = file],
                    Then(c, <<Checked(s.id, s.key, IF file = None THEN "MISSING" ELSE "OK", file)>>))
ExecChecked(c, s) ==
    /\ s.do = "checked"
    /\ LET b == <<s.id, s.key>> IN
       SetGraph([graph EXCEPT !.binding[b] =
           IF @ = None THEN None
           ELSE IF s.file = None THEN [@ EXCEPT !.path = s.path]
           ELSE [@ EXCEPT !.path = s.path, !.hash = s.file.current, !.drift = s.file.drifted]], Rest(c))

ExecAudit(c, s) ==
    /\ s.do = "audit"
    /\ \E verdict \in {"SAFE", "SECURITY_RISK"} : SetGraph(Audited(<<s.id, s.key>>, verdict), Rest(c))

(* DELETE ... WHERE resource_id IN: one statement per table; what another   *)
(* call puts between two of them stays.                                     *)
Without(rows, rs) == [b \in Places |-> IF b[1] \in rs THEN None ELSE rows[b]]
ExecForget(c, s) ==
    \/ /\ s.do = "forgetFiles"
       /\ SetGraph([graph EXCEPT !.file = Without(@, s.ids), !.finding = Without(@, s.ids)], Rest(c))
    \/ s.do = "forgetBindings" /\ SetGraph([graph EXCEPT !.binding = Without(@, s.ids)], Rest(c))
    \/ /\ s.do = "forgetResources"
       /\ SetGraph([graph EXCEPT !.resource = [r \in Resources |-> IF r \in s.ids THEN None ELSE @[r]]],
                   Rest(c))

(* The project's resource and the bindings of it.                           *)
WithoutProject(p) ==
    [graph EXCEPT !.resource[p] = None,
                  !.binding = [b \in Places |-> IF b[1] = p THEN None ELSE @[b]]]

(* What is left to do when the transaction throws.                          *)
RemovalFails_Swallowed(c) == Rest(c)
RemovalFails(c) ==
    [todo EXCEPT ![c] = <<PutRecord("failure"), UpdatePlan("failure"), Announce("blocked")>>]

(* The record of a removal, and what has become of the project's rows.  They*)
(* go in one transaction with the record; its statements are not awaited,   *)
(* and no statement of another call comes between BEGIN and COMMIT.  The    *)
(* transaction may throw before COMMIT, and is rolled back then, or after   *)
(* it, when the file is not written, and then the rows are gone.            *)
RemovalStatement(c, s) ==
    \/ /\ s.do = "plan"
       /\ removal' = [removal EXCEPT ![c] =
              [project |-> s.id, plan |-> s.status, record |-> None, event |-> None, rows |-> "kept"]]
       /\ todo' = Rest(c)
       /\ UNCHANGED <<tables, graph>>
    \/ /\ s.do \in {"record", "event"}
       /\ removal' = [removal EXCEPT ![c][s.do] = s.status]
       /\ todo' = Rest(c)
       /\ UNCHANGED <<tables, graph>>
    \/ /\ s.do = "replan"
       /\ removal' = [removal EXCEPT ![c].plan = s.status]
       /\ todo' = Rest(c)
       /\ UNCHANGED <<tables, graph>>
    \/ /\ s.do = "deleteProject"
       /\ tables' = [tables EXCEPT !.project[s.id] = None]
       /\ graph' = WithoutProject(s.id)
       /\ removal' = [removal EXCEPT ![c].plan = "success", ![c].record = "success", ![c].rows = "gone"]
       /\ todo' = Then(c, <<WriteRemoval>>)
    \/ /\ s.do = "write"
       /\ removal' = [removal EXCEPT ![c].rows = "written"]
       /\ todo' = Rest(c)
       /\ UNCHANGED <<tables, graph>>
    \/ /\ s.do \in {"deleteProject", "write"}
       /\ todo' = RemovalFails(c)
       /\ UNCHANGED <<tables, graph, removal>>

Execute(c) ==
    /\ ~Idle(c)
    /\ LET s == Head(todo[c]) IN
       \/ ExecExtension(c, s) \/ ExecTarget(c, s) \/ ExecProject(c, s) \/ ExecTool(c, s)
       \/ ExecSetExtension(c, s) \/ ExecSetTargets(c, s) \/ ExecSetInstallations(c, s)
       \/ ExecResource(c, s) \/ ExecKnown(c, s) \/ ExecBinding(c, s) \/ ExecFile(c, s) \/ ExecMark(c, s)
       \/ ExecCheck(c, s) \/ ExecChecked(c, s) \/ ExecAudit(c, s) \/ ExecForget(c, s)
       \/ RemovalStatement(c, s)
    /\ UNCHANGED <<made, disk>>

(* A db.run throws before its statement has changed anything, and the call  *)
(* ends there.  One that throws because the file is not written ends it     *)
(* after the change: the same as throwing at the next statement, or as the  *)
(* end of the call.  A removal goes on from its transaction (RemovalFails). *)
StatementThrows(c) ==
    /\ ~Idle(c)
    /\ Head(todo[c]).do \notin {"deleteProject", "write"}
    /\ todo' = [todo EXCEPT ![c] = <<>>]
    /\ UNCHANGED <<tables, graph, made, disk, removal>>

-----------------------------------------------------------------------------
(* listResources: before it reads, every older row that has no resource or  *)
(* no binding is given one (backfillLegacyResourcesIfNeeded); a row that    *)
(* is there is left as it is.                                               *)

LegacyRows ==
    {<<w, tables.target[w]>> : w \in {v \in Extensions \X Paths : tables.target[v] # None}}
    \cup {<<w, tables.installation[w]>> :
             w \in {v \in Configured \X Paths : tables.installation[v] # None}}
    \cup {<<<<e, Legacy>>, tables.extension[e].status>> : e \in
        {x \in Extensions : tables.extension[x] # None
                            /\ \A t \in Paths : tables.target[<<x, t>>] = None}}
    \cup {<<<<p, tables.project[p]>>, "scanned">> : p \in {x \in Projects : tables.project[x] # None}}
    \cup {<<<<k, tables.tool[k].at>>, "scanned">> : k \in {x \in Kits : tables.tool[x] # None}}

(* Targets come before installations.                                       *)
LegacyStatus(rows, b) ==
    IF b[1] \in Extensions /\ b[2] \in Paths /\ tables.target[b] # None THEN tables.target[b]
    ELSE (CHOOSE row \in rows : row[1] = b)[2]

(* An extension's resource takes the status of the extension's own row.     *)
LegacyResourceStatus(rows, r) ==
    IF r \in Extensions /\ tables.extension[r] # None THEN tables.extension[r].status
    ELSE LegacyStatus(rows, (CHOOSE row \in rows : row[1][1] = r)[1])

Backfilled ==
    LET rows == LegacyRows
        places == {row[1] : row \in rows}
    IN
    [graph EXCEPT
        !.resource = [r \in Resources |->
            IF @[r] = None /\ \E b \in places : b[1] = r
            THEN Resource("legacy", LegacyResourceStatus(rows, r),
                          IF r \in Kits THEN tables.tool[r].manifest ELSE None)
            ELSE @[r]],
        !.binding = [b \in Places |->
            IF @[b] = None /\ b \in places
            THEN Binding(LegacyStatus(rows, b), None, IF b[1] \in Projects THEN b[1] ELSE None)
            ELSE @[b]]]

ListResources ==
    /\ graph' = Backfilled
    /\ UNCHANGED <<tables, todo, made, disk, removal>>

(* A user or another program changes a file.                                *)
EditFile(t) ==
    /\ made < MaxCalls
    /\ made' = made + 1
    /\ \E x \in Contents \cup {None} : x # disk[t] /\ disk' = [disk EXCEPT ![t] = x]
    /\ UNCHANGED <<tables, graph, todo, removal>>

StartCall(c) ==
    /\ Idle(c)
    /\ made < MaxCalls
    /\ \/ \E e \in Extensions :
            \/ RecordSkillInstalled(c, e)
            \/ MarkCleaned(c, e)
            \/ \E hints \in (SUBSET Hints) \ {{}} : ApplyHints(c, e, hints)
            \/ \E t \in Paths : \/ RecordTarget(c, e, t)
                                \/ RecordInstallation(c, e, t)
                                \/ RecordScannedExtension(c, e, t)
       \/ \E t \in Paths :
            \/ RecordScanFailure(c, t)
            \/ \E k \in Kits : RecordScannedTool(c, k, t)
            \/ \E p \in Projects : RecordScannedProject(c, p, t)
            \/ \E r \in AgentFiles, p \in Projects \cup {None} : RecordAgentResource(c, r, t, p)
       \/ DeleteAgentInventory(c)
       \/ \E b \in Places : CheckResourcePath(c, b)
       \/ RunStaticAudit(c)
       \/ \E p \in Projects : RemoveProject(c, p)

-----------------------------------------------------------------------------
(* Properties.                                                              *)

ResourceRow ==
    [origin : {"install", "scan", "agent", "legacy", "kit"},
     audit : {"SECURITY_RISK", "NOT_AUDITED", "SAFE"}, manifest : KitManifests \cup {None}]
FileRow == [known : Hash, current : Hash, drifted : BOOLEAN]
BindingRow ==
    [status : Statuses, audit : {"SECURITY_RISK", "NOT_AUDITED", "SAFE"},
     path : {"UNKNOWN", "OK", "MISSING"}, drift : BOOLEAN, hash : Hash,
     kit : Kits \cup {None}, meta : (Kits \X Paths) \cup {None}, project : Projects \cup {None}]
RemovalRow ==
    [project : Projects, plan : {"planned", "blocked", "success", "failure"},
     record : {None, "blocked", "success", "failure"}, event : {None, "removed", "blocked"},
     rows : {"kept", "gone", "written"}]

(* What a scan finds is a manifest, and None is nothing that is there and   *)
(* no word.                                                                 *)
ASSUME RowAssumption ==
    /\ Manifests \subseteq KitManifests
    /\ None \notin ResourceRow \cup BindingRow \cup RemovalRow \cup (Kits \X Paths)
    /\ None \notin {"success", "removed"}

(* Every row holds what its columns are for.                                *)
Is(row, type) == row = None \/ row \in type
LifecycleTypeOK ==
    /\ \A e \in Extensions : Is(tables.extension[e], [cached : BOOLEAN, status : Statuses])
    /\ \A w \in Extensions \X Paths : Is(tables.target[w], Statuses)
    /\ \A w \in Configured \X Paths : Is(tables.installation[w], Statuses)
    /\ \A p \in Projects : Is(tables.project[p], Paths)
    /\ \A b \in Places : /\ Is(graph.binding[b], BindingRow)
                         /\ Is(graph.file[b], FileRow)
                         /\ Is(graph.finding[b], {"SAFE", "SECURITY_RISK"})
    /\ made \in 0..MaxCalls
    /\ \A t \in Paths : disk[t] \in Hash
    /\ \A c \in Calls : Is(removal[c], RemovalRow)

(* What a removal says of itself is what it did: it is announced only when  *)
(* the rows are gone and the file is written, its record says success only  *)
(* of rows that are gone, and rows that are gone leave a record of success  *)
(* or - when the file was not written - of failure, never of a refusal.     *)
Truthful(row) ==
    /\ row.event = "removed" => row.rows = "written" /\ row.plan = "success" /\ row.record = "success"
    /\ row.record = "success" => row.rows # "kept"
    /\ row.rows # "kept" => row.record \in {"success", "failure"}

(* A project leaves the records only whole - its row, its resource and the  *)
(* bindings of it - by a removal whose record says so, and every removal    *)
(* stays truthful, although its transaction may fail on either side of      *)
(* COMMIT, its other statements may throw, the process may stop, and other  *)
(* calls, a second removal of the project among them, run whenever it waits *)
(* (removeProjectManagementRecord, LocalDatabase.transaction).              *)
RemovalIsTold ==
    [][/\ \A p \in Projects : graph.resource[p] # None /\ graph'.resource[p] = None =>
             /\ tables'.project[p] = None
             /\ \A key \in Keys : graph'.binding[<<p, key>>] = None
             /\ \E c \in Calls : /\ removal'[c] # None
                                 /\ removal'[c].project = p
                                 /\ removal'[c].record = "success"
       /\ \A c \in Calls : removal'[c] # None => Truthful(removal'[c])]_lifecycleVars
=============================================================================
