------------------------------ MODULE LocalKits ------------------------------
(* Kits: lists of resources that are applied to a target together           *)
(* (local-kit-service.ts).  An operation reads one listing, asks the        *)
(* policy, lets the executor run a plan or not, and then writes or removes  *)
(* bindings one by one through the repository, each with a result of its    *)
(* own; the status it reports is the aggregate of the results.              *)
EXTENDS LocalLifecycle, OperationPolicy

VARIABLE kitOp     \* the operation each caller has under way, or None

KitInit == kitOp = [c \in Calls |-> None]

(* An operation: what it is about, the plan it waits for, the resources or  *)
(* bindings that plan is for, what it has done with success, whether it has *)
(* come to change a binding, and the results so far.                        *)
KitOp(kind, k, t, manifest, plan, work, results) ==
    [kind |-> kind, kit |-> k, target |-> t, manifest |-> manifest, plan |-> plan,
     work |-> work, done |-> {}, wrote |-> FALSE, results |-> results]

(* Every operation reads a listing first, and a listing fills in the older  *)
(* rows (Backfilled); the rest of the step reads that.                      *)
BeginKitOp(c, listing, op, statements) ==
    /\ made' = made + 1
    /\ graph' = listing
    /\ kitOp' = [kitOp EXCEPT ![c] = op]
    /\ todo' = [todo EXCEPT ![c] = statements]
    /\ UNCHANGED <<tables, disk, removal>>

StoredManifest(listing, k) ==
    IF listing.resource[k] = None THEN None ELSE listing.resource[k].manifest

(* What a kit has under management: by its column, or by its metadata.      *)
ManagedBindings(listing, k, t) ==
    {b \in Places : LET row == listing.binding[b] IN
        /\ row # None
        /\ row.kit = k \/ row.meta \in {k} \X Paths
        /\ t = None \/ row.meta \in Kits \X {t}}

KitRecord(k) == [do |-> "kitRecord", id |-> k]
KitUnbindAll(k) == [do |-> "kitUnbindAll", id |-> k]
KitUnbind(b, k, t) == [do |-> "kitUnbind", id |-> b[1], key |-> b[2], kit |-> k, target |-> t]
KitForget(k) == [do |-> "kitForget", id |-> k]
KitBind(r, k, t) == [do |-> "kitBind", id |-> r, key |-> <<k, t>>]
KitBound(r, k, t, s) == [do |-> "kitBound", id |-> r, key |-> <<k, t>>, status |-> s]
KitApplied(k, t) == [do |-> "kitApplied", id |-> k, key |-> <<k, t>>]
KitDrift(k) == [do |-> "kitDrift", id |-> k]
KitAudit(k) == [do |-> "kitAudit", id |-> k]

-----------------------------------------------------------------------------
(* Kits come from a file, or from what an agent or a project has.           *)

RecordManifest(c, listing, kind, k, manifest) ==
    BeginKitOp(c, listing, KitOp(kind, k, None, manifest, FALSE, {}, {"success"}),
               <<KitRecord(k)>>)

ImportManifest(c, listing, k) == \E manifest \in Manifests : RecordManifest(c, listing, "import", k, manifest)

(* A binding whose resource is gone is in no row of the listing.            *)
ListedRows(listing) == {b \in Places : listing.binding[b] # None /\ listing.resource[b[1]] # None}

HashOfRow(listing, b) ==
    IF listing.binding[b].hash # None \/ listing.file[b] = None THEN listing.binding[b].hash
    ELSE listing.file[b].current

Reference(hash, required) == [hash |-> hash, required |-> required]

(* A manifest of the rows of a project or outside any; every reference is   *)
(* required.  When a resource has several rows the last one's hash stays.   *)
GenerateManifest(c, listing, k) ==
    \E p \in Projects \cup {None} :
        LET rows == {b \in ListedRows(listing) : /\ b[1] \in Extensions \cup AgentFiles
                                        /\ listing.binding[b].project = p}
            manifest == [r \in {b[1] : b \in rows} |->
                            Reference(HashOfRow(listing, CHOOSE b \in rows : b[1] = r), TRUE)]
        IN  rows # {} /\ RecordManifest(c, listing, "generate", k, manifest)

(* exportManifest: into the answer, or by a plan into a file.               *)
ExportManifest(c, listing, k, t) ==
    /\ StoredManifest(listing, k) # None
    /\ BeginKitOp(c, listing, KitOp("export", k, t, StoredManifest(listing, k), t # None, {},
                           IF t = None THEN {"success"} ELSE {}), <<>>)

-----------------------------------------------------------------------------
(* resolveManifestResources: a reference is one of its resource's bindings, *)
(* the resource alone (written Legacy) when it has none, or None.           *)
Rows(listing, r) == {b \in ListedRows(listing) : b[1] = r}
Candidates(listing, r) ==
    CASE Rows(listing, r) # {} -> Rows(listing, r)
      [] listing.resource[r] = None -> {None}
      [] OTHER -> {Legacy}
Resolutions(listing, manifest) ==
    {f \in [DOMAIN manifest -> UNION {Candidates(listing, r) : r \in DOMAIN manifest}] :
        \A r \in DOMAIN manifest : f[r] \in Candidates(listing, r)}

HashError(listing, reference, row) ==
    /\ reference.hash # None
    /\ row = Legacy \/ HashOfRow(listing, row) # reference.hash

(* toPhase3ResourceContext.                                                 *)
KitContext(listing, r, row, reference) ==
    LET known(x) == IF x = None THEN NoValue ELSE x
        alone == [type |-> IF r \in Extensions THEN "SKILL" ELSE "RULE",
                  server |-> FALSE, mode |-> NoValue, byKit |-> TRUE, byPlugin |-> FALSE,
                  auth |-> NoValue, audit |-> listing.resource[r].audit, drift |-> NoValue,
                  path |-> NoValue, expected |-> known(reference.hash), current |-> NoValue]
        b == listing.binding[row]
    IN  IF row = Legacy THEN alone
        ELSE [alone EXCEPT
                !.auth = AuthOf(b.status),
                !.audit = IF listing.finding[row] # None THEN listing.finding[row] ELSE b.audit,
                !.drift = IF b.drift THEN "HASH_CHANGED" ELSE "UNKNOWN",
                !.path = b.path,
                !.current = known(b.hash)]

KitApplyDecision(listing, manifest, f) ==
    Decision("kit.apply",
             {KitContext(listing, r, f[r], manifest[r]) : r \in {x \in DOMAIN manifest : f[x] # None}},
             FALSE, NoValue)

(* prepareKitApplyResources: what has no row or another hash has its result *)
(* before the plan; the rest is in the plan.                                *)
Fit(listing, manifest, f) == {r \in DOMAIN manifest : f[r] # None /\ ~HashError(listing, manifest[r], f[r])}
Preflight_Dropped(listing, manifest, f) == {}
Preflight(listing, manifest, f) ==
    {IF f[r] = None /\ ~manifest[r].required THEN "skipped" ELSE "failure" :
        r \in DOMAIN manifest \ Fit(listing, manifest, f)}

(* apply; the manifest is the stored one or one that is handed in.          *)
Apply(c, listing, k, t) ==
    \E manifest \in {StoredManifest(listing, k)} \cup Manifests :
        /\ manifest # None
        /\ \E f \in Resolutions(listing, manifest) :
             LET fit == Fit(listing, manifest, f)
                 op(plan, work, results) ==
                    BeginKitOp(c, listing, KitOp("apply", k, t, manifest, plan, work, results), <<>>)
             IN  IF ~Permitted(KitApplyDecision(listing, manifest, f)) THEN op(FALSE, {}, {"blocked"})
                 ELSE IF fit = {} THEN op(FALSE, {}, IF Preflight(listing, manifest, f) = {} THEN {"failure"}
                                                     ELSE Preflight(listing, manifest, f))
                 ELSE op(TRUE, fit, Preflight(listing, manifest, f))

(* removeApplication of one application or of all; the policy never blocks  *)
(* a removal.                                                               *)
RemoveApplication(c, listing, k, t) ==
    /\ StoredManifest(listing, k) # None
    /\ LET found == ManagedBindings(listing, k, t) IN
       BeginKitOp(c, listing, KitOp("remove", k, t, StoredManifest(listing, k), found # {}, found,
                           IF found = {} THEN {"failure"} ELSE {}), <<>>)

(* deleteManifest: with the applications, or only when there are none.      *)
DeleteManifest(c, listing, k, removeApplications) ==
    /\ StoredManifest(listing, k) # None
    /\ LET kept == ManagedBindings(listing, k, None) # {} /\ ~removeApplications IN
       BeginKitOp(c, listing, KitOp("delete", k, None, StoredManifest(listing, k), FALSE, {},
                           IF kept THEN {"failure"} ELSE {}),
                  IF kept THEN <<>>
                  ELSE IF removeApplications THEN <<KitUnbindAll(k), KitForget(k)>>
                  ELSE <<KitForget(k)>>)

CheckKit(c, listing, k) ==
    /\ StoredManifest(listing, k) # None
    /\ \E s \in {KitDrift(k), KitAudit(k)} :
         BeginKitOp(c, listing, KitOp("check", k, None, StoredManifest(listing, k), FALSE, {}, {}), <<s>>)

-----------------------------------------------------------------------------
(* The executor has run the plan; the bindings follow only a success.       *)
PlanEnds(c) ==
    /\ Idle(c) /\ kitOp[c] # None /\ kitOp[c].plan
    /\ \E outcome \in {"success", "failure", "rolled_back", "rollback_failed"} :
         LET op == kitOp[c]
             work == InSomeOrder(op.work)
         IN  /\ kitOp' = [kitOp EXCEPT ![c].plan = FALSE,
                            ![c].results = IF outcome # "success" \/ op.kind = "export"
                                           THEN @ \cup {outcome} ELSE @]
             /\ IF op.kind = "export" /\ outcome = "success"
                THEN \E x \in Contents : disk' = [disk EXCEPT ![op.target] = x]
                ELSE disk' = disk
             /\ todo' = [todo EXCEPT ![c] =
                  IF outcome # "success" \/ op.kind = "export" THEN <<>>
                  ELSE IF op.kind = "apply"
                  THEN [i \in DOMAIN work |-> KitBind(work[i], op.kit, op.target)]
                       \o <<KitApplied(op.kit, op.target)>>
                  ELSE [i \in DOMAIN work |-> KitUnbind(work[i], op.kit, op.target)]]
    /\ UNCHANGED <<tables, graph, made, removal>>

KitBinding(s, k, t) ==
    [Binding(s, k, None) EXCEPT !.meta = <<k, t>>,
                                !.path = IF disk[t] # None THEN "OK" ELSE "MISSING"]

Result(c, result) == [kitOp EXCEPT ![c].results = @ \cup {result}]
Done(c, x) ==
    [kitOp EXCEPT ![c].results = @ \cup {"success"}, ![c].done = @ \cup {x}, ![c].wrote = TRUE]
Wrote(c) == [kitOp EXCEPT ![c].wrote = TRUE]

(* removeKitManagedBinding looks at the binding again before it deletes.    *)
Removable_Unchecked(b, k, t) == graph.binding[b] # None
Removable(b, k, t) ==
    /\ graph.binding[b] # None
    /\ graph.binding[b].meta \in {k} \X (IF t = None THEN Paths ELSE {t})

(* What a statement writes.  A kit is recorded as an application leaves it  *)
(* with the status reached so far, and deleteKitManifestRecord deletes the  *)
(* kit and its own bindings, not those it made for its resources.           *)
Reached(c) == Aggregate(kitOp[c].results, "success")
KitWrites(c, s) ==
    LET resource(st) == [graph EXCEPT !.resource[s.id] = Resource("kit", st, kitOp[c].manifest)] IN
    CASE s.do = "kitRecord" -> {resource("metadata_refresh")}
      [] s.do = "kitApplied" -> {resource(Reached(c))}
      [] s.do = "kitBound" ->
           {[graph EXCEPT !.binding[<<s.id, s.key>>] = KitBinding(s.status, s.key[1], s.key[2])]}
      [] s.do = "kitUnbind" ->
           {IF Removable(<<s.id, s.key>>, s.kit, s.target)
            THEN [graph EXCEPT !.binding[<<s.id, s.key>>] = None] ELSE graph}
      [] s.do = "kitForget" ->
           {IF graph.resource[s.id] = None THEN graph
            ELSE [graph EXCEPT !.resource[s.id] = None, !.binding = Without(@, {s.id})]}
      [] s.do = "kitAudit" -> {Audited(<<s.id, Legacy>>, verdict) : verdict \in {"SAFE", "SECURITY_RISK"}}
      [] OTHER -> {graph}

(* The statements of an operation, and the result each leaves.              *)
ExecKitRecord(c, s) ==
    /\ s.do = "kitRecord"
    /\ graph' \in KitWrites(c, s)
    /\ todo' = Rest(c)
    /\ UNCHANGED kitOp

(* recordKitManagedResourceBinding: nothing for a resource that is gone.    *)
ExecKitBind(c, s) ==
    /\ s.do = "kitBind"
    /\ IF graph.resource[s.id] = None
       THEN kitOp' = Result(c, "failure") /\ todo' = Rest(c)
       ELSE todo' = Then(c, <<KitBound(s.id, s.key[1], s.key[2], "enabled")>>) /\ UNCHANGED kitOp
    /\ UNCHANGED graph
ExecKitBound(c, s) ==
    /\ s.do = "kitBound"
    /\ graph' \in KitWrites(c, s)
    /\ kitOp' = IF s.id \in Kits THEN Wrote(c) ELSE Done(c, s.id)
    /\ todo' = Rest(c)

(* recordKitApplicationBinding: the kit, then its own binding.              *)
ExecKitApplied(c, s) ==
    /\ s.do = "kitApplied"
    /\ graph' \in KitWrites(c, s)
    /\ todo' = Then(c, <<KitBound(s.id, s.key[1], s.key[2], Reached(c))>>)
    /\ UNCHANGED kitOp

ExecKitUnbindAll(c, s) ==
    /\ s.do = "kitUnbindAll"
    /\ LET found == InSomeOrder({b \in Places : Removable(b, s.id, None)}) IN
       todo' = Then(c, [i \in DOMAIN found |-> KitUnbind(found[i], s.id, None)])
    /\ UNCHANGED <<graph, kitOp>>
ExecKitUnbind(c, s) ==
    /\ s.do = "kitUnbind"
    /\ LET b == <<s.id, s.key>>
           gone == Removable(b, s.kit, s.target)
           deleting == kitOp[c].kind = "delete"
       IN  kitOp' = IF gone THEN IF deleting THEN Wrote(c) ELSE Done(c, b)
                    ELSE IF deleting THEN kitOp ELSE Result(c, "failure")
    /\ graph' \in KitWrites(c, s)
    /\ todo' = Rest(c)

ExecKitForget(c, s) ==
    /\ s.do = "kitForget"
    /\ graph' \in KitWrites(c, s)
    /\ LET there == graph.resource[s.id] # None IN
       kitOp' = [kitOp EXCEPT ![c].results = @ \cup {IF there THEN "success" ELSE "failure"},
                              ![c].wrote = @ \/ there]
    /\ todo' = Rest(c)

(* detectKitDrift, over a listing of its own.                               *)
ExecKitDrift(c, s) ==
    /\ s.do = "kitDrift"
    /\ graph' = Backfilled
    /\ \E listing \in {Backfilled} : \E f \in Resolutions(listing, kitOp[c].manifest) :
         LET drifted == {r \in DOMAIN f : f[r] \notin {None, Legacy} /\ listing.binding[f[r]].drift}
             results == Preflight(listing, kitOp[c].manifest, f)
                        \cup (IF drifted = {} THEN {} ELSE {"failure"})
         IN  kitOp' = [kitOp EXCEPT ![c].results = IF results = {} THEN {"success"} ELSE results]
    /\ todo' = Rest(c)

ExecKitAudit(c, s) ==
    /\ s.do = "kitAudit"
    /\ \E verdict \in {"SAFE", "SECURITY_RISK"} :
         /\ graph' = Audited(<<s.id, Legacy>>, verdict)
         /\ kitOp' = Result(c, IF verdict = "SAFE" THEN "success" ELSE "failure")
    /\ todo' = Rest(c)

KitStatement(c, s) ==
    \/ ExecKitRecord(c, s) \/ ExecKitBind(c, s) \/ ExecKitBound(c, s) \/ ExecKitApplied(c, s)
    \/ ExecKitUnbindAll(c, s) \/ ExecKitUnbind(c, s) \/ ExecKitForget(c, s)
    \/ ExecKitDrift(c, s) \/ ExecKitAudit(c, s)

ExecuteKit(c) ==
    /\ ~Idle(c) /\ kitOp[c] # None
    /\ KitStatement(c, Head(todo[c]))
    /\ UNCHANGED <<tables, made, disk, removal>>

(* A statement that throws, before it has written anything or when the file *)
(* is not written after it: in a plan's aftermath its resource fails and    *)
(* the others go on; a metadata operation ends there, as a failure.         *)
KitStatementFails(c) ==
    /\ ~Idle(c) /\ kitOp[c] # None
    /\ \E written \in BOOLEAN :
         LET goesOn == kitOp[c].kind \in {"apply", "remove"}
             s == Head(todo[c])
         IN  /\ graph' \in IF written THEN KitWrites(c, s) ELSE {graph}
             /\ kitOp' = [kitOp EXCEPT
                   ![c].results = IF goesOn THEN @ \cup {"failure"} ELSE {"failure"},
                   ![c].wrote = @ \/ (written /\ s.do \in {"kitBound", "kitUnbind", "kitForget"})]
             /\ todo' = IF goesOn THEN Rest(c) ELSE [todo EXCEPT ![c] = <<>>]
    /\ UNCHANGED <<tables, made, disk, removal>>

(* Nothing is left to do: the record, the plan's status, the event and the  *)
(* answer carry the aggregate of the results.                               *)
Ends(c) == Idle(c) /\ kitOp[c] # None /\ ~kitOp[c].plan
ReportKitOp(c) ==
    /\ Ends(c)
    /\ kitOp' = [kitOp EXCEPT ![c] = None]
    /\ UNCHANGED <<tables, graph, todo, made, disk, removal>>

StartKitOp(c) ==
    /\ Idle(c) /\ kitOp[c] = None
    /\ made < MaxCalls
    /\ \E listing \in {Backfilled}, k \in Kits :
        \/ ImportManifest(c, listing, k) \/ GenerateManifest(c, listing, k) \/ CheckKit(c, listing, k)
        \/ \E t \in Paths : Apply(c, listing, k, t)
        \/ \E t \in Paths \cup {None} : RemoveApplication(c, listing, k, t) \/ ExportManifest(c, listing, k, t)
        \/ \E with \in BOOLEAN : DeleteManifest(c, listing, k, with)

KitStep(c) == PlanEnds(c) \/ ExecuteKit(c) \/ KitStatementFails(c) \/ ReportKitOp(c)

(* The process ends; what an operation had in memory is gone.               *)
KitCrash ==
    /\ \E c \in Calls : ~Idle(c) \/ kitOp[c] # None
    /\ todo' = [c \in Calls |-> <<>>]
    /\ kitOp' = [c \in Calls |-> None]
    /\ UNCHANGED <<tables, graph, made, disk, removal>>

KitNext ==
    \/ \E c \in Calls : /\ kitOp[c] = None
                        /\ StartCall(c) \/ Execute(c) \/ StatementThrows(c)
                        /\ UNCHANGED kitOp
    \/ (ListResources \/ \E t \in Paths : EditFile(t)) /\ UNCHANGED kitOp
    \/ \E c \in Calls : StartKitOp(c) \/ KitStep(c)
    \/ KitCrash

KitSpec == Init /\ KitInit /\ [][KitNext]_<<lifecycleVars, kitOp>>

-----------------------------------------------------------------------------
(* Properties.                                                              *)

(* What an operation reports is what came of it, although each binding is   *)
(* written on its own, may fail on its own - written or not - and other     *)
(* calls run in between (aggregateResourceChangeStatus over the results): a *)
(* kit that is reported applied has had a binding written for every         *)
(* reference it requires, one that is reported removed has had every        *)
(* binding removed, one that reports neither success nor partial success    *)
(* has no resource that succeeded, and one that has come to change any      *)
(* binding, its own included, is never reported blocked or rolled back.  A  *)
(* failure may have changed bindings.                                       *)
KitReportHonest ==
    \A c \in Calls : Ends(c) =>
        LET op == kitOp[c] IN
        /\ op.kind = "apply" /\ Reached(c) = "success" =>
              \A r \in DOMAIN op.manifest : op.manifest[r].required => r \in op.done
        /\ op.kind = "remove" /\ Reached(c) = "success" => op.done = op.work
        /\ op.done # {} => Reached(c) \in {"success", "partial_success"}
        /\ op.wrote => Reached(c) \in {"success", "partial_success", "failure"}

(* The binding a user made is never deleted: of an extension's bindings     *)
(* only those a kit manages go, even when a hint or a scan rewrote the      *)
(* binding between the listing and the removal (removeKitManagedBinding).   *)
KitRemovalSparesOwn ==
    [][\A b \in Extensions \X Keys :
          graph.binding[b] # None /\ graph'.binding[b] = None => graph.binding[b].meta # None]_lifecycleVars
=============================================================================
