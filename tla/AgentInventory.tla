---------------------------- MODULE AgentInventory ----------------------------
(***************************************************************************)
(* The scan of the desktop for what its agents use: the managed            *)
(* directories (lifecycle/local-inventory-scanner.ts), and then the paths  *)
(* each agent of the catalogue reads, once for the home directory and once *)
(* more for each project (agents/agent-inventory-scanner.ts,               *)
(* agents/agent-catalog.ts).                                               *)
(*                                                                         *)
(* A path holds nothing, cannot be looked at, or holds a list of files, of *)
(* which some cannot be read or parsed: of a directory, those whose state  *)
(* can be told, the others being passed over; of one that has none, the    *)
(* directory itself, which cannot be read. The contents of the files, and  *)
(* the names drawn from them, are left out, and paths of two kinds are two *)
(* paths. A candidate is an agent, a place and a kind; recording the files *)
(* of one, with their findings and events, is one step. Two scans may      *)
(* overlap, and the disk may change under a scan.                          *)
(***************************************************************************)
EXTENDS Naturals, Sequences, FiniteSets

CONSTANTS
    BuiltIn, Custom, Template,  \* agents: of the product, the user's, and its placeholder
    ScannedKinds,               \* kinds of resources under study
    ScannedProjects, Home,      \* the places: a project, the home directory
    Packages,                   \* what else the managed directories hold
    Scans,                      \* scans under way at a time
    MaxTurns                    \* bound: scans and changes of the disk

ASSUME InventoryAssumption ==
    /\ Home \notin ScannedProjects
    /\ Template \notin BuiltIn \cup {Custom}
    /\ ScannedKinds \cap {"agent", "root", "managed", "profiles", "files"} = {} \* "files" are passed over
    /\ MaxTurns \in Nat

VARIABLES
    agentDisk,           \* what each path holds
    root,           \* the detection root of each agent
    profiles,       \* the agent profiles of config.json
    managed,        \* the managed directories
    registered,     \* rows of local_projects
    inventory,      \* the rows recorded
    overtaken,      \* paths whose failure has been recorded after their row
    scan,           \* the scans under way
    turns,          \* number of scans started and changes of the disk
    undisturbed     \* history: scans that nothing has overlapped, or followed

diskVars == <<agentDisk, root, profiles, managed>>
inventoryVars == <<diskVars, registered, inventory, overtaken, scan, turns, undisturbed>>

Agents == BuiltIn \cup {Custom, Template}
ScanPlaces == {Home} \cup ScannedProjects
AgentPaths == [agent : BuiltIn \cup {Custom}, place : ScanPlaces, kind : ScannedKinds]
ManagedEntries == Packages \cup ScannedProjects

\* <<"good">> is a file, two files are a directory of them in the order they are listed.
Nothing == <<>>
Denied == <<"denied">>
PathContents ==
    {Nothing, Denied} \cup {<<s>> : s \in {"good", "bad"}}
      \cup {<<s, t>> : s, t \in {"good", "bad"}}

\* A row is known by all but its status, except that the row of a failure, and the row of
\* a path that was not there, are rows of their own.
Row(who, place, kind, name, status) ==
    [who |-> who, place |-> place, kind |-> kind, name |-> name, status |-> status]
RowOf(c, name, status) == Row(c.agent, c.place, c.kind, name, status)

\* A file is known by its own path, so a directory's path is not the path of its files.
NameOf(files, i) == IF Len(files) = 1 THEN 0 ELSE i

NoScan == [at |-> "idle", place |-> Home, places |-> {}, agents |-> {}, paths |-> {},
           entries |-> {}, custom |-> FALSE, done |-> {}]

\* An entry of the managed directories: not there, with a manifest that can be read or one
\* that cannot, a link, or in a directory that cannot be listed.
ManagedStates == {"none", "good", "bad", "link", "denied"}

InventoryTypeOK ==
    /\ agentDisk \in [AgentPaths -> PathContents]
    /\ root \in [BuiltIn \cup {Custom} -> {"exists", "missing", "denied"}]
    /\ profiles \in {"none", "valid", "invalid"}
    /\ managed \in [ManagedEntries -> ManagedStates]
    /\ overtaken \subseteq AgentPaths
    /\ registered \subseteq ScannedProjects
    /\ \A r \in inventory : r.who \in Agents \cup ManagedEntries /\ r.place \in ScanPlaces
    /\ \A s \in Scans : scan[s].done \subseteq ScanPlaces /\ scan[s].agents \subseteq Agents
    /\ turns \in 0..MaxTurns

\* At first one thing at most is out of the ordinary. "invalid" profiles are also those
\* that cannot be parsed or read.
InventoryInit ==
    /\ \E c \in AgentPaths, holds \in PathContents, r \in {"exists", "missing", "denied"},
          p \in {"none", "valid", "invalid"}, m \in ManagedStates :
         /\ Cardinality({x \in {<<1, holds, <<"good">>>>, <<2, r, "exists">>,
                                <<3, p, "none">>, <<4, m, "good">>} : x[2] # x[3]}) <= 1
         /\ agentDisk = [d \in AgentPaths |-> IF d = c THEN holds ELSE <<"good">>]
         /\ root = [a \in BuiltIn \cup {Custom} |-> r]
         /\ profiles = p
         /\ managed = [e \in ManagedEntries |-> m]
    /\ registered \in SUBSET ScannedProjects
    /\ inventory = {}
    /\ overtaken = {}
    /\ scan = [s \in Scans |-> NoScan]
    /\ turns = 0
    /\ undisturbed = Scans

-----------------------------------------------------------------------------
(* The catalogue of agents.                                                *)

\* One profile that is not valid, and none of them is taken.
normalizeCustomAgentProfiles == profiles = "valid"

listAgentCatalog(custom) == BuiltIn \cup (IF custom THEN {Custom} ELSE {Template})

\* The template has neither roots nor paths. In the home directory the paths of projects
\* keep their token and are passed over; in a project both are looked at.
resolveAgentPathProfile(agent, place) ==
    {c \in AgentPaths : c.agent = agent /\ c.place \in {Home, place}}

-----------------------------------------------------------------------------
(* A scan.                                                                 *)

Step(s, to) == scan' = [scan EXCEPT ![s] = to]

\* An entry of the managed directories with a broken manifest is a failure for later; a
\* link is neither an entry nor a failure.
ManagedFound == {e \in ManagedEntries : managed[e] = "good"}
ManagedFailures ==
    {Row(e, Home, "managed", 0, "failed") : e \in {x \in ManagedEntries : managed[x] = "bad"}}
ProfileFailures == {Row(Custom, Home, "profiles", 0, "failed") : x \in {profiles} \cap {"invalid"}}

\* A directory that is not there has no entries; one that cannot be listed rejects the
\* scan before it has recorded anything.
Unlisted == \E e \in ManagedEntries : managed[e] = "denied"

StartScan(s) ==
    /\ scan[s].at = "idle" /\ turns < MaxTurns
    /\ ~Unlisted
    /\ turns' = turns + 1
    /\ Step(s, [NoScan EXCEPT !.at = "managed", !.custom = normalizeCustomAgentProfiles,
                              !.entries = ManagedFound])
    /\ undisturbed' = IF \A o \in Scans : scan[o].at = "idle" THEN {s} ELSE {}
    /\ UNCHANGED <<diskVars, registered, inventory, overtaken>>

ScanRejected(s) ==
    /\ scan[s].at = "idle" /\ turns < MaxTurns
    /\ Unlisted
    /\ turns' = turns + 1
    /\ Step(s, NoScan)
    /\ UNCHANGED <<diskVars, registered, inventory, overtaken, undisturbed>>

RecordManaged(s) ==
    /\ scan[s].at = "managed" /\ scan[s].entries # {}
    /\ LET e == CHOOSE x \in scan[s].entries : TRUE
       IN  /\ inventory' = inventory \cup {Row(e, Home, "managed", 0, "scanned")}
           /\ registered' = registered \cup ({e} \cap ScannedProjects)
           /\ Step(s, [scan[s] EXCEPT !.entries = @ \ {e}])
    /\ UNCHANGED <<diskVars, overtaken, turns, undisturbed>>

BetweenAgents(s) == scan[s].at = "agent" /\ scan[s].paths = {}

\* Each run first forgets what the runs before it recorded of three kinds, in any place.
ForgottenKinds == {"files", "hooks", "cli"}

BeginRun(s, place, places) ==
    /\ inventory' = {r \in inventory : r.kind \notin ForgottenKinds \/ r.status = "failed"}
    /\ Step(s, [scan[s] EXCEPT !.at = "agent", !.place = place, !.places = places,
                               !.done = @ \cup {place},
                               !.agents = listAgentCatalog(scan[s].custom)])
    /\ UNCHANGED <<diskVars, registered, overtaken, turns, undisturbed>>

BeginHome(s) ==
    /\ scan[s].at = "managed" /\ scan[s].entries = {}
    /\ BeginRun(s, Home, {})

\* The failures of the managed directories and of the profiles are recorded last of all.
EndScan(s) ==
    /\ inventory' = inventory \cup ManagedFailures \cup ProfileFailures
    /\ Step(s, [scan[s] EXCEPT !.at = "idle"])
    /\ UNCHANGED <<diskVars, registered, overtaken, turns, undisturbed>>

NextRun_StaleList(s) == \* mutant: the projects were listed before the managed directories were read
    /\ BetweenAgents(s) /\ scan[s].agents = {}
    /\ LET left == IF scan[s].place = Home THEN registered \ ManagedFound ELSE scan[s].places
       IN  \/ left = {} /\ EndScan(s)
           \/ \E p \in left : BeginRun(s, p, left \ {p})

\* The projects are listed once, when the home directory is done.
NextRun(s) ==
    /\ BetweenAgents(s) /\ scan[s].agents = {}
    /\ LET left == IF scan[s].place = Home THEN registered ELSE scan[s].places
       IN  \/ left = {} /\ EndScan(s)
           \/ \E p \in left : BeginRun(s, p, left \ {p})

\* The row of an agent. Its paths are looked at when its root is there, and in the run of a
\* project always.
ScanAgent(s) ==
    /\ BetweenAgents(s) /\ scan[s].agents # {}
    /\ LET a == CHOOSE x \in scan[s].agents : TRUE
           found == IF a = Template THEN "missing" ELSE root[a]
           skip == found # "exists" /\ scan[s].place = Home
           old == {Row(a, Home, "agent", 0, x) : x \in {"exists", "missing", "denied"}}
       IN  /\ inventory' = (inventory \ old) \cup {Row(a, Home, "agent", 0, found)}
             \cup {Row(a, Home, "root", 0, "failed") : x \in {found} \cap {"denied"}}
           /\ Step(s, [scan[s] EXCEPT
                !.agents = @ \ {a},
                !.paths = IF skip THEN {} ELSE resolveAgentPathProfile(a, scan[s].place)])
    /\ UNCHANGED <<diskVars, registered, overtaken, turns, undisturbed>>

NextPath(s) == CHOOSE c \in scan[s].paths : TRUE

AtPath(s) == scan[s].at = "agent" /\ scan[s].paths # {}
PathDone(s) == Step(s, [scan[s] EXCEPT !.at = "agent", !.paths = @ \ {NextPath(s)}])

\* The walk of a pattern or the state of a path fails.
RecordPathFailure(s) ==
    /\ AtPath(s) /\ agentDisk[NextPath(s)] = Denied
    /\ inventory' = inventory \cup {RowOf(NextPath(s), 0, "failed")}
    /\ overtaken' = overtaken \cup {NextPath(s)}
    /\ PathDone(s)
    /\ UNCHANGED <<diskVars, registered, turns, undisturbed>>

\* Of the rows a path has, the one written last is marked as missing: the path's own, unless
\* a failure has been recorded since (checkTrackedResourcePathByTargetPath). In the home
\* directory, a path that has no row gets one for being missing.
RecordMissingPath(s) ==
    /\ AtPath(s) /\ agentDisk[NextPath(s)] = Nothing
    /\ LET c == NextPath(s)
           found == RowOf(c, 0, "scanned")
           tracked == \E r \in inventory : r = RowOf(c, 0, r.status)
       IN  inventory' = IF found \in inventory /\ c \notin overtaken
                        THEN (inventory \ {found}) \cup {RowOf(c, 0, "missing")}
                        ELSE IF tracked \/ scan[s].place # Home THEN inventory
                        ELSE inventory \cup {RowOf(c, 0, "not_configured")}
    /\ PathDone(s)
    /\ UNCHANGED <<diskVars, registered, overtaken, turns, undisturbed>>

SeePath(s) ==
    /\ AtPath(s) /\ agentDisk[NextPath(s)] \notin {Nothing, Denied}
    /\ Step(s, [scan[s] EXCEPT !.at = "files"])
    /\ UNCHANGED <<diskVars, registered, inventory, overtaken, turns, undisturbed>>

\* What the disk holds by now: the files up to the first that cannot be read or parsed are
\* recorded, and that one ends the path with a failure.
RecordExistingPath(s) ==
    /\ scan[s].at = "files"
    /\ LET c == NextPath(s)
           files == IF agentDisk[c] = Nothing THEN Denied ELSE agentDisk[c]
           good == {i \in DOMAIN files : \A j \in 1..i : files[j] = "good"}
           names == {NameOf(files, i) : i \in good}
       IN  /\ inventory' = (inventory \ {RowOf(c, n, "missing") : n \in names})
             \cup {RowOf(c, n, "scanned") : n \in names}
             \cup {RowOf(c, 0, "failed") : x \in IF good = DOMAIN files THEN {} ELSE {c}}
           /\ overtaken' = IF good # DOMAIN files THEN overtaken \cup {c}
                           ELSE IF 0 \in names THEN overtaken \ {c} ELSE overtaken
    /\ PathDone(s)
    /\ UNCHANGED <<diskVars, registered, turns, undisturbed>>

-----------------------------------------------------------------------------
\* Somebody writes or deletes a file between two steps.
ChangeDisk ==
    /\ turns < MaxTurns
    /\ turns' = turns + 1
    /\ \E c \in AgentPaths, holds \in {Nothing, <<"good">>} :
         agentDisk' = [agentDisk EXCEPT ![c] = holds]
    /\ undisturbed' = {}
    /\ UNCHANGED <<root, profiles, managed, registered, inventory, overtaken, scan>>

InventoryNext ==
    \/ \E s \in Scans :
         \/ StartScan(s) \/ ScanRejected(s) \/ RecordManaged(s) \/ BeginHome(s) \/ NextRun(s)
         \/ ScanAgent(s) \/ RecordPathFailure(s) \/ RecordMissingPath(s)
         \/ SeePath(s) \/ RecordExistingPath(s)
    \/ ChangeDisk

InventorySpec == InventoryInit /\ [][InventoryNext]_inventoryVars

-----------------------------------------------------------------------------
(* The properties.                                                         *)

\* Scans that have ended with nothing between their start and now.
Finished == {s \in undisturbed : scan[s].at = "idle" /\ scan[s].done # {}}

\* What a scan had to look at: of an agent without a root, only the run of a project does.
LookedAt(s) ==
    {c \in AgentPaths :
        /\ c.agent \in listAgentCatalog(scan[s].custom) /\ c.place \in scan[s].done
        /\ root[c.agent] = "exists" \/ scan[s].done # {Home}}

Readable(c) == {i \in DOMAIN agentDisk[c] : \A j \in 1..i : agentDisk[c][j] = "good"}
FilesRecorded(c) ==
    \A i \in Readable(c) : RowOf(c, NameOf(agentDisk[c], i), "scanned") \in inventory

\* A scan that ends, and that nothing has overlapped, leaves what it has looked at in the
\* inventory, also when earlier scans have left their rows there: of every path the files up
\* to the first that cannot be read or parsed, and a failure for that one; a path that fails,
\* a root that is denied, profiles or manifests that are broken cost no other path its row.
\* What each run forgets first, the hooks among it, is that of the home directory and of the
\* last project. No hook is listed that is not on the disk, and no path whose file is gone,
\* but for one that has failed before. A scan that is rejected promises nothing.
ScanMirrorsDisk ==
    \A s \in Finished :
        /\ \A c \in LookedAt(s) :
             /\ c.kind \notin ForgottenKinds \/ c.place \in {Home, scan[s].place} => FilesRecorded(c)
             /\ Readable(c) # DOMAIN agentDisk[c] => RowOf(c, 0, "failed") \in inventory
             /\ agentDisk[c] = Nothing /\ RowOf(c, 0, "failed") \notin inventory =>
                  RowOf(c, 0, "scanned") \notin inventory
        /\ \A r \in inventory : r.kind \in ForgottenKinds /\ r.status = "scanned" =>
             \E c \in LookedAt(s) :
                \E i \in Readable(c) : r = RowOf(c, NameOf(agentDisk[c], i), "scanned")
        /\ registered \subseteq scan[s].done
=============================================================================
