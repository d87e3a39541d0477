---------------------------- MODULE RecordsProofs ----------------------------
(* What the desktop has on record of the files of the agents, for any number *)
(* of scans, agents, paths, lines and facts: a scan that nothing disturbs     *)
(* leaves rows that mirror the disk; the audit of a resource detects what its *)
(* rules are declared for and never improves as the resource grows; the       *)
(* record of what is on this machine, and the kits, for any calls that write  *)
(* to them at a time: an operation reports what came of it, a project leaves  *)
(* the record whole, and a kit removes what it made.                          *)
EXTENDS AgentInventory, StaticAudit, LocalKits, FiniteFolds, TLAPS

------------------------------------------------------------------------------
(* The scan of the agents                                                  *)

\* Where a scan can be.
ScanStates ==
    [at : {"idle", "managed", "agent", "files"}, place : ScanPlaces,
     places : SUBSET ScannedProjects, agents : SUBSET Agents, paths : SUBSET AgentPaths,
     entries : SUBSET ManagedEntries, custom : BOOLEAN, done : SUBSET ScanPlaces]

\* A row is of an agent or a managed entry, in a place.
RowTyped(r) == r.who \in Agents \cup ManagedEntries /\ r.place \in ScanPlaces

\* The types the steps keep.
ScanTypes ==
    /\ agentDisk \in [AgentPaths -> PathContents]
    /\ root \in [BuiltIn \cup {Custom} -> {"exists", "missing", "denied"}]
    /\ profiles \in {"none", "valid", "invalid"}
    /\ managed \in [ManagedEntries -> ManagedStates]
    /\ overtaken \in SUBSET AgentPaths
    /\ registered \in SUBSET ScannedProjects
    /\ \A r \in inventory : RowTyped(r)
    /\ scan \in [Scans -> ScanStates]
    /\ turns \in 0..MaxTurns

\* The rows a path has to have.
Recorded(c, rows) == \A i \in Readable(c) : RowOf(c, NameOf(agentDisk[c], i), "scanned") \in rows
Noted(c, rows) == Readable(c) # DOMAIN agentDisk[c] => RowOf(c, 0, "failed") \in rows

\* The row a path must not have.
Gone(c, rows) ==
    agentDisk[c] = Nothing /\ RowOf(c, 0, "failed") \notin rows => RowOf(c, 0, "scanned") \notin rows

\* What a run looks at, what the scan x has been sent to look at, and what it has not come to.
Visited(x, c) ==
    /\ c.agent \in listAgentCatalog(x.custom) /\ c.place \in x.done
    /\ root[c.agent] = "exists" \/ x.done # {Home}
Ahead(x, c) == c.place \in {Home, x.place} /\ (c.agent \in x.agents \/ c \in x.paths)

\* The rows of a scan that nothing has disturbed: of what is behind it all is recorded, except
\* what the present run has forgotten of other places; and what each run forgets is there for
\* a file on the disk only.
Mirrored(x, rows) ==
    \A c \in AgentPaths : Visited(x, c) /\ ~Ahead(x, c) =>
        /\ (c.kind \notin ForgottenKinds \/ c.place \in {Home, x.place}) => Recorded(c, rows)
        /\ Noted(c, rows) /\ Gone(c, rows)
Founded(x, rows) ==
    \A r \in rows : r.kind \in ForgottenKinds /\ r.status = "scanned" =>
        \E c \in AgentPaths : Visited(x, c) /\
            \E i \in Readable(c) : r = RowOf(c, NameOf(agentDisk[c], i), "scanned")

\* How far a scan is.
Walk(x) ==
    /\ x.at = "managed" => x.done = {} /\ x.paths = {}
    /\ x.at \in {"agent", "files"} => x.done # {}
    /\ x.done # {} =>
         /\ x.place \in x.done /\ Home \in x.done
         /\ x.place = Home => x.done = {Home}
         /\ x.agents \subseteq listAgentCatalog(x.custom)
         /\ \A c \in x.paths : Visited(x, c) /\ c.place \in {Home, x.place}
    /\ x.at = "files" => x.paths # {}
    /\ x.at = "idle" /\ x.done # {} => x.agents = {} /\ x.paths = {}

\* The projects that are registered are those it has been to or has still to go to.
Covers(x, reg) ==
    /\ x.place # Home => reg \subseteq x.done \cup x.places
    /\ x.at = "idle" => reg \subseteq x.done

\* What it has seen is still there.
Seen(x) == x.at = "files" => agentDisk[CHOOSE c \in x.paths : TRUE] # Nothing

\* A scan that has begun a run mirrors the disk.
Sound(x, rows, reg) ==
    x.done # {} => Covers(x, reg) /\ Mirrored(x, rows) /\ Founded(x, rows) /\ Seen(x)

\* Scans do not overlap while nothing disturbs them, and a path is overtaken by a failure of
\* its own.
ScanInv ==
    /\ ScanTypes
    /\ \A c \in overtaken : RowOf(c, 0, "failed") \in inventory
    /\ undisturbed \subseteq Scans
    /\ \A s \in undisturbed, o \in Scans : o # s => scan[o].at = "idle"
    /\ \A s \in Scans : Walk(scan[s])
    /\ \A s \in undisturbed : Sound(scan[s], inventory, registered)

\* Two rows of paths are one only if they are of one path.
LEMMA RowsOfPaths ==
    ASSUME NEW c \in AgentPaths, NEW d \in AgentPaths, NEW m, NEW n, NEW st, NEW tt,
           RowOf(c, m, st) = RowOf(d, n, tt)
    PROVE  c = d /\ m = n /\ st = tt
<1>1. c.agent = d.agent /\ c.place = d.place /\ c.kind = d.kind /\ m = n /\ st = tt
  BY DEF RowOf, Row
<1> QED
  BY <1>1 DEF AgentPaths

\* What a row of a path says.
LEMMA RowFields ==
    ASSUME NEW c \in AgentPaths, NEW n, NEW st
    PROVE  /\ RowOf(c, n, st).kind = c.kind /\ RowOf(c, n, st).status = st
           /\ RowOf(c, n, st).who = c.agent /\ RowOf(c, n, st).place = c.place
           /\ RowTyped(RowOf(c, n, st))
           /\ c.kind \in ScannedKinds /\ c.kind \notin {"agent", "root", "managed", "profiles"}
BY InventoryAssumption DEF RowOf, Row, AgentPaths, RowTyped, Agents, ScanPlaces

\* One step of a scan.
LEMMA ScanStep ==
    ASSUME ScanInv, NEW s \in Scans, scan[s].at # "idle", NEW x \in ScanStates,
           scan' = [scan EXCEPT ![s] = x],
           UNCHANGED <<diskVars, turns, undisturbed>>,
           registered' \in SUBSET ScannedProjects,
           \A r \in inventory' : r \in inventory \/ RowTyped(r),
           \A r \in inventory : r.status = "failed" => r \in inventory',
           \A c \in overtaken' : c \in overtaken \/ (c \in AgentPaths /\ RowOf(c, 0, "failed") \in inventory'),
           Walk(x),
           Sound(scan[s], inventory, registered) => Sound(x, inventory', registered')
    PROVE  ScanInv'
<1>1. \A o \in Scans : scan'[o] = IF o = s THEN x ELSE scan[o]
  BY DEF ScanInv, ScanTypes
<1>2. ScanTypes'
  BY <1>1 DEF ScanInv, ScanTypes, diskVars, RowTyped
<1>8. \A c \in overtaken' : RowOf(c, 0, "failed") \in inventory'
  BY RowFields DEF ScanInv, ScanTypes
<1>3. undisturbed \subseteq {s}
  BY DEF ScanInv
<1>4. \A u \in undisturbed', o \in Scans : o # u => scan'[o].at = "idle"
  BY <1>1, <1>3 DEF ScanInv
<1>5. \A u \in undisturbed' : scan'[u] = x /\ Sound(x, inventory', registered')
  BY <1>1, <1>3 DEF ScanInv
<1>6. \A u \in undisturbed' : Sound(scan[u], inventory, registered)'
  BY <1>5 DEF Sound, Covers, Mirrored, Founded, Seen, Visited, Ahead, Recorded, Noted, Gone, Readable, diskVars
<1>7. \A o \in Scans : Walk(scan[o])'
  BY <1>1 DEF ScanInv, Walk, Visited, diskVars
<1> QED
  BY <1>2, <1>4, <1>6, <1>7, <1>8 DEF ScanInv

\* What every proof below begins with.
LEMMA ScanTyped ==
    ASSUME ScanInv, NEW s \in Scans
    PROVE  /\ scan[s] \in ScanStates /\ Walk(scan[s]) /\ scan \in [Scans -> ScanStates]
           /\ registered \in SUBSET ScannedProjects
           /\ agentDisk \in [AgentPaths -> PathContents]
           /\ root \in [BuiltIn \cup {Custom} -> {"exists", "missing", "denied"}]
           /\ \A r \in inventory : RowTyped(r)
BY DEF ScanInv, ScanTypes

\* The catalogue lists agents.
LEMMA CatalogTyped == \A b : listAgentCatalog(b) \subseteq Agents
BY DEF listAgentCatalog, Agents

\* A scan starts: nothing is behind it yet.
LEMMA StartScanStep == ASSUME ScanInv, NEW s \in Scans, StartScan(s) PROVE ScanInv'
<1> DEFINE x == [NoScan EXCEPT !.at = "managed", !.custom = normalizeCustomAgentProfiles,
                               !.entries = ManagedFound]
<1>1. scan' = [scan EXCEPT ![s] = x]
  BY DEF StartScan, Step
<1>2. x \in ScanStates
  BY DEF ScanStates, NoScan, normalizeCustomAgentProfiles, ManagedFound, ScanPlaces
<1>3. x.at = "managed" /\ x.done = {} /\ x.paths = {}
  BY DEF NoScan
<1> HIDE DEF x
<1>4. \A o \in Scans : scan'[o] = IF o = s THEN x ELSE scan[o]
  BY <1>1, ScanTyped
<1>5. ScanTypes'
  <2>1. turns' \in 0..MaxTurns
    BY InventoryAssumption DEF ScanInv, ScanTypes, StartScan
  <2> QED
    BY <1>2, <1>4, <2>1, <1>1 DEF ScanInv, ScanTypes, StartScan, diskVars, RowTyped
<1>6. undisturbed' \subseteq {s} /\ (undisturbed' # {} => \A o \in Scans : scan[o].at = "idle")
  BY DEF StartScan
<1>7. \A u \in undisturbed', o \in Scans : o # u => scan'[o].at = "idle"
  BY <1>4, <1>6
<1>8. \A u \in undisturbed' : Sound(scan[u], inventory, registered)'
  BY <1>3, <1>4, <1>6 DEF Sound
<1>9. \A o \in Scans : Walk(scan[o])'
  BY <1>3, <1>4 DEF ScanInv, Walk, Visited, StartScan, diskVars
<1> QED
  BY <1>5, <1>6, <1>7, <1>8, <1>9 DEF ScanInv, StartScan

\* A scan that is rejected has recorded nothing.
LEMMA ScanRejectedStep == ASSUME ScanInv, NEW s \in Scans, ScanRejected(s) PROVE ScanInv'
<1>1. PICK x \in ScanStates : x = NoScan /\ x.at = "idle" /\ x.done = {}
  <2>1. NoScan \in ScanStates /\ NoScan.at = "idle" /\ NoScan.done = {}
    BY DEF NoScan, ScanStates, ScanPlaces
  <2> QED
    BY <2>1
<1>2. /\ scan' = [scan EXCEPT ![s] = x] /\ turns' \in 0..MaxTurns
      /\ UNCHANGED <<diskVars, registered, inventory, overtaken, undisturbed>>
  BY <1>1, InventoryAssumption DEF ScanRejected, Step, ScanInv, ScanTypes
<1>3. \A o \in Scans : scan'[o] = IF o = s THEN x ELSE scan[o]
  BY <1>2, ScanTyped
<1>4. ScanTypes'
  BY <1>2, <1>3 DEF ScanInv, ScanTypes, diskVars, RowTyped
<1>5. \A u \in undisturbed', o \in Scans : o # u => scan'[o].at = "idle"
  BY <1>1, <1>2, <1>3 DEF ScanInv
<1>6. ASSUME NEW u \in undisturbed' PROVE Sound(scan[u], inventory, registered)'
  <2>1. u \in Scans /\ Sound(scan[u], inventory, registered)
    BY <1>2, <1>6 DEF ScanInv
  <2>2. CASE u = s
    BY <1>1, <1>3, <2>1, <2>2 DEF Sound
  <2>3. CASE u # s
    BY <1>2, <1>3, <2>1, <2>3
       DEF Sound, Covers, Mirrored, Founded, Seen, Visited, Ahead, Recorded, Noted, Gone, Readable, diskVars
  <2> QED
    BY <2>2, <2>3
<1>7. \A o \in Scans : Walk(scan[o])'
  BY <1>1, <1>2, <1>3 DEF ScanInv, Walk, Visited, diskVars
<1> QED
  BY <1>2, <1>4, <1>5, <1>6, <1>7 DEF ScanInv

\* The managed entries are rows of no path.
LEMMA RecordManagedStep == ASSUME ScanInv, NEW s \in Scans, RecordManaged(s) PROVE ScanInv'
<1>1. PICK e \in scan[s].entries :
         /\ inventory' = inventory \cup {Row(e, Home, "managed", 0, "scanned")}
         /\ registered' = registered \cup ({e} \cap ScannedProjects)
         /\ scan' = [scan EXCEPT ![s] = [scan[s] EXCEPT !.entries = @ \ {e}]]
  BY DEF RecordManaged, Step
<1>2. PICK x : x = [scan[s] EXCEPT !.entries = @ \ {e}]
  OBVIOUS
<1>3. /\ scan[s].at = "managed" /\ scan[s] \in ScanStates /\ registered \in SUBSET ScannedProjects
      /\ UNCHANGED <<diskVars, overtaken, turns, undisturbed>>
  BY ScanTyped DEF RecordManaged
<1>4. x \in ScanStates /\ x.at = "managed" /\ x.done = scan[s].done
  BY <1>2, <1>3 DEF ScanStates
<1>a. x.paths = scan[s].paths /\ Walk(scan[s])
  BY <1>2, <1>3, ScanTyped DEF ScanStates
<1>5. RowTyped(Row(e, Home, "managed", 0, "scanned"))
  BY <1>3 DEF RowTyped, Row, ScanStates, ScanPlaces
<1>6. Walk(x) /\ Sound(x, inventory', registered')
  BY <1>3, <1>4, <1>a DEF Sound, Walk
<1>7. scan[s].at # "idle" /\ registered' \in SUBSET ScannedProjects
      /\ (\A r \in inventory' : r \in inventory \/ RowTyped(r)) /\ scan' = [scan EXCEPT ![s] = x]
      /\ inventory \subseteq inventory'
  BY <1>1, <1>2, <1>3, <1>5
<1> QED
  BY <1>3, <1>4, <1>6, <1>7, ScanStep

\* A run begins: all that it looks at is ahead of it.
LEMMA RunBegins ==
    ASSUME ScanInv, NEW s \in Scans, NEW place \in ScanPlaces, NEW places \in SUBSET ScannedProjects,
           BeginRun(s, place, places), scan[s].at \in {"managed", "agent"}, scan[s].paths = {},
           scan[s].done = {} => place = Home,
           scan[s].done # {} => place # Home,
           scan[s].done # {} =>
               scan[s].agents = {} /\
               (Covers(scan[s], registered) => registered \subseteq scan[s].done \cup {place} \cup places)
    PROVE  ScanInv'
<1>1. PICK x0 \in ScanStates : x0 = scan[s]
  BY ScanTyped
<1>2. PICK x : x = [x0 EXCEPT !.at = "agent", !.place = place, !.places = places,
                              !.done = @ \cup {place}, !.agents = listAgentCatalog(x0.custom)]
  OBVIOUS
<1>3. /\ x.at = "agent" /\ x.place = place /\ x.places = places /\ x.done = x0.done \cup {place}
      /\ x.agents = listAgentCatalog(x0.custom) /\ x.custom = x0.custom /\ x.paths = x0.paths
      /\ x \in ScanStates
  BY <1>1, <1>2, CatalogTyped DEF ScanStates
<1>4. /\ scan' = [scan EXCEPT ![s] = x]
      /\ inventory' = {r \in inventory : r.kind \notin ForgottenKinds \/ r.status = "failed"}
      /\ UNCHANGED <<diskVars, turns, undisturbed>> /\ UNCHANGED <<registered, overtaken>>
      /\ registered \in SUBSET ScannedProjects
  BY <1>1, <1>2, ScanTyped DEF BeginRun, Step
<1>5. Walk(x)
  BY <1>1, <1>3, ScanTyped DEF Walk
<1>6. ASSUME Sound(x0, inventory, registered) PROVE Sound(x, inventory', registered')
  <2>1. Covers(x, registered')
    BY <1>1, <1>3, <1>4, <1>6 DEF Sound, Covers
  <2>2. Founded(x, inventory')
    BY <1>4 DEF Founded
  <2>3. ASSUME NEW c \in AgentPaths, Visited(x, c), ~Ahead(x, c)
        PROVE  /\ (c.kind \notin ForgottenKinds \/ c.place \in {Home, x.place}) => Recorded(c, inventory')
               /\ Noted(c, inventory') /\ Gone(c, inventory')
    <3>1. c.place \notin {Home, place}
      BY <1>3, <2>3 DEF Visited, Ahead
    <3>2. c.place \in x0.done /\ x0.done # {} /\ x0.done # {Home}
      BY <1>3, <2>3, <3>1 DEF Visited
    <3>3. Visited(x0, c) /\ ~Ahead(x0, c)
      BY <1>1, <1>3, <2>3, <3>2 DEF Visited, Ahead
    <3>4. /\ c.kind \notin ForgottenKinds => Recorded(c, inventory)
          /\ Noted(c, inventory) /\ Gone(c, inventory)
      BY <1>6, <3>2, <3>3 DEF Sound, Mirrored
    <3>5. c.kind \notin ForgottenKinds => Recorded(c, inventory')
      BY <1>4, <3>4, RowFields DEF Recorded
    <3>6. Noted(c, inventory')
      BY <1>4, <3>4, RowFields DEF Noted
    <3>7. Gone(c, inventory')
      BY <1>4, <3>4, RowFields DEF Gone
    <3> QED
      BY <1>3, <3>1, <3>5, <3>6, <3>7
  <2>4. Seen(x)
    BY <1>3 DEF Seen
  <2> QED
    BY <2>1, <2>2, <2>3, <2>4 DEF Sound, Mirrored
<1> QED
  BY <1>1, <1>3, <1>4, <1>5, <1>6, ScanStep

\* The first run is of the home directory.
LEMMA BeginHomeStep == ASSUME ScanInv, NEW s \in Scans, BeginHome(s) PROVE ScanInv'
<1>1. /\ scan[s].at = "managed" /\ scan[s].done = {} /\ scan[s].paths = {}
      /\ BeginRun(s, Home, {}) /\ Home \in ScanPlaces
  BY ScanTyped DEF BeginHome, Walk, ScanPlaces
<1> QED
  BY <1>1, RunBegins

\* The failures of the end are rows of none of the paths.
LEMMA NextRunStep == ASSUME ScanInv, NEW s \in Scans, NextRun(s) PROVE ScanInv'
<1>1. PICK x0 \in ScanStates : x0 = scan[s]
  BY ScanTyped
<1>2. /\ x0.at = "agent" /\ x0.paths = {} /\ x0.agents = {} /\ Walk(x0)
      /\ x0.done # {} /\ registered \in SUBSET ScannedProjects /\ x0.places \in SUBSET ScannedProjects
  BY <1>1, ScanTyped DEF NextRun, BetweenAgents, Walk, ScanStates
<1>3. PICK left \in SUBSET ScannedProjects :
         /\ left = IF x0.place = Home THEN registered ELSE x0.places
         /\ \/ left = {} /\ EndScan(s)
            \/ \E p \in left : BeginRun(s, p, left \ {p})
  BY <1>1, <1>2 DEF NextRun
<1>4. ASSUME NEW p \in left, BeginRun(s, p, left \ {p}) PROVE ScanInv'
  <2>1. p \in ScanPlaces /\ p # Home /\ left \ {p} \in SUBSET ScannedProjects
    BY InventoryAssumption DEF ScanPlaces
  <2>2. Covers(x0, registered) => registered \subseteq x0.done \cup {p} \cup (left \ {p})
    BY <1>2, <1>3 DEF Covers, Walk
  <2> QED
    BY <1>1, <1>2, <1>4, <2>1, <2>2, RunBegins
<1>5. ASSUME left = {}, EndScan(s) PROVE ScanInv'
  <2>1. PICK x : x = [x0 EXCEPT !.at = "idle"]
    OBVIOUS
  <2>2. /\ x.at = "idle" /\ x.place = x0.place /\ x.places = x0.places /\ x.done = x0.done
        /\ x.agents = {} /\ x.custom = x0.custom /\ x.paths = {} /\ x \in ScanStates
    BY <1>2, <2>1 DEF ScanStates
  <2>3. /\ scan' = [scan EXCEPT ![s] = x]
        /\ inventory' = inventory \cup ManagedFailures \cup ProfileFailures
        /\ UNCHANGED <<diskVars, turns, undisturbed>> /\ UNCHANGED <<registered, overtaken>>
    BY <1>1, <1>5, <2>1 DEF EndScan, Step
  <2>4. \A r \in ManagedFailures \cup ProfileFailures : RowTyped(r) /\ r.status = "failed"
    BY DEF ManagedFailures, ProfileFailures, RowTyped, Row, Agents, ScanPlaces
  <2>5. Walk(x)
    BY <1>2, <2>2 DEF Walk
  <2>6. ASSUME Sound(x0, inventory, registered) PROVE Sound(x, inventory', registered')
    <3>1. Covers(x, registered')
      BY <1>2, <1>3, <1>5, <2>2, <2>3, <2>6 DEF Sound, Covers, Walk
    <3>2. \A c \in AgentPaths : (Visited(x, c) <=> Visited(x0, c)) /\ (Ahead(x, c) <=> Ahead(x0, c))
      BY <1>2, <2>2 DEF Visited, Ahead
    <3>3. Founded(x, inventory')
      BY <1>2, <2>3, <2>4, <2>6, <3>2 DEF Sound, Founded
    <3>4. \A c \in AgentPaths : Gone(c, inventory) => Gone(c, inventory')
      BY <2>3, <2>4, RowFields DEF Gone
    <3>5. Mirrored(x, inventory')
      BY <1>2, <2>2, <2>3, <2>6, <3>2, <3>4 DEF Sound, Mirrored, Recorded, Noted
    <3>6. Seen(x)
      BY <2>2 DEF Seen
    <3> QED
      BY <3>1, <3>3, <3>5, <3>6 DEF Sound
  <2> QED
    BY <1>1, <1>2, <2>2, <2>3, <2>4, <2>5, <2>6, ScanStep
<1> QED
  BY <1>3, <1>4, <1>5

\* An agent whose root is there puts its paths ahead; of another nothing is to be looked at.
LEMMA ScanAgentStep == ASSUME ScanInv, NEW s \in Scans, ScanAgent(s) PROVE ScanInv'
<1>1. PICK x0 \in ScanStates : x0 = scan[s]
  BY ScanTyped
<1>2. /\ x0.at = "agent" /\ x0.paths = {} /\ x0.agents # {} /\ Walk(x0) /\ x0.done # {}
      /\ x0.agents \subseteq listAgentCatalog(x0.custom)
      /\ UNCHANGED <<diskVars, turns, undisturbed>> /\ UNCHANGED <<registered, overtaken>>
      /\ registered \in SUBSET ScannedProjects
  BY <1>1, ScanTyped DEF ScanAgent, BetweenAgents, Walk
<1>3. PICK a \in x0.agents : a = CHOOSE y \in x0.agents : TRUE
  BY <1>2
<1>4. PICK found : found = IF a = Template THEN "missing" ELSE root[a]
  OBVIOUS
<1>5. PICK paths : paths = IF found # "exists" /\ x0.place = Home THEN {}
                           ELSE resolveAgentPathProfile(a, x0.place)
  OBVIOUS
<1>6. PICK x : x = [x0 EXCEPT !.agents = @ \ {a}, !.paths = paths]
  OBVIOUS
<1>7. /\ scan' = [scan EXCEPT ![s] = x]
      /\ inventory' = (inventory \ {Row(a, Home, "agent", 0, y) : y \in {"exists", "missing", "denied"}})
                        \cup {Row(a, Home, "agent", 0, found)}
                        \cup {Row(a, Home, "root", 0, "failed") : y \in {found} \cap {"denied"}}
  BY <1>1, <1>3, <1>4, <1>5, <1>6 DEF ScanAgent, Step
<1>8. \A c \in paths : c \in AgentPaths /\ c.agent = a /\ c.place \in {Home, x0.place}
  BY <1>5 DEF resolveAgentPathProfile
<1>9. /\ x.at = "agent" /\ x.place = x0.place /\ x.places = x0.places /\ x.done = x0.done
      /\ x.agents = x0.agents \ {a} /\ x.custom = x0.custom /\ x.paths = paths /\ x \in ScanStates
  BY <1>2, <1>6, <1>8 DEF ScanStates
<1>10. a \in listAgentCatalog(x0.custom) /\ a \in Agents
  BY <1>2, CatalogTyped
<1>11. \A c \in AgentPaths : c.agent = a => found = root[a]
  BY <1>4, InventoryAssumption DEF AgentPaths
<1>12. found \in {"exists", "missing", "denied"}
  BY <1>4, <1>10, ScanTyped DEF Agents
<1>13. \A c \in paths : Visited(x, c)
  <2> SUFFICES ASSUME NEW c \in paths PROVE Visited(x, c)
    OBVIOUS
  <2>1. c.place \in x0.done
    BY <1>2, <1>8 DEF Walk
  <2>2. found = "exists" \/ x0.place # Home
    BY <1>5
  <2>3. root[c.agent] = "exists" \/ x0.done # {Home}
    BY <1>2, <1>8, <1>11, <2>2 DEF Walk
  <2> QED
    BY <1>8, <1>9, <1>10, <2>1, <2>3 DEF Visited
<1>14. Walk(x)
  BY <1>2, <1>8, <1>9, <1>13 DEF Walk
<1>15. \A r \in inventory' : r \in inventory \/ RowTyped(r)
  BY <1>7, <1>10 DEF RowTyped, Row, ScanPlaces
<1>17. \A r \in inventory : r.status = "failed" => r \in inventory'
  BY <1>7 DEF Row
<1>16. ASSUME Sound(x0, inventory, registered) PROVE Sound(x, inventory', registered')
  <2>1. Covers(x, registered')
    BY <1>2, <1>9, <1>16 DEF Sound, Covers
  <2>2. \A c \in AgentPaths : \A n, st : RowOf(c, n, st) \in inventory => RowOf(c, n, st) \in inventory'
    <3>1. \A c \in AgentPaths : \A n, st, y : RowOf(c, n, st) # Row(a, Home, "agent", 0, y)
      BY RowFields DEF Row
    <3> QED
      BY <1>7, <3>1
  <2>3. \A r \in inventory' : r.kind \in ForgottenKinds => r \in inventory
    BY <1>7 DEF Row, ForgottenKinds
  <2>4. \A c \in AgentPaths : Visited(x, c) <=> Visited(x0, c)
    BY <1>9 DEF Visited
  <2>5. Founded(x, inventory')
    BY <1>2, <1>16, <2>3, <2>4 DEF Sound, Founded
  <2>6. ASSUME NEW c \in AgentPaths, Visited(x, c), ~Ahead(x, c) PROVE ~Ahead(x0, c)
    <3>1. CASE c.agent # a
      BY <1>2, <1>9, <2>6, <3>1 DEF Ahead
    <3>2. CASE c.agent = a /\ c.place \in {Home, x0.place}
      <4>1. c \notin resolveAgentPathProfile(a, x0.place) \/ paths = {}
        BY <1>5, <1>9, <2>6, <3>2 DEF Ahead
      <4>2. c \in resolveAgentPathProfile(a, x0.place)
        BY <3>2 DEF resolveAgentPathProfile
      <4>3. found # "exists" /\ x0.place = Home
        BY <1>5, <4>1, <4>2
      <4>4. x0.done = {Home} /\ root[c.agent] # "exists"
        BY <1>2, <1>11, <3>2, <4>3 DEF Walk
      <4> QED
        BY <1>9, <2>6, <4>4 DEF Visited
    <3>3. CASE c.place \notin {Home, x0.place}
      BY <3>3 DEF Ahead
    <3> QED
      BY <3>1, <3>2, <3>3
  <2>7. \A c \in AgentPaths : Gone(c, inventory) => Gone(c, inventory')
    <3>1. \A c \in AgentPaths : RowOf(c, 0, "scanned") \in inventory' => RowOf(c, 0, "scanned") \in inventory
      <4>1. \A c \in AgentPaths : RowOf(c, 0, "scanned").kind \notin {"agent", "root"}
        BY RowFields
      <4> QED
        BY <1>7, <4>1 DEF Row
    <3> QED
      BY <2>2, <3>1 DEF Gone
  <2>8. Mirrored(x, inventory')
    BY <1>2, <1>9, <1>16, <2>2, <2>4, <2>6, <2>7 DEF Sound, Mirrored, Recorded, Noted
  <2>9. Seen(x)
    BY <1>9 DEF Seen
  <2> QED
    BY <2>1, <2>5, <2>8, <2>9 DEF Sound
<1> QED
  BY <1>1, <1>2, <1>7, <1>9, <1>14, <1>15, <1>16, <1>17, ScanStep

\* A path is done with: what was behind the scan keeps its rows, and the path has its own.
LEMMA PathIsDone ==
    ASSUME ScanInv, NEW s \in Scans, NEW c \in AgentPaths, c = NextPath(s),
           scan[s].at \in {"agent", "files"}, scan[s].paths # {}, PathDone(s),
           UNCHANGED <<diskVars, registered, turns, undisturbed>>,
           \A r \in inventory' : r \in inventory \/ RowTyped(r),
           \A r \in inventory : r.status = "failed" => r \in inventory',
           \A d \in overtaken' : d \in overtaken \/ (d = c /\ RowOf(d, 0, "failed") \in inventory'),
           Recorded(c, inventory'), Noted(c, inventory'),
           Seen(scan[s]) => Gone(c, inventory'),
           \A d \in AgentPaths : Recorded(d, inventory) => Recorded(d, inventory'),
           \A d \in AgentPaths : Noted(d, inventory) => Noted(d, inventory'),
           \A r \in inventory' : r \in inventory \/ r.status # "scanned" \/
                 \E i \in Readable(c) : r = RowOf(c, NameOf(agentDisk[c], i), "scanned")
    PROVE  ScanInv'
<1>1. PICK x0 \in ScanStates : x0 = scan[s]
  BY ScanTyped
<1>2. PICK x : x = [x0 EXCEPT !.at = "agent", !.paths = @ \ {c}]
  OBVIOUS
<1>3. /\ x.at = "agent" /\ x.place = x0.place /\ x.places = x0.places /\ x.done = x0.done
      /\ x.agents = x0.agents /\ x.custom = x0.custom /\ x.paths = x0.paths \ {c} /\ x \in ScanStates
  BY <1>2 DEF ScanStates
<1>4. scan' = [scan EXCEPT ![s] = x] /\ Walk(x0) /\ c \in x0.paths /\ x0.done # {}
      /\ registered \in SUBSET ScannedProjects /\ x0.at \in {"agent", "files"}
  BY <1>1, <1>2, ScanTyped DEF PathDone, Step, NextPath, Walk
<1>5. \A d \in AgentPaths : Visited(x, d) <=> Visited(x0, d)
  BY <1>3 DEF Visited
<1>6. Walk(x)
  BY <1>3, <1>4 DEF Walk, Visited
<1>7. Visited(x, c)
  BY <1>4, <1>5 DEF Walk
<1>8. ASSUME Sound(x0, inventory, registered) PROVE Sound(x, inventory', registered')
  <2>1. Covers(x, registered')
    BY <1>3, <1>4, <1>8 DEF Sound, Covers
  <2>2. Founded(x, inventory')
    BY <1>4, <1>5, <1>7, <1>8 DEF Sound, Founded
  <2>3. \A d \in AgentPaths : ~Ahead(x, d) => d = c \/ ~Ahead(x0, d)
    BY <1>3 DEF Ahead
  <2>4. Gone(c, inventory')
    BY <1>1, <1>4, <1>8 DEF Sound
  <2>5. ASSUME NEW d \in AgentPaths, d # c, Gone(d, inventory) PROVE Gone(d, inventory')
    <3>1. \A n : RowOf(d, 0, "scanned") # RowOf(c, n, "scanned")
      BY <2>5, RowsOfPaths
    <3> QED
      BY <2>5, <3>1, RowFields DEF Gone
  <2>6. Mirrored(x, inventory')
    BY <1>3, <1>4, <1>5, <1>8, <2>3, <2>4, <2>5 DEF Sound, Mirrored
  <2>7. Seen(x)
    BY <1>3 DEF Seen
  <2> QED
    BY <2>1, <2>2, <2>6, <2>7 DEF Sound
<1> QED
  BY <1>1, <1>3, <1>4, <1>6, <1>8, ScanStep

\* What is looked at next is one of the paths that are ahead.
LEMMA NextPathOf ==
    ASSUME ScanInv, NEW s \in Scans, scan[s].paths # {}
    PROVE  NextPath(s) \in AgentPaths /\ NextPath(s) \in scan[s].paths /\ agentDisk[NextPath(s)] \in PathContents
<1>1. scan[s].paths \in SUBSET AgentPaths
  BY ScanTyped DEF ScanStates
<1>2. NextPath(s) \in scan[s].paths
  BY DEF NextPath
<1> QED
  BY <1>1, <1>2, ScanTyped

\* Of what cannot be looked at, or is not there, no file can be read.
LEMMA Unreadable ==
    ASSUME NEW c
    PROVE  /\ agentDisk[c] = Denied => Readable(c) = {} /\ DOMAIN agentDisk[c] # {}
           /\ agentDisk[c] = Nothing => Readable(c) = {} /\ DOMAIN agentDisk[c] = {}
<1>1. CASE agentDisk[c] = Denied
  <2>1. DOMAIN agentDisk[c] = {1} /\ agentDisk[c][1] = "denied" /\ 1..1 = {1}
    BY <1>1 DEF Denied
  <2>2. Readable(c) = {}
    BY <2>1 DEF Readable
  <2>3. agentDisk[c] # Nothing
    BY <2>1 DEF Nothing
  <2> QED
    BY <2>1, <2>2, <2>3
<1>2. CASE agentDisk[c] = Nothing
  BY <1>2 DEF Nothing, Denied, Readable
<1> QED
  BY <1>1, <1>2

\* A path that cannot be looked at leaves a failure.
LEMMA PathFailureStep == ASSUME ScanInv, NEW s \in Scans, RecordPathFailure(s) PROVE ScanInv'
<1>1. PICK c \in AgentPaths : c = NextPath(s)
  BY NextPathOf DEF RecordPathFailure, AtPath
<1>2. /\ scan[s].at = "agent" /\ scan[s].paths # {} /\ agentDisk[c] = Denied
      /\ inventory' = inventory \cup {RowOf(c, 0, "failed")} /\ PathDone(s)
      /\ overtaken' = overtaken \cup {c}
      /\ UNCHANGED <<diskVars, registered, turns, undisturbed>>
  BY <1>1 DEF RecordPathFailure, AtPath
<1>3. Recorded(c, inventory') /\ Noted(c, inventory') /\ Gone(c, inventory')
  BY <1>2, Unreadable DEF Recorded, Noted, Gone
<1>4. \A d \in AgentPaths : /\ Recorded(d, inventory) => Recorded(d, inventory')
                            /\ Noted(d, inventory) => Noted(d, inventory')
  BY <1>2 DEF Recorded, Noted
<1>5. \A r \in inventory' : r \in inventory \/ (RowTyped(r) /\ r.status = "failed")
  BY <1>2, RowFields
<1> QED
  BY <1>1, <1>2, <1>3, <1>4, <1>5, PathIsDone

\* A path that is not there has no file, and needs no row.
LEMMA MissingPathStep == ASSUME ScanInv, NEW s \in Scans, RecordMissingPath(s) PROVE ScanInv'
<1>1. PICK c \in AgentPaths : c = NextPath(s)
  BY NextPathOf DEF RecordMissingPath, AtPath
<1>2. /\ scan[s].at = "agent" /\ scan[s].paths # {} /\ agentDisk[c] = Nothing /\ PathDone(s)
      /\ UNCHANGED <<diskVars, registered, overtaken, turns, undisturbed>>
  BY <1>1 DEF RecordMissingPath, AtPath
<1>3. PICK added :
         /\ added \subseteq {RowOf(c, 0, "missing"), RowOf(c, 0, "not_configured")}
         /\ \/ inventory' = inventory \cup added /\ (RowOf(c, 0, "scanned") \in inventory => c \in overtaken)
            \/ inventory' = (inventory \ {RowOf(c, 0, "scanned")}) \cup added
  <2>1. \/ inventory' = (inventory \ {RowOf(c, 0, "scanned")}) \cup {RowOf(c, 0, "missing")}
        \/ /\ inventory' = inventory \cup {} \/ inventory' = inventory \cup {RowOf(c, 0, "not_configured")}
           /\ RowOf(c, 0, "scanned") \in inventory => c \in overtaken
    BY <1>1 DEF RecordMissingPath
  <2> QED
    BY <2>1
<1>4. Readable(c) = {} /\ DOMAIN agentDisk[c] = {}
  BY <1>2, Unreadable
<1>5. Recorded(c, inventory') /\ Noted(c, inventory')
  BY <1>4 DEF Recorded, Noted
<1>6. ASSUME NEW d \in AgentPaths
      PROVE  /\ Recorded(d, inventory) => Recorded(d, inventory')
             /\ Noted(d, inventory) => Noted(d, inventory')
  <2>1. CASE d = c
    BY <1>5, <2>1
  <2>2. CASE d # c
    <3>1. \A n, st : RowOf(d, n, st) # RowOf(c, 0, "scanned")
      BY <2>2, RowsOfPaths
    <3> QED
      BY <1>3, <3>1 DEF Recorded, Noted
  <2> QED
    BY <2>1, <2>2
<1>7. /\ \A r \in inventory' : r \in inventory \/ (RowTyped(r) /\ r.status # "scanned")
      /\ \A r \in inventory : r.status = "failed" => r \in inventory'
  BY <1>3, RowFields
<1>8. Gone(c, inventory')
  <2>1. RowOf(c, 0, "scanned") \notin added
    BY <1>3, RowFields
  <2>2. c \in overtaken => RowOf(c, 0, "failed") \in inventory'
    BY <1>7, RowFields DEF ScanInv
  <2> QED
    BY <1>3, <2>1, <2>2 DEF Gone
<1> QED
  BY <1>1, <1>2, <1>5, <1>6, <1>7, <1>8, PathIsDone

\* To look at a directory puts off its files.
LEMMA SeePathStep == ASSUME ScanInv, NEW s \in Scans, SeePath(s) PROVE ScanInv'
<1>1. PICK x0 \in ScanStates : x0 = scan[s]
  BY ScanTyped
<1>2. PICK x : x = [x0 EXCEPT !.at = "files"]
  OBVIOUS
<1>3. /\ x.at = "files" /\ x.place = x0.place /\ x.places = x0.places /\ x.done = x0.done
      /\ x.agents = x0.agents /\ x.custom = x0.custom /\ x.paths = x0.paths /\ x \in ScanStates
  BY <1>2 DEF ScanStates
<1>4. /\ scan' = [scan EXCEPT ![s] = x] /\ Walk(x0) /\ x0.paths # {} /\ x0.at = "agent"
      /\ registered \in SUBSET ScannedProjects
      /\ UNCHANGED <<diskVars, registered, inventory, overtaken, turns, undisturbed>>
      /\ agentDisk[CHOOSE c \in x0.paths : TRUE] # Nothing
  BY <1>1, <1>2, ScanTyped DEF SeePath, AtPath, Step, NextPath
<1>5. Walk(x)
  BY <1>3, <1>4 DEF Walk, Visited
<1>6. Sound(x0, inventory, registered) => Sound(x, inventory', registered')
  BY <1>3, <1>4 DEF Sound, Covers, Mirrored, Founded, Seen, Visited, Ahead
<1> QED
  BY <1>1, <1>3, <1>4, <1>5, <1>6, ScanStep

\* What is read of a path is recorded.
LEMMA ExistingPathStep == ASSUME ScanInv, NEW s \in Scans, RecordExistingPath(s) PROVE ScanInv'
<1>1. scan[s].at = "files" /\ scan[s].paths # {}
  BY ScanTyped DEF RecordExistingPath, Walk
<1>2. PICK c \in AgentPaths : c = NextPath(s)
  BY <1>1, NextPathOf
<1>3. PICK files : files = IF agentDisk[c] = Nothing THEN Denied ELSE agentDisk[c]
  OBVIOUS
<1>4. PICK good : good = {i \in DOMAIN files : \A j \in 1..i : files[j] = "good"}
  OBVIOUS
<1>5. PICK names : names = {NameOf(files, i) : i \in good}
  OBVIOUS
<1>6. PICK failed : failed = {RowOf(c, 0, "failed") : y \in IF good = DOMAIN files THEN {} ELSE {c}}
  OBVIOUS
<1>7. /\ inventory' = (inventory \ {RowOf(c, n, "missing") : n \in names})
                         \cup {RowOf(c, n, "scanned") : n \in names} \cup failed
      /\ PathDone(s) /\ UNCHANGED <<diskVars, registered, turns, undisturbed>>
      /\ overtaken' = IF good # DOMAIN files THEN overtaken \cup {c}
                      ELSE IF 0 \in names THEN overtaken \ {c} ELSE overtaken
  BY <1>2, <1>3, <1>4, <1>5, <1>6 DEF RecordExistingPath
<1>8. good = Readable(c)
  <2>1. CASE agentDisk[c] = Nothing
    <3>1. DOMAIN files = {1} /\ files[1] = "denied" /\ 1..1 = {1}
      BY <1>3, <2>1 DEF Denied
    <3>2. good = {}
      BY <1>4, <3>1
    <3> QED
      BY <2>1, <3>2, Unreadable
  <2>2. CASE agentDisk[c] # Nothing
    BY <1>3, <1>4, <2>2 DEF Readable
  <2> QED
    BY <2>1, <2>2
<1>9. good # {} => files = agentDisk[c]
  BY <1>3, <1>8, Unreadable
<1>10. Recorded(c, inventory')
  BY <1>5, <1>7, <1>8, <1>9 DEF Recorded
<1>11. Noted(c, inventory')
  <2>1. CASE agentDisk[c] = Nothing
    BY <2>1, Unreadable DEF Noted
  <2>2. CASE agentDisk[c] # Nothing
    BY <1>3, <1>6, <1>7, <1>8, <2>2 DEF Noted
  <2> QED
    BY <2>1, <2>2
<1>12. \A d \in AgentPaths : \A n, st, m : st # "missing" => RowOf(d, n, st) # RowOf(c, m, "missing")
  BY RowFields
<1>13. \A d \in AgentPaths : /\ Recorded(d, inventory) => Recorded(d, inventory')
                             /\ Noted(d, inventory) => Noted(d, inventory')
  BY <1>7, <1>12 DEF Recorded, Noted
<1>14. \A r \in inventory' : r \in inventory \/ RowTyped(r)
  BY <1>6, <1>7, RowFields
<1>15. \A r \in inventory' : r \in inventory \/ r.status # "scanned" \/
                 \E i \in Readable(c) : r = RowOf(c, NameOf(agentDisk[c], i), "scanned")
  BY <1>5, <1>6, <1>7, <1>8, <1>9, RowFields
<1>16. \A r \in inventory : r.status = "failed" => r \in inventory'
  BY <1>7, RowFields
<1>17. \A d \in overtaken' : d \in overtaken \/ (d = c /\ RowOf(d, 0, "failed") \in inventory')
  BY <1>6, <1>7
<1>18. Seen(scan[s]) => Gone(c, inventory')
  BY <1>1, <1>2 DEF Seen, Gone, NextPath
<1> QED
  BY <1>1, <1>2, <1>7, <1>10, <1>11, <1>13, <1>14, <1>15, <1>16, <1>17, <1>18, PathIsDone

\* A scan that the disk changes under is no longer looked at.
LEMMA ChangeDiskStep == ASSUME ScanInv, ChangeDisk PROVE ScanInv'
<1>1. agentDisk' \in [AgentPaths -> PathContents]
  BY DEF ScanInv, ScanTypes, ChangeDisk, PathContents
<1>2. turns' \in 0..MaxTurns
  BY InventoryAssumption DEF ScanInv, ScanTypes, ChangeDisk
<1>3. \A o \in Scans : Walk(scan[o])'
  BY DEF ScanInv, Walk, Visited, ChangeDisk
<1> QED
  BY <1>1, <1>2, <1>3 DEF ScanInv, ScanTypes, ChangeDisk, RowTyped, RowOf

\* Every step keeps the invariant.
LEMMA InventoryStep == ScanInv /\ [InventoryNext]_inventoryVars => ScanInv'
<1> SUFFICES ASSUME ScanInv, [InventoryNext]_inventoryVars PROVE ScanInv'
  OBVIOUS
<1>1. CASE UNCHANGED inventoryVars
  BY <1>1 DEF inventoryVars, diskVars, ScanInv, ScanTypes, RowTyped, Walk, Sound, Covers, Mirrored, Founded,
              Seen, Visited, Ahead, Recorded, Noted, Gone, Readable
<1>2. CASE InventoryNext
  BY <1>2, StartScanStep, ScanRejectedStep, RecordManagedStep, BeginHomeStep, NextRunStep, ScanAgentStep, PathFailureStep,
     MissingPathStep, SeePathStep, ExistingPathStep, ChangeDiskStep DEF InventoryNext
<1> QED
  BY <1>1, <1>2

\* At first there is no scan.
LEMMA InventoryStarts == InventoryInit => ScanInv
<1> SUFFICES ASSUME InventoryInit PROVE ScanInv
  OBVIOUS
<1>1. PICK c \in AgentPaths, holds \in PathContents, r \in {"exists", "missing", "denied"},
          p \in {"none", "valid", "invalid"}, m \in ManagedStates :
         /\ agentDisk = [d \in AgentPaths |-> IF d = c THEN holds ELSE <<"good">>]
         /\ root = [a \in BuiltIn \cup {Custom} |-> r]
         /\ profiles = p
         /\ managed = [e \in ManagedEntries |-> m]
  BY DEF InventoryInit
<1>2. <<"good">> \in PathContents
  BY DEF PathContents
<1>3. NoScan \in ScanStates /\ NoScan.at = "idle" /\ NoScan.done = {}
  BY DEF NoScan, ScanStates, ScanPlaces
<1>4. \A s \in Scans : scan[s] = NoScan
  BY DEF InventoryInit
<1>5. ScanTypes
  BY <1>1, <1>2, <1>3, InventoryAssumption DEF InventoryInit, ScanTypes
<1>6. \A s \in Scans : Walk(scan[s]) /\ Sound(scan[s], inventory, registered)
  BY <1>3, <1>4 DEF Walk, Sound
<1> QED
  BY <1>3, <1>4, <1>5, <1>6 DEF ScanInv, InventoryInit

\* The inventory, the paths and the scans hold what they are declared to hold.
THEOREM InventoryTypeCorrect == InventorySpec => []InventoryTypeOK
<1>1. ScanInv => InventoryTypeOK
  BY DEF ScanInv, ScanTypes, InventoryTypeOK, RowTyped, ScanStates
<1> QED
  BY <1>1, InventoryStarts, InventoryStep, PTL DEF InventorySpec

\* A scan of the agents that ends and that nothing overlaps leaves, for any number of agents,
\* projects and kinds, and whatever earlier scans have left: a row for every file up to the
\* first of its path that cannot be read, a failure for that one, no row of a file of its own
\* that is gone unless the path has failed before, no hook without a file, and a run of every
\* project (agent-inventory-scanner.ts scan). A scan that is rejected is not among them.
THEOREM ScanIsAMirror == InventorySpec => []ScanMirrorsDisk
<1>1. ScanInv => ScanMirrorsDisk
  <2> SUFFICES ASSUME ScanInv, NEW s \in Finished
               PROVE  /\ \A c \in LookedAt(s) :
                            /\ c.kind \notin ForgottenKinds \/ c.place \in {Home, scan[s].place} => FilesRecorded(c)
                            /\ Readable(c) # DOMAIN agentDisk[c] => RowOf(c, 0, "failed") \in inventory
                            /\ agentDisk[c] = Nothing /\ RowOf(c, 0, "failed") \notin inventory =>
                                 RowOf(c, 0, "scanned") \notin inventory
                      /\ \A r \in inventory : r.kind \in ForgottenKinds /\ r.status = "scanned" =>
                            \E c \in LookedAt(s) :
                               \E i \in Readable(c) : r = RowOf(c, NameOf(agentDisk[c], i), "scanned")
                      /\ registered \subseteq scan[s].done
    BY DEF ScanMirrorsDisk
  <2>1. /\ s \in Scans /\ s \in undisturbed /\ scan[s].at = "idle" /\ scan[s].done # {}
        /\ Walk(scan[s]) /\ Sound(scan[s], inventory, registered)
    BY DEF Finished, ScanInv
  <2>2. Covers(scan[s], registered) /\ Mirrored(scan[s], inventory) /\ Founded(scan[s], inventory)
        /\ scan[s].agents = {} /\ scan[s].paths = {}
    BY <2>1 DEF Sound, Walk
  <2>3. \A c : c \in LookedAt(s) <=> c \in AgentPaths /\ Visited(scan[s], c)
    BY DEF LookedAt, Visited
  <2>4. \A c : ~Ahead(scan[s], c)
    BY <2>2 DEF Ahead
  <2>5. \A c \in LookedAt(s) :
           /\ (c.kind \notin ForgottenKinds \/ c.place \in {Home, scan[s].place}) => FilesRecorded(c)
           /\ Readable(c) # DOMAIN agentDisk[c] => RowOf(c, 0, "failed") \in inventory
           /\ agentDisk[c] = Nothing /\ RowOf(c, 0, "failed") \notin inventory =>
                RowOf(c, 0, "scanned") \notin inventory
    BY <2>2, <2>3, <2>4 DEF Mirrored, Recorded, Noted, Gone, FilesRecorded
  <2>6. \A r \in inventory : r.kind \in ForgottenKinds /\ r.status = "scanned" =>
           \E c \in LookedAt(s) :
              \E i \in Readable(c) : r = RowOf(c, NameOf(agentDisk[c], i), "scanned")
    BY <2>2, <2>3 DEF Founded
  <2>7. registered \subseteq scan[s].done
    BY <2>1, <2>2 DEF Covers
  <2> QED
    BY <2>5, <2>6, <2>7
<1> QED
  BY <1>1, InventoryStarts, InventoryStep, PTL DEF InventorySpec

------------------------------------------------------------------------------
(* The static audit                                                        *)

\* The rules, and what each takes off the score.
Rules == DOMAIN auditRules \cup DOMAIN enterpriseBlockRules
Weights == [id \in Rules |-> allAuditRuleDefinitions[id].deduction]

\* Sets of a few are finite.
LEMMA FewFinite == \A a, b, c, d, e : IsFiniteSet({a, b, c, d, e})
<1> SUFFICES ASSUME NEW a, NEW b, NEW c, NEW d, NEW e PROVE IsFiniteSet({a, b, c, d, e})
  OBVIOUS
<1>1. IsFiniteSet({a}) /\ IsFiniteSet({c})
  BY FS_Singleton
<1>2. IsFiniteSet({a} \cup {b}) /\ IsFiniteSet({c} \cup {d})
  BY <1>1, FS_AddElement
<1>3. IsFiniteSet(({a} \cup {b}) \cup {e})
  BY <1>2, FS_AddElement
<1>4. IsFiniteSet((({a} \cup {b}) \cup {e}) \cup ({c} \cup {d}))
  BY <1>2, <1>3, FS_Union
<1>5. {a, b, c, d, e} = (({a} \cup {b}) \cup {e}) \cup ({c} \cup {d})
  OBVIOUS
<1> QED
  BY <1>4, <1>5

\* There are finitely many rules.
LEMMA RulesFinite == IsFiniteSet(Rules)
<1> DEFINE A == {"PROMPT_INJECTION", "RCE", "CREDENTIAL_THEFT", "PLAINTEXT_SECRETS", "SAFETY_BYPASS"}
           B == {"DANGEROUS_COMMANDS", "BROAD_PERMISSIONS", "SUPPLY_CHAIN", "UNKNOWN_SOURCE",
                 "PERMISSION_COMBO_RISK"}
           C == {"CLI_CREDENTIAL_STORAGE", "CLI_NETWORK_ACCESS", "CLI_BINARY_SOURCE",
                 "CLI_PERMISSION_SCOPE", "CLI_AGGREGATE_RISK"}
           D == {"MCP_COMMAND_INJECTION", "PLUGIN_SOURCE_TRUST", "PLUGIN_LIFECYCLE_SCRIPTS",
                 "PATH_TRAVERSAL", "HASH_MISMATCH"}
           E == {"MCP_REQUIRED_VARIABLE_MISSING", "MCP_SENSITIVE_VARIABLE_PLAINTEXT", "CONFIG_DRIFT",
                 "AUTHORIZATION_SHRINK", "MISSING_ROLLBACK_SNAPSHOT"}
<1>1. IsFiniteSet(A) /\ IsFiniteSet(B) /\ IsFiniteSet(C) /\ IsFiniteSet(D) /\ IsFiniteSet(E)
  BY FewFinite
<1>2. Rules \subseteq (A \cup B) \cup (C \cup (D \cup E))
  BY DEF Rules, auditRules, enterpriseBlockRules
<1> HIDE DEF A, B, C, D, E
<1>3. IsFiniteSet(A \cup B) /\ IsFiniteSet(D \cup E)
  BY <1>1, FS_Union
<1>4. IsFiniteSet(C \cup (D \cup E))
  BY <1>1, <1>3, FS_Union
<1>5. IsFiniteSet((A \cup B) \cup (C \cup (D \cup E)))
  BY <1>3, <1>4, FS_Union
<1> QED
  BY <1>2, <1>5, FS_Subset

\* What the table of the rules says of the weights.
LEMMA RuleTable ==
    /\ \A id \in DOMAIN auditRules :
           /\ allAuditRuleDefinitions[id] = auditRules[id]
           /\ auditRules[id].deduction \in {25, 15, 8, 3}
           /\ auditRules[id].severity = "CRITICAL" => auditRules[id].deduction = 25
    /\ Weights \in [Rules -> Int]
    /\ \A id \in Rules : Weights[id] >= 1
<1>1. \A id \in DOMAIN auditRules :
          /\ auditRules[id].deduction \in {25, 15, 8, 3}
          /\ auditRules[id].severity = "CRITICAL" => auditRules[id].deduction = 25
  BY DEF auditRules, rule, severityDeductions
<1>2. \A id \in DOMAIN auditRules : allAuditRuleDefinitions[id] = auditRules[id]
  BY DEF allAuditRuleDefinitions
<1>3. \A id \in DOMAIN enterpriseBlockRules : enterpriseBlockRules[id].deduction = 100
  BY DEF enterpriseBlockRules, blockRule
<1>4. \A id \in Rules : id \notin DOMAIN auditRules => allAuditRuleDefinitions[id] = enterpriseBlockRules[id]
  BY DEF allAuditRuleDefinitions, Rules
<1>5. \A id \in Rules : Weights[id] \in {25, 15, 8, 3, 100}
  BY <1>1, <1>2, <1>3, <1>4 DEF Weights, Rules
<1>6. \A id \in Rules : Weights[id] \in Int /\ Weights[id] >= 1
  BY <1>5
<1>7. Weights \in [Rules -> Int]
  BY <1>6 DEF Weights
<1> QED
  BY <1>1, <1>2, <1>6, <1>7

\* The deductions of a set of rules are a sum.
LEMMA DeductionsAreASum ==
    \E g : IsSum(g, Weights, Rules) /\ \A ids \in SUBSET Rules : Deductions(ids) = g[ids]
<1> DEFINE pick == [s \in SUBSET Rules |-> CHOOSE x \in s : TRUE]
           does == [p \in Rules \X Int |-> Weights[p[1]] + p[2]]
<1>1. IsFiniteSet(Rules) /\ Weights \in [Rules -> Int] /\ \A id \in Rules : Weights[id] >= 1
  BY RulesFinite, RuleTable
<1>2. Picks(pick, Rules)
  BY DEF Picks
<1>3. does \in [Rules \X Int -> Int]
  BY <1>1
<1>4. \A p \in Rules \X Int : does[p] = Weights[p[1]] + p[2]
  OBVIOUS
<1>5. HasFold(0, pick, does, Rules, Int)
  <2> HIDE DEF pick, does
  <2> QED
    BY <1>1, <1>2, <1>3, FoldExists
<1>6. PICK g \in [SUBSET Rules -> Int] : IsFold(g, 0, pick, does, Rules)
  BY <1>5 DEF HasFold
<1>7. IsSum(g, Weights, Rules)
  <2> HIDE DEF pick, does
  <2> QED
    BY <1>1, <1>2, <1>4, <1>6, SumOfFold
<1>8. ASSUME NEW ids \in SUBSET Rules PROVE Deductions(ids) = g[ids]
  <2> DEFINE R(it) == it = [s \in SUBSET ids |->
                 IF s = {} THEN 0
                 ELSE LET x == CHOOSE x \in s : TRUE
                      IN  allAuditRuleDefinitions[x].deduction + it[s \ {x}]]
             iter == CHOOSE it : R(it)
  <2>1. Deductions(ids) = iter[ids]
    BY DEF Deductions, MapThenSumSet, MapThenFoldSet
  <2>2. \A s \in SUBSET ids : g[s] = IF s = {} THEN 0
            ELSE LET x == CHOOSE x \in s : TRUE IN allAuditRuleDefinitions[x].deduction + g[s \ {x}]
    <3> SUFFICES ASSUME NEW s \in SUBSET ids, s # {}
                 PROVE  g[s] = LET x == CHOOSE x \in s : TRUE
                               IN  allAuditRuleDefinitions[x].deduction + g[s \ {x}]
      BY <1>6 DEF IsFold, FoldAt
    <3>1. PICK x \in s : x = CHOOSE y \in s : TRUE
      OBVIOUS
    <3>2. g[s] = does[<<pick[s], g[s \ {pick[s]}]>>]
      BY <1>6 DEF IsFold, FoldAt
    <3>3. pick[s] = x
      BY <3>1
    <3>4. g[s] = Weights[x] + g[s \ {x}] /\ Weights[x] = allAuditRuleDefinitions[x].deduction
      BY <3>2, <3>3 DEF Weights
    <3> QED
      BY <3>1, <3>4
  <2> DEFINE h == [s \in SUBSET ids |-> g[s]]
  <2>3. R(h)
    <3>1. \A s \in SUBSET ids : \A x : s \ {x} \in SUBSET ids
      OBVIOUS
    <3> QED
      BY <2>2, <3>1
  <2>4. R(iter)
    <3> HIDE DEF R, h
    <3> QED
      BY <2>3
  <2>5. \A s \in SUBSET ids : iter[s] = IF s = {} THEN 0
            ELSE LET x == CHOOSE x \in s : TRUE IN allAuditRuleDefinitions[x].deduction + iter[s \ {x}]
    <3> HIDE DEF iter
    <3> QED
      BY <2>4
  <2>6. AgreeInTurn(g, iter, ids)
    <3> HIDE DEF iter
    <3> SUFFICES ASSUME NEW s \in SUBSET ids, \A r \in SUBSET s : r # s => g[r] = iter[r]
                 PROVE  g[s] = iter[s]
      BY DEF AgreeInTurn
    <3>1. CASE s = {}
      BY <2>2, <2>5, <3>1
    <3>2. CASE s # {}
      <4>1. PICK x \in s : x = CHOOSE y \in s : TRUE
        BY <3>2
      <4>2. g[s \ {x}] = iter[s \ {x}]
        OBVIOUS
      <4> QED
        BY <2>2, <2>5, <3>2, <4>1, <4>2
    <3> QED
      BY <3>1, <3>2
  <2>7. Agree(g, iter, ids)
    <3> HIDE DEF iter
    <3>1. IsFiniteSet(ids)
      BY <1>1, FS_Subset
    <3> QED
      BY <2>6, <3>1, SubsetUnique
  <2> QED
    BY <2>1, <2>7 DEF Agree
<1> QED
  BY <1>7, <1>8

------------------------------------------------------------------------------
(* Findings                                                                *)

\* A finite set of findings of the rules.
Findings(found) == IsFiniteSet(found) /\ RulesIn(found) \subseteq Rules

\* There are no more rules in findings than findings.
LEMMA RulesOfFindings ==
    ASSUME NEW found, Findings(found)
    PROVE  /\ IsFiniteSet(RulesIn(found)) /\ Cardinality(RulesIn(found)) \in Nat
           /\ Cardinality(found) \in Nat /\ Cardinality(RulesIn(found)) <= Cardinality(found)
<1> DEFINE f == [x \in found |-> x.rule]
<1>1. f \in Surjection(found, RulesIn(found))
  BY DEF Surjection, RulesIn
<1>2. IsFiniteSet(found)
  BY DEF Findings
<1>3. IsFiniteSet(RulesIn(found)) /\ Cardinality(RulesIn(found)) <= Cardinality(found)
  BY <1>1, <1>2, FS_Surjection
<1> QED
  BY <1>2, <1>3, FS_CardinalityType

\* The score is not below zero.
LEMMA MaxWithZero ==
    ASSUME NEW n \in Int PROVE Max({0, n}) = IF n >= 0 THEN n ELSE 0
<1>1. \E x \in {0, n} : \A y \in {0, n} : x >= y
  OBVIOUS
<1>2. Max({0, n}) \in {0, n} /\ \A y \in {0, n} : Max({0, n}) >= y
  BY <1>1 DEF Max
<1> QED
  BY <1>2

\* More findings, no better a score.
LEMMA ScoreFalls ==
    ASSUME NEW few, NEW many, Findings(few), Findings(many), few \subseteq many
    PROVE  /\ calculateTrustScore(few) \in 0..100 /\ calculateTrustScore(many) \in 0..100
           /\ calculateTrustScore(many) <= calculateTrustScore(few)
           /\ HasBlocker(few) => HasBlocker(many)
           /\ HasBlocker(few) => calculateTrustScore(few) = 0
<1>1. PICK g : IsSum(g, Weights, Rules) /\ \A ids \in SUBSET Rules : Deductions(ids) = g[ids]
  BY DeductionsAreASum
<1> DEFINE A == RulesIn(few)
           B == RulesIn(many)
           a == 100 - g[A] - (Cardinality(few) - Cardinality(A))
           b == 100 - g[B] - (Cardinality(many) - Cardinality(B))
<1>2. A \subseteq B /\ B \in SUBSET Rules /\ A \in SUBSET Rules /\ {} \in SUBSET A
  BY DEF Findings, RulesIn
<1>3. GrowsTo(g, A) /\ GrowsTo(g, B)
  BY <1>1, <1>2, SumGrows, RulesFinite, RuleTable
<1>4. /\ g[A] + Cardinality(B) - Cardinality(A) <= g[B]
      /\ 0 + Cardinality(A) - 0 <= g[A]
      /\ g[A] \in Int /\ g[B] \in Int
  <2>1. g[{}] = 0 /\ Cardinality({}) = 0
    BY <1>1, FS_EmptySet DEF IsSum
  <2>2. g[{}] + Cardinality(A) - Cardinality({}) <= g[A] /\ g[A] + Cardinality(B) - Cardinality(A) <= g[B]
    BY <1>2, <1>3 DEF GrowsTo
  <2>3. g[A] \in Int /\ g[B] \in Int
    BY <1>1, <1>2 DEF IsSum
  <2> QED
    BY <2>1, <2>2, <2>3
<1>5. /\ Cardinality(A) \in Nat /\ Cardinality(few) \in Nat /\ Cardinality(A) <= Cardinality(few)
      /\ Cardinality(B) \in Nat /\ Cardinality(many) \in Nat /\ Cardinality(B) <= Cardinality(many)
  BY RulesOfFindings
<1>6. Cardinality(few) <= Cardinality(many)
  BY FS_Subset DEF Findings
<1>7. a \in Int /\ b \in Int /\ b <= a /\ a <= 100
  <2> HIDE DEF A, B
  <2> QED
    BY <1>4, <1>5, <1>6
<1>8. /\ calculateTrustScore(few) = IF HasBlocker(few) THEN 0 ELSE Max({0, a})
      /\ calculateTrustScore(many) = IF HasBlocker(many) THEN 0 ELSE Max({0, b})
  BY <1>1, <1>2 DEF calculateTrustScore
<1>9. HasBlocker(few) => HasBlocker(many)
  BY DEF HasBlocker
<1>10. Max({0, a}) = (IF a >= 0 THEN a ELSE 0) /\ Max({0, b}) = (IF b >= 0 THEN b ELSE 0)
  BY <1>7, MaxWithZero
<1> HIDE DEF a, b
<1> QED
  BY <1>7, <1>8, <1>9, <1>10

\* A rule that is found takes its deduction.
LEMMA ScoreOfRule ==
    ASSUME NEW found, Findings(found), NEW id \in RulesIn(found)
    PROVE  calculateTrustScore(found) = 0 \/ calculateTrustScore(found) <= 100 - Weights[id]
<1>1. PICK g : IsSum(g, Weights, Rules) /\ \A ids \in SUBSET Rules : Deductions(ids) = g[ids]
  BY DeductionsAreASum
<1> DEFINE A == RulesIn(found)
           a == 100 - g[A] - (Cardinality(found) - Cardinality(A))
<1>2. A \in SUBSET Rules /\ id \in A
  BY DEF Findings
<1>3. g[A] \in Int /\ Weights[id] <= g[A] /\ Weights[id] \in Int
  <2> HIDE DEF A
  <2> QED
    BY <1>1, <1>2, SumHasTerm, RulesFinite, RuleTable
<1>4. Cardinality(A) \in Nat /\ Cardinality(found) \in Nat /\ Cardinality(A) <= Cardinality(found)
  BY RulesOfFindings
<1>5. calculateTrustScore(found) = IF HasBlocker(found) THEN 0 ELSE Max({0, a})
  BY <1>1, <1>2 DEF calculateTrustScore
<1>6. a \in Int /\ a <= 100 - Weights[id]
  <2> HIDE DEF A
  <2> QED
    BY <1>3, <1>4
<1>7. Max({0, a}) = IF a >= 0 THEN a ELSE 0
  BY <1>6, MaxWithZero
<1> HIDE DEF a
<1> QED
  BY <1>5, <1>6, <1>7

\* What a finding in a resource can be.
Snippets(f) == {deobfuscate(f.lines)[i] : i \in DOMAIN f.lines} \cup {{}}
AnyFinding(f) == [rule : Rules, line : 0..(Len(f.lines) + 1), snippet : Snippets(f)]
IsText(f) == f.lines \in Seq(Lines)

\* A text that is read has the lines it had.
LEMMA ReadLines ==
    ASSUME NEW f, IsText(f)
    PROVE  /\ Len(f.lines) \in Nat /\ DOMAIN f.lines = 1..Len(f.lines)
           /\ DOMAIN deobfuscate(f.lines) = DOMAIN f.lines
           /\ \A i \in DOMAIN f.lines :
                  /\ f.lines[i] \in Lines
                  /\ deobfuscate(f.lines)[i] = [f.lines[i] EXCEPT !.invisible = FALSE]
                  /\ deobfuscate(f.lines)[i].kind = f.lines[i].kind
                  /\ Shows(deobfuscate(f.lines)[i]) = f.lines[i].words
<1>1. Len(f.lines) \in Nat /\ DOMAIN f.lines = 1..Len(f.lines)
  BY DEF IsText
<1>2. \A i \in DOMAIN f.lines : f.lines[i] \in Lines
  BY DEF IsText
<1>3. \A line \in Lines : LET read == [line EXCEPT !.invisible = FALSE]
                          IN  /\ read.kind = line.kind /\ read.words = line.words
                              /\ read.invisible = FALSE
  BY DEF Lines
<1>4. DOMAIN deobfuscate(f.lines) = DOMAIN f.lines
      /\ \A i \in DOMAIN f.lines : deobfuscate(f.lines)[i] = [f.lines[i] EXCEPT !.invisible = FALSE]
  BY DEF deobfuscate
<1> QED
  BY <1>1, <1>2, <1>3, <1>4 DEF Shows

\* Each detector looks for a rule, in all that the rule is declared for.
LEMMA DetectorRules ==
    \A d \in detectContentRules :
        /\ d.rule \in DOMAIN auditRules
        /\ auditRules[d.rule].applies \subseteq d.types
BY DEF auditRules, rule, detectContentRules, Detector, ALL_RESOURCE_TYPES, COMMAND_RESOURCE_TYPES

\* The findings in the lines.
LEMMA FindingsInContent ==
    ASSUME NEW f, IsText(f), NEW d \in detectContentRules
    PROVE  findInContent(f, d) \subseteq AnyFinding(f)
<1>1. d.rule \in Rules
  BY DetectorRules DEF Rules
<1> DEFINE text == deobfuscate(f.lines)
<1>2. Len(f.lines) \in Nat /\ DOMAIN f.lines = 1..Len(f.lines) /\ DOMAIN text = DOMAIN f.lines
  BY ReadLines
<1>3. ASSUME NEW i \in DOMAIN f.lines, NEW k \in {i, i + 1}
      PROVE  [rule |-> d.rule, line |-> k, snippet |-> text[i]] \in AnyFinding(f)
  BY <1>1, <1>2, <1>3 DEF AnyFinding, Snippets
<1>4. ASSUME NEW x \in findInContent(f, d)
      PROVE  \E i \in DOMAIN f.lines : \E k \in {i, i + 1} :
                 x = [rule |-> d.rule, line |-> k, snippet |-> text[i]]
  <2>1. PICK i \in DOMAIN text : x = makeFinding(d.rule, Line(d, i), text[i])
    BY <1>4 DEF findInContent
  <2>2. Line(d, i) \in {i, i + 1}
    BY DEF Line
  <2> HIDE DEF text
  <2> QED
    BY <1>2, <2>1, <2>2 DEF makeFinding
<1> HIDE DEF text
<1> QED
  BY <1>3, <1>4

\* The findings in the metadata, and the blockers.
LEMMA FindingsInMetadata ==
    ASSUME NEW f, IsText(f)
    PROVE  detectMetadataRules(f) \cup detectBlockers(f) \subseteq AnyFinding(f)
<1>1. Len(f.lines) \in Nat
  BY DEF IsText
<1>2. \A id \in Rules : [rule |-> id, line |-> 0, snippet |-> {}] \in AnyFinding(f)
  BY <1>1 DEF AnyFinding, Snippets
<1>3. \A id \in DOMAIN enterpriseBlockRules : id \in Rules
  BY DEF Rules
<1>4. detectBlockers(f) \subseteq AnyFinding(f)
  BY <1>2, <1>3 DEF detectBlockers, makeFinding
<1>5. {"PERMISSION_COMBO_RISK", "BROAD_PERMISSIONS", "UNKNOWN_SOURCE", "CLI_CREDENTIAL_STORAGE",
       "CLI_BINARY_SOURCE", "CLI_PERMISSION_SCOPE", "CLI_AGGREGATE_RISK", "PLUGIN_SOURCE_TRUST",
       "PLUGIN_LIFECYCLE_SCRIPTS", "MCP_COMMAND_INJECTION", "SUPPLY_CHAIN"} \subseteq Rules
  BY DEF Rules, auditRules
<1>6. detectMetadataRules(f) \subseteq AnyFinding(f)
  BY <1>2, <1>5 DEF detectMetadataRules, makeFinding
<1> QED
  BY <1>4, <1>6

\* The findings in a resource are a finite set of findings of the rules.
LEMMA FindingsTyped ==
    ASSUME NEW f, IsText(f) PROVE Findings(auditStaticResource(f))
<1> DEFINE n == Len(f.lines)
           Shape == (Rules \X (0..(n + 1))) \X Snippets(f)
           make == [t \in Shape |-> [rule |-> t[1][1], line |-> t[1][2], snippet |-> t[2]]]
           line == [i \in DOMAIN f.lines |-> deobfuscate(f.lines)[i]]
           text == {deobfuscate(f.lines)[i] : i \in DOMAIN f.lines}
<1>1. n \in Nat /\ DOMAIN f.lines = 1..n
  BY DEF IsText
<1>2. IsFiniteSet(1..n) /\ IsFiniteSet(0..(n + 1))
  <2> HIDE DEF n
  <2>1. n \in Int /\ n + 1 \in Int /\ 0 \in Int /\ 1 \in Int
    BY <1>1
  <2>2. IsFiniteSet(1..n)
    BY <2>1, FS_Interval
  <2>3. IsFiniteSet(0..(n + 1))
    BY <2>1, FS_Interval
  <2> QED
    BY <2>2, <2>3
<1>3. IsFiniteSet(text)
  <2>1. line \in Surjection(DOMAIN f.lines, text)
    BY DEF Surjection
  <2> QED
    BY <1>1, <1>2, <2>1, FS_Surjection
<1>4. IsFiniteSet(Snippets(f))
  BY <1>3, FS_AddElement DEF Snippets
<1>5. IsFiniteSet(Rules \X (0..(n + 1)))
  BY <1>2, RulesFinite, FS_Product
<1>6. IsFiniteSet(Shape)
  BY <1>4, <1>5, FS_Product
<1>7. make \in Surjection(Shape, AnyFinding(f))
  <2>1. \A t \in Shape : make[t] \in AnyFinding(f)
    BY DEF AnyFinding
  <2>2. ASSUME NEW x \in AnyFinding(f) PROVE \E t \in Shape : make[t] = x
    <3>1. <<<<x.rule, x.line>>, x.snippet>> \in Shape
      BY DEF AnyFinding
    <3>2. make[<<<<x.rule, x.line>>, x.snippet>>] = x
      BY <3>1 DEF AnyFinding
    <3> QED
      BY <3>1, <3>2
  <2> HIDE DEF Shape
  <2>3. make \in [Shape -> AnyFinding(f)]
    BY <2>1
  <2> HIDE DEF make
  <2> QED
    BY <2>2, <2>3 DEF Surjection
<1>8. IsFiniteSet(AnyFinding(f))
  <2> HIDE DEF Shape, make
  <2> QED
    BY <1>6, <1>7, FS_Surjection
<1>9. auditStaticResource(f) \subseteq AnyFinding(f)
  <2>1. \A d \in detectContentRules : findInContent(f, d) \subseteq AnyFinding(f)
    BY FindingsInContent
  <2>2. detectMetadataRules(f) \cup detectBlockers(f) \subseteq AnyFinding(f)
    BY FindingsInMetadata
  <2>3. \A x \in auditStaticResource(f) :
            \/ \E d \in detectContentRules : x \in findInContent(f, d)
            \/ x \in detectMetadataRules(f) \cup detectBlockers(f)
    BY DEF auditStaticResource
  <2> QED
    BY <2>1, <2>2, <2>3
<1>10. \A x \in AnyFinding(f) : x.rule \in Rules
  BY DEF AnyFinding
<1> QED
  BY <1>8, <1>9, <1>10, FS_Subset DEF Findings, RulesIn

------------------------------------------------------------------------------
(* More text, more facts                                                   *)

\* The lines of t are the first of u, and describe or not as they did.
KeepsMask(t, u) ==
    /\ DOMAIN t \subseteq DOMAIN u
    /\ \A i \in DOMAIN t :
           /\ u[i] = t[i]
           /\ descriptiveLineMask(u)[i] = descriptiveLineMask(t)[i]

\* A line that is put at the end does that.
LEMMA MaskKept ==
    ASSUME NEW f, NEW g, IsText(f), IsText(g), NEW line, g.lines = Append(f.lines, line)
    PROVE  KeepsMask(deobfuscate(f.lines), deobfuscate(g.lines))
<1> DEFINE t == deobfuscate(f.lines)
           u == deobfuscate(g.lines)
<1>1. /\ DOMAIN f.lines = 1..Len(f.lines) /\ DOMAIN g.lines = 1..(Len(f.lines) + 1)
      /\ Len(f.lines) \in Nat
      /\ \A i \in 1..Len(f.lines) : g.lines[i] = f.lines[i]
  BY DEF IsText
<1>2. /\ DOMAIN t = 1..Len(f.lines) /\ DOMAIN u = 1..(Len(f.lines) + 1)
      /\ \A i \in 1..Len(f.lines) : u[i] = t[i]
  <2>1. \A i \in 1..Len(f.lines) : i \in DOMAIN f.lines /\ i \in DOMAIN g.lines
    BY <1>1
  <2> QED
    BY <1>1, <2>1 DEF deobfuscate
<1> HIDE DEF t, u
<1>3. ASSUME NEW i \in DOMAIN t
      PROVE  descriptiveLineMask(u)[i] = descriptiveLineMask(t)[i]
  <2>1. {j \in 1..(i - 1) : u[j].kind = "fence"} = {j \in 1..(i - 1) : t[j].kind = "fence"}
    BY <1>1, <1>2
  <2>2. i \in DOMAIN u /\ u[i] = t[i]
    BY <1>1, <1>2
  <2> QED
    BY <2>1, <2>2 DEF descriptiveLineMask
<1>4. KeepsMask(t, u)
  BY <1>1, <1>2, <1>3 DEF KeepsMask
<1> QED
  BY <1>4 DEF t, u

\* So a line hides none of the findings.
LEMMA LineAddsFindings ==
    ASSUME NEW f, NEW g, IsText(f), IsText(g), NEW line, g.lines = Append(f.lines, line),
           g.type = f.type, g.facts = f.facts
    PROVE  auditStaticResource(f) \subseteq auditStaticResource(g)
<1> DEFINE t == deobfuscate(f.lines)
           u == deobfuscate(g.lines)
<1>1. /\ DOMAIN t \subseteq DOMAIN u
      /\ \A i \in DOMAIN t :
             /\ u[i] = t[i]
             /\ descriptiveLineMask(u)[i] = descriptiveLineMask(t)[i]
  <2>1. KeepsMask(t, u)
    BY MaskKept
  <2> QED
    BY <2>1 DEF KeepsMask
<1>2. ASSUME NEW d \in detectContentRules
      PROVE  findInContent(f, d) \subseteq findInContent(g, d)
  <2> SUFFICES ASSUME NEW x \in findInContent(f, d) PROVE x \in findInContent(g, d)
    OBVIOUS
  <2>1. f.type \in d.types
    BY DEF findInContent
  <2>2. PICK i \in DOMAIN t :
            /\ d.patterns \cap Shows(t[i]) # {}
            /\ ~(d.skipDescriptive /\ descriptiveLineMask(t)[i])
            /\ x = makeFinding(d.rule, Line(d, i), t[i])
    BY <2>1 DEF findInContent
  <2>3. /\ i \in DOMAIN u /\ d.patterns \cap Shows(u[i]) # {}
        /\ ~(d.skipDescriptive /\ descriptiveLineMask(u)[i])
        /\ x = makeFinding(d.rule, Line(d, i), u[i])
    BY <1>1, <2>2
  <2> QED
    BY <2>1, <2>3 DEF findInContent
<1>3. detectMetadataRules(f) = detectMetadataRules(g)
  BY DEF detectMetadataRules, Combines, isUnknownSource, hasCliCredentialStorage,
         hasCliBinarySourceRisk, hasCliReferenceScopeRisk, hasStaticCommandDeclaration,
         hasCliAggregateRisk, hasHashRisk
<1>4. detectBlockers(f) = detectBlockers(g)
  BY DEF detectBlockers, hasPathTraversalOrAbsoluteWrite, hasHashRisk, needsSnapshot, lacksVariable
<1> QED
  BY <1>2, <1>3, <1>4 DEF auditStaticResource

\* A fact takes back no finding but that of the metadata it is the answer to.
LEMMA FactAnswers ==
    ASSUME NEW f, NEW g, NEW fact \in Facts, g.type = f.type, g.lines = f.lines,
           g.facts = f.facts \cup {fact}, NEW x \in auditStaticResource(f)
    PROVE  x \in auditStaticResource(g) \/ (x.line = 0 /\ x.rule = AnsweredBy(fact))
<1> DEFINE back == AnsweredBy(fact)
           Lost(id) == x = makeFinding(id, 0, {}) /\ id = back
<1>1. \A d \in detectContentRules : findInContent(f, d) = findInContent(g, d)
  BY DEF findInContent
<1>2. /\ isUnknownSource(f) => isUnknownSource(g) \/ back = "UNKNOWN_SOURCE"
      /\ hasCliReferenceScopeRisk(f) => hasCliReferenceScopeRisk(g) \/ back = "CLI_PERMISSION_SCOPE"
      /\ hasPathTraversalOrAbsoluteWrite(f) =>
            hasPathTraversalOrAbsoluteWrite(g) \/ back = "PATH_TRAVERSAL"
      /\ lacksVariable(f) => lacksVariable(g) \/ back = "MCP_REQUIRED_VARIABLE_MISSING"
      /\ needsSnapshot(f) => needsSnapshot(g) \/ back = "MISSING_ROLLBACK_SNAPSHOT"
  BY DEF isUnknownSource, hasCliReferenceScopeRisk, hasPathTraversalOrAbsoluteWrite, lacksVariable,
         needsSnapshot, AnsweredBy
<1>3. /\ Combines(f) => Combines(g)
      /\ hasCliCredentialStorage(f) => hasCliCredentialStorage(g)
      /\ hasCliBinarySourceRisk(f) => hasCliBinarySourceRisk(g)
      /\ hasStaticCommandDeclaration(f) => hasStaticCommandDeclaration(g)
      /\ hasCliAggregateRisk(f) => hasCliAggregateRisk(g)
      /\ hasHashRisk(f) => hasHashRisk(g)
      /\ \A y \in f.facts : y \in g.facts
  BY DEF Combines, hasCliCredentialStorage, hasCliBinarySourceRisk, hasStaticCommandDeclaration,
         hasCliAggregateRisk, hasHashRisk
<1>4. ASSUME x \in detectMetadataRules(f)
      PROVE  x \in detectMetadataRules(g) \/ \E id \in {back} : Lost(id)
  <2> HIDE DEF back
  <2> QED
    BY <1>2, <1>3, <1>4 DEF detectMetadataRules
<1>5. ASSUME x \in detectBlockers(f)
      PROVE  x \in detectBlockers(g) \/ \E id \in {back} : Lost(id)
  <2> HIDE DEF back
  <2> QED
    BY <1>2, <1>3, <1>5 DEF detectBlockers
<1>6. \A id : Lost(id) => x.line = 0 /\ x.rule = back
  BY DEF makeFinding
<1> QED
  BY <1>1, <1>4, <1>5, <1>6 DEF auditStaticResource

\* With more findings the status is no less severe.
LEMMA SeverityRises ==
    ASSUME NEW f, NEW g, IsText(f), IsText(g), auditStaticResource(f) \subseteq auditStaticResource(g)
    PROVE  Severity(Status(g)) >= Severity(Status(f))
<1> DEFINE few == auditStaticResource(f)
           many == auditStaticResource(g)
           a == calculateTrustScore(few)
           b == calculateTrustScore(many)
           p == HasBlocker(few)
           q == HasBlocker(many)
<1>1. Findings(few) /\ Findings(many)
  BY FindingsTyped
<1>2. a \in 0..100 /\ b \in 0..100 /\ b <= a /\ (p => q)
  BY <1>1, ScoreFalls
<1>3. Status(f) = mapTrustScoreToAuditStatus(a, p) /\ Status(g) = mapTrustScoreToAuditStatus(b, q)
  BY DEF Status
<1>4. p \in BOOLEAN /\ q \in BOOLEAN
  BY DEF HasBlocker
<1> HIDE DEF a, b, p, q
<1>5. \A x \in 0..100, y \in 0..100 : \A v \in BOOLEAN, w \in BOOLEAN :
         y <= x /\ (v => w) =>
             Severity(mapTrustScoreToAuditStatus(y, w)) >= Severity(mapTrustScoreToAuditStatus(x, v))
  BY DEF Severity, mapTrustScoreToAuditStatus
<1> QED
  BY <1>2, <1>3, <1>4, <1>5

------------------------------------------------------------------------------
(* The audit as the resource grows                                         *)

\* The inductive invariant: the types, and that what Cardinality counts is finite.
AuditInv ==
    /\ audited \in [type : ALL_RESOURCE_TYPES, lines : Seq(Lines), facts : SUBSET Facts]
    /\ IsFiniteSet(audited.facts)
    /\ Parts(audited) <= MaxParts

\* A line is one part more.
LEMMA LineStep == ASSUME AuditInv, AppendLine PROVE AuditInv'
<1>1. PICK line \in Lines :
          Parts(audited) < MaxParts /\ audited' = [audited EXCEPT !.lines = Append(@, line)]
  BY DEF AppendLine
<1>2. /\ audited'.type = audited.type /\ audited'.facts = audited.facts
      /\ audited'.lines = Append(audited.lines, line)
      /\ audited' \in [type : ALL_RESOURCE_TYPES, lines : Seq(Lines), facts : SUBSET Facts]
  <2>1. audited.lines \in Seq(Lines)
    BY DEF AuditInv
  <2>2. Append(audited.lines, line) \in Seq(Lines)
    BY <2>1
  <2>3. audited' = [audited EXCEPT !.lines = Append(audited.lines, line)]
    BY <1>1
  <2> QED
    BY <2>2, <2>3 DEF AuditInv
<1>3. Parts(audited)' = Parts(audited) + 1 /\ Parts(audited) \in Int
  <2>1. Cardinality(audited.facts) \in Nat
    BY FS_CardinalityType DEF AuditInv
  <2>2. Len(audited.lines) \in Nat /\ Len(audited'.lines) = Len(audited.lines) + 1
    BY <1>2 DEF AuditInv
  <2> QED
    BY <1>2, <2>1, <2>2 DEF Parts
<1> QED
  BY <1>1, <1>2, <1>3, AuditAssumption DEF AuditInv

\* A fact is one part more.
LEMMA FactStep == ASSUME AuditInv, AddFact PROVE AuditInv'
<1>1. PICK fact \in Facts \ audited.facts :
          Parts(audited) < MaxParts /\ audited' = [audited EXCEPT !.facts = @ \cup {fact}]
  BY DEF AddFact
<1>2. /\ audited'.type = audited.type /\ audited'.lines = audited.lines
      /\ audited'.facts = audited.facts \cup {fact}
      /\ audited' \in [type : ALL_RESOURCE_TYPES, lines : Seq(Lines), facts : SUBSET Facts]
  BY <1>1 DEF AuditInv
<1>3. /\ IsFiniteSet(audited'.facts)
      /\ Cardinality(audited'.facts) = Cardinality(audited.facts) + 1
      /\ Cardinality(audited.facts) \in Nat
  BY <1>2, FS_AddElement, FS_CardinalityType DEF AuditInv
<1>4. Len(audited.lines) \in Nat
  BY DEF AuditInv
<1> QED
  BY <1>1, <1>2, <1>3, <1>4, AuditAssumption DEF AuditInv, Parts

\* A resource without text has no parts.
LEMMA AuditStarts == AuditInit => AuditInv
<1> SUFFICES ASSUME NEW type \in AuditedTypes, audited = NoText(type) PROVE AuditInv
  BY DEF AuditInit
<1>1. audited = [type |-> type, lines |-> <<>>, facts |-> {}] /\ type \in ALL_RESOURCE_TYPES
  BY AuditAssumption DEF NoText
<1>2. IsFiniteSet({}) /\ Cardinality({}) = 0
  BY FS_EmptySet
<1> QED
  BY <1>1, <1>2, AuditAssumption DEF AuditInv, Parts

\* Every step keeps the invariant.
LEMMA AuditStep == AuditInv /\ [AuditNext]_auditVars => AuditInv'
<1>1. ASSUME AuditInv, AuditNext PROVE AuditInv'
  BY <1>1, LineStep, FactStep DEF AuditNext
<1>2. ASSUME AuditInv, UNCHANGED auditVars PROVE AuditInv'
  BY <1>2 DEF AuditInv, auditVars, Parts
<1> QED
  BY <1>1, <1>2

\* The resource under audit has a type, lines and facts that there are, within the bound
\* (AuditedResource and the text the scanner reads).
THEOREM AuditTypeCorrect == AuditSpec => []AuditTypeOK
<1>1. AuditInv => AuditTypeOK
  BY DEF AuditInv, AuditTypeOK
<1> QED
  BY <1>1, AuditStarts, AuditStep, PTL DEF AuditSpec

\* Only facts that clear are answers to a rule.
LEMMA AnswersAreClearing ==
    \A fact \in Facts : AnsweredBy(fact) \in Rules => fact \in ClearingFacts
<1>1. "none" \notin Rules
  BY DEF Rules, auditRules, enterpriseBlockRules
<1> QED
  BY <1>1 DEF AnsweredBy, ClearingFacts

\* What a step says of the findings and of the severity.
OnlyAnswered ==
    LET before == auditStaticResource(audited)
        after == auditStaticResource(audited')
        added == audited'.facts \ audited.facts
    IN  /\ \A finding \in before \ after :
               finding.line = 0 /\ finding.rule \in {AnsweredBy(fact) : fact \in added}
        /\ added \cap ClearingFacts = {} =>
               Severity(Status(audited')) >= Severity(Status(audited))

\* A line adds to the findings, a fact takes back what it answers.
LEMMA AnsweredStep ==
    ASSUME AuditInv, AuditInv', AuditNext
    PROVE  OnlyAnswered
<1>1. IsText(audited) /\ IsText(audited')
  BY DEF AuditInv, IsText
<1>2. CASE AppendLine
  <2>1. PICK line \in Lines : audited' = [audited EXCEPT !.lines = Append(@, line)]
    BY <1>2 DEF AppendLine
  <2>2. /\ audited'.type = audited.type /\ audited'.facts = audited.facts
        /\ audited'.lines = Append(audited.lines, line)
    BY <2>1 DEF AuditInv
  <2>3. auditStaticResource(audited) \subseteq auditStaticResource(audited')
    BY <1>1, <2>2, LineAddsFindings
  <2>4. Severity(Status(audited')) >= Severity(Status(audited))
    BY <1>1, <2>3, SeverityRises
  <2> QED
    BY <2>3, <2>4 DEF OnlyAnswered
<1>3. CASE AddFact
  <2>1. PICK fact \in Facts \ audited.facts : audited' = [audited EXCEPT !.facts = @ \cup {fact}]
    BY <1>3 DEF AddFact
  <2>2. /\ audited'.type = audited.type /\ audited'.lines = audited.lines
        /\ audited'.facts = audited.facts \cup {fact}
    BY <2>1 DEF AuditInv
  <2>3. audited'.facts \ audited.facts = {fact}
    BY <2>1, <2>2
  <2>4. \A x \in auditStaticResource(audited) :
            x \in auditStaticResource(audited') \/ (x.line = 0 /\ x.rule = AnsweredBy(fact))
    <3>1. PICK f, g : f = audited /\ g = audited'
      OBVIOUS
    <3>2. fact \in Facts /\ g.type = f.type /\ g.lines = f.lines /\ g.facts = f.facts \cup {fact}
      BY <2>1, <2>2, <3>1
    <3>3. \A x \in auditStaticResource(f) :
              x \in auditStaticResource(g) \/ (x.line = 0 /\ x.rule = AnsweredBy(fact))
      BY <3>2, FactAnswers
    <3> QED
      BY <3>1, <3>3
  <2>5. ASSUME fact \notin ClearingFacts
        PROVE  Severity(Status(audited')) >= Severity(Status(audited))
    <3>1. Findings(auditStaticResource(audited))
      BY <1>1, FindingsTyped
    <3>2. \A x \in auditStaticResource(audited) : x.rule \in Rules
      BY <3>1 DEF Findings, RulesIn
    <3>3. AnsweredBy(fact) \notin Rules
      BY <2>1, <2>5, AnswersAreClearing
    <3>4. auditStaticResource(audited) \subseteq auditStaticResource(audited')
      BY <2>4, <3>2, <3>3
    <3> QED
      BY <1>1, <3>4, SeverityRises
  <2> QED
    BY <2>3, <2>4, <2>5 DEF OnlyAnswered
<1> QED
  BY <1>2, <1>3 DEF AuditNext

\* However a resource grows, and however many lines and facts it has, the audit goes on finding
\* what it found and is no less severe: only a fact of the metadata that answers a test takes
\* back the one finding of that test.
THEOREM GrowthOnlyAnswers == AuditSpec => FindingsAreOnlyAnswered
<1>1. ASSUME AuditInv, AuditInv', [AuditNext]_auditVars
      PROVE  [audited' # audited => OnlyAnswered]_auditVars
  BY <1>1, AnsweredStep
<1> QED
  BY <1>1, AuditStarts, AuditStep, PTL DEF AuditSpec, FindingsAreOnlyAnswered, OnlyAnswered

------------------------------------------------------------------------------
(* What is declared is detected                                            *)

\* Plain text after no fence is not masked.
LEMMA PlainLine ==
    ASSUME NEW f, IsText(f), NEW i \in DOMAIN f.lines, f.lines[i].kind = "text",
           \A j \in 1..(i - 1) : f.lines[j].kind # "fence"
    PROVE  ~descriptiveLineMask(deobfuscate(f.lines))[i]
<1> DEFINE t == deobfuscate(f.lines)
<1>1. /\ i \in DOMAIN t /\ t[i].kind = "text" /\ \A j \in 1..(i - 1) : t[j].kind # "fence"
  <2>1. i \in 1..Len(f.lines) /\ Len(f.lines) \in Nat
    BY ReadLines
  <2>2. \A j \in 1..(i - 1) : j \in 1..Len(f.lines)
    BY <2>1
  <2> QED
    BY <2>1, <2>2, ReadLines
<1> HIDE DEF t
<1>2. {j \in 1..(i - 1) : t[j].kind = "fence"} = {}
  BY <1>1
<1>3. Cardinality({}) = 0 /\ 0 % 2 # 1
  BY FS_EmptySet
<1>4. ~descriptiveLineMask(t)[i]
  BY <1>1, <1>2, <1>3 DEF descriptiveLineMask
<1> QED
  BY <1>4 DEF t

\* Its words are found.
LEMMA DetectedIn ==
    ASSUME AuditInv, NEW d \in detectContentRules, NEW i \in DOMAIN audited.lines,
           audited.type \in auditRules[d.rule].applies,
           audited.lines[i].kind = "text", d.patterns \cap audited.lines[i].words # {},
           \A j \in 1..(i - 1) : audited.lines[j].kind # "fence"
    PROVE  d.rule \in RulesIn(auditStaticResource(audited))
<1>1. audited.type \in d.types
  BY DetectorRules
<1>2. ~descriptiveLineMask(deobfuscate(audited.lines))[i]
  BY PlainLine DEF AuditInv, IsText
<1>3. /\ i \in DOMAIN deobfuscate(audited.lines)
      /\ d.patterns \cap Shows(deobfuscate(audited.lines)[i]) # {}
  BY ReadLines DEF AuditInv, IsText
<1>5. makeFinding(d.rule, Line(d, i), deobfuscate(audited.lines)[i]) \in findInContent(audited, d)
  BY <1>1, <1>2, <1>3 DEF findInContent
<1>4. PICK x \in auditStaticResource(audited) : x.rule = d.rule
  BY <1>5 DEF auditStaticResource, makeFinding
<1> QED
  BY <1>4 DEF RulesIn

\* A critical rule takes 25 from the score, which leaves less than a SAFE one has.
LEMMA CriticalIsNotSafe ==
    ASSUME NEW f, IsText(f), NEW id \in RulesIn(auditStaticResource(f)), id \in DOMAIN auditRules,
           auditRules[id].severity = "CRITICAL"
    PROVE  Status(f) # "SAFE"
<1> DEFINE found == auditStaticResource(f)
           a == calculateTrustScore(found)
           p == HasBlocker(found)
<1>1. Findings(found)
  BY FindingsTyped
<1>2. a \in 0..100
  BY <1>1, ScoreFalls
<1>3. id \in Rules /\ Weights[id] = 25
  BY RuleTable DEF Rules, Weights
<1>4. a = 0 \/ a <= 75
  <2>1. a = 0 \/ a <= 100 - Weights[id]
    BY <1>1, ScoreOfRule
  <2> QED
    BY <1>3, <2>1
<1>5. Status(f) = mapTrustScoreToAuditStatus(a, p)
  BY DEF Status
<1> HIDE DEF a, p
<1> QED
  BY <1>2, <1>4, <1>5 DEF mapTrustScoreToAuditStatus

\* Both, for every detector and every line.
LEMMA DeclaredOfInv == ASSUME AuditInv PROVE DeclaredIsDetected
<1> SUFFICES ASSUME NEW d \in detectContentRules, NEW i \in DOMAIN audited.lines,
                    audited.type \in auditRules[d.rule].applies,
                    audited.lines[i].kind = "text", d.patterns \cap audited.lines[i].words # {},
                    \A j \in 1..(i - 1) : audited.lines[j].kind # "fence"
             PROVE  /\ d.rule \in RulesIn(auditStaticResource(audited))
                    /\ auditRules[d.rule].severity = "CRITICAL" => Status(audited) # "SAFE"
  BY DEF DeclaredIsDetected
<1>1. d.rule \in RulesIn(auditStaticResource(audited))
  BY DetectedIn
<1>2. d.rule \in DOMAIN auditRules
  BY DetectorRules
<1>3. IsText(audited)
  BY DEF AuditInv, IsText
<1>4. auditRules[d.rule].severity = "CRITICAL" => Status(audited) # "SAFE"
  BY <1>1, <1>2, <1>3, CriticalIsNotSafe
<1> QED
  BY <1>1, <1>4

\* Words of a pattern in plain text are found in every type of resource its rule is declared
\* for, whatever invisible characters part them, and a critical rule that is found keeps the
\* status from SAFE, whatever else the resource holds.
THEOREM DeclaredRulesAreDetected == AuditSpec => []DeclaredIsDetected
<1>1. AuditInv => DeclaredIsDetected
  BY DeclaredOfInv
<1> QED
  BY <1>1, AuditStarts, AuditStep, PTL DEF AuditSpec

------------------------------------------------------------------------------
(* The record of what is on this machine, and the kits: the inductive invariant*)

\* A manifest, or none.
Manifest == KitManifests \cup {None}

\* The statements that set statuses, those that delete rows of the inventory, and
\* those of the removal of a project.
Marks == {"setTargets", "setInstallations", "mark"}
Forgets == {"forgetFiles", "forgetBindings", "forgetResources"}
RemovalVerbs == {"plan", "record", "replan", "event", "deleteProject", "write"}

\* What a statement holds.
Fits(s) ==
    /\ s.do = "extension" => s.id \in Extensions /\ s.cached \in BOOLEAN /\ s.status \in Statuses
    /\ s.do = "target" => s.id \in Extensions /\ s.key \in Paths /\ s.status \in Statuses
    /\ s.do = "installation" => s.id \in Configured /\ s.key \in Paths /\ s.status \in Statuses
    /\ s.do = "project" => s.id \in Projects /\ s.key \in Paths
    /\ s.do = "tool" => s.id \in Kits /\ s.key \in Paths /\ s.manifest \in Manifest
    /\ s.do = "resource" =>
         /\ s.id \in Resources
         /\ s.origin \in {"install", "scan", "agent", "legacy", "kit"}
         /\ s.origin = "agent" => s.id \in AgentFiles
         /\ s.status \in Statuses /\ s.manifest \in Manifest
    /\ s.do = "binding" =>
         /\ s.id \in Resources /\ s.key \in Keys /\ s.status \in Statuses
         /\ s.kit = None /\ s.project \in Projects \cup {None} /\ s.tracked \in BOOLEAN
    /\ s.do = "file" => s.id \in Resources /\ s.key \in Keys /\ s.file \in FileRow
    /\ s.do = "known" => s.id \in Extensions /\ s.key \in Paths /\ s.status \in Statuses
    /\ s.do \in Marks \cup {"setExtension"} => s.id \in Extensions /\ s.status \in Statuses
    /\ s.do \in {"check", "audit"} => s.id \in Resources /\ s.key \in Keys
    /\ s.do = "checked" =>
         /\ s.id \in Resources /\ s.key \in Keys
         /\ s.path \in {"MISSING", "OK"} /\ s.file \in FileRow \cup {None}
    /\ s.do \in Forgets => s.ids \subseteq AgentFiles
    /\ s.do \in {"kitRecord", "kitUnbindAll", "kitForget", "kitDrift", "kitAudit", "kitApplied"} =>
         s.id \in Kits
    /\ s.do \in {"kitBind", "kitBound", "kitApplied"} => s.id \in Resources /\ s.key \in Kits \X Paths
    /\ s.do = "kitBound" => s.status \in Statuses
    /\ s.do = "kitUnbind" =>
         s.id \in Resources /\ s.key \in Keys /\ s.kit \in Kits /\ s.target \in Paths \cup {None}

\* The statements of a call are a sequence of statements that hold what they should.
IsQueue(q) == q \in Seq(ToSet(q))
AllFit(q) == IsQueue(q) /\ \A s \in ToSet(q) : Fits(s)

\* The older tables, the graph, the disk and the queues hold what they are for.
TablesOK ==
    tables \in [extension    : [Extensions -> [cached : BOOLEAN, status : Statuses] \cup {None}],
                target       : [Extensions \X Paths -> Statuses \cup {None}],
                installation : [Configured \X Paths -> Statuses \cup {None}],
                project      : [Projects -> Paths \cup {None}],
                tool         : [Kits -> [at : Paths, manifest : Manifest] \cup {None}]]

Graphs == [resource : [Resources -> ResourceRow \cup {None}],
           binding  : [Places -> BindingRow \cup {None}],
           file     : [Places -> FileRow \cup {None}],
           finding  : [Places -> {"SAFE", "SECURITY_RISK", None}]]

\* What a scan of the agents made is of a file of an agent.
OwnAgents(g) == \A r \in Resources :
    g.resource[r] # None /\ g.resource[r].origin = "agent" => r \in AgentFiles
GraphOK == graph \in Graphs /\ OwnAgents(graph)
DiskOK == made \in 0..MaxCalls /\ disk \in [Paths -> Hash]
TodoOK == todo = [c \in Calls |-> todo[c]] /\ \A c \in Calls : AllFit(todo[c])

\* How far the removal of a project is: its statements are behind it in their order,
\* and past the first the row of the removal is there, is of the project and says how
\* far it has come.
PutRow(p) == {<<PutPlan(p, "planned"), DeleteProject(p), Announce("removed")>>,
              <<PutPlan(p, "blocked"), PutRecord("blocked"), Announce("blocked")>>}
Stage(q, row, p) ==
    /\ row \in RemovalRow /\ row.project = p
    /\ \/ /\ q \in {<<DeleteProject(p), Announce("removed")>>, <<PutRecord("blocked"), Announce("blocked")>>}
          /\ row.rows = "kept" /\ row.record = None /\ row.event = None
       \/ /\ q = <<WriteRemoval, Announce("removed")>>
          /\ row.rows = "gone" /\ row.plan = "success" /\ row.record = "success" /\ row.event = None
       \/ /\ q = <<Announce("removed")>>
          /\ row.rows = "written" /\ row.plan = "success" /\ row.record = "success"
       \/ /\ q \in {<<PutRecord("failure"), UpdatePlan("failure"), Announce("blocked")>>,
                   <<UpdatePlan("failure"), Announce("blocked")>>}
          /\ row.event = None
       \/ q = <<Announce("blocked")>>
RemovalQueue(q, row) ==
    \/ \A s \in ToSet(q) : s.do \notin RemovalVerbs
    \/ \E p \in Projects : q \in PutRow(p)
    \/ \E p \in Projects : Stage(q, row, p)
RowOK(row) == Is(row, RemovalRow) /\ (row # None => Truthful(row))
RemovalOK ==
    /\ removal = [c \in Calls |-> removal[c]]
    /\ \A c \in Calls : RowOK(removal[c]) /\ RemovalQueue(todo[c], removal[c])

\* The results that make an operation less than a success, and those of a part of it.
Failing(results) == results \cap {"failure", "blocked", "rolled_back", "rollback_failed"} # {}
Several == {"success", "failure", "skipped"}

\* What an operation of kits holds.
KitOps == [kind : {"import", "generate", "export", "apply", "remove", "delete", "check"},
           kit : Kits, target : Paths \cup {None}, manifest : Manifest, plan : BOOLEAN,
           work : SUBSET (Resources \cup Places), done : SUBSET (Resources \cup Places),
           wrote : BOOLEAN,
           results : SUBSET (Several \cup {"blocked", "rolled_back", "rollback_failed"})]

\* What is to be seen of an operation while its plan and its statements run.
ApplyOK(op, S) ==
    /\ op.target \in Paths /\ op.manifest \in KitManifests
    /\ op.work \subseteq DOMAIN op.manifest
    /\ \A s \in S : \/ s.do = "kitBind" /\ s.id \in op.work
                    \/ s.do = "kitBound" /\ (s.id \in op.work \/ s.id = op.kit)
                    \/ s.do = "kitApplied" /\ s.id = op.kit
    /\ \A r \in DOMAIN op.manifest :
         op.manifest[r].required => r \in op.work \/ Failing(op.results)
    /\ \A r \in op.work : \/ op.plan \/ r \in op.done \/ Failing(op.results)
                          \/ \E s \in S : s.do \in {"kitBind", "kitBound"} /\ s.id = r
    /\ op.plan \/ S # {} => op.results \subseteq Several

\* A removal: each binding it was for is gone, has failed or is still in the queue.
RemoveOK(op, S) ==
    /\ op.work \subseteq Places /\ op.done \subseteq op.work
    /\ \A s \in S : s.do = "kitUnbind" /\ <<s.id, s.key>> \in op.work
    /\ \A b \in op.work : \/ op.plan \/ b \in op.done \/ Failing(op.results)
                          \/ \E s \in S : s.do = "kitUnbind" /\ <<s.id, s.key>> = b
    /\ op.plan \/ S # {} => op.results \subseteq Several

\* The other operations have no binding of their own.
OtherOK(op, S) ==
    /\ op.done = {}
    /\ S # {} => op.results \subseteq Several
    /\ \A s \in S : \/ op.kind \in {"import", "generate"} /\ s.do = "kitRecord"
                    \/ op.kind = "delete" /\ s.do \in {"kitUnbindAll", "kitUnbind", "kitForget"}
                    \/ op.kind = "check" /\ s.do \in {"kitDrift", "kitAudit"}

\* An operation of kits and the statements it still has.
KitOpOK(op, S) ==
    /\ op \in KitOps
    /\ op.plan => S = {} /\ op.done = {} /\ ~op.wrote /\ op.kind \in {"apply", "remove", "export"}
    /\ op.done # {} => "success" \in op.results /\ op.results \subseteq Several
    /\ op.wrote => op.results \subseteq Several
    /\ op.kind = "apply" => ApplyOK(op, S)
    /\ op.kind = "remove" => RemoveOK(op, S)
    /\ op.kind \notin {"apply", "remove"} => OtherOK(op, S)

\* Every operation under way is as it should be.
KitsOK ==
    /\ kitOp = [c \in Calls |-> kitOp[c]]
    /\ \A c \in Calls : kitOp[c] # None => KitOpOK(kitOp[c], ToSet(todo[c]))

\* The inductive invariant of the record and the kits.
KitInv == TablesOK /\ GraphOK /\ DiskOK /\ TodoOK /\ RemovalOK /\ KitsOK

------------------------------------------------------------------------------
(* Queues: what is in them                                                 *)

\* A sequence of the elements of a set that misses none.
Lists(q, s) == q \in Seq(s) /\ \A x \in s : \E i \in DOMAIN q : q[i] = x

\* An element in front of a list of the others.
LEMMA ListsOneMore ==
    ASSUME NEW s, NEW x \in s, NEW q, Lists(q, s \ {x})
    PROVE  Lists(<<x>> \o q, s)
<1> DEFINE n == Len(q)
           z == <<x>> \o q
<1>1. q \in Seq(s) /\ n \in Nat /\ DOMAIN q = 1..n /\ \A i \in 1..n : q[i] \in s
  BY DEF Lists
<1>2. z \in Seq(s) /\ Len(z) = n + 1 /\ z[1] = x /\ \A i \in 1..n : z[i + 1] = q[i]
  BY <1>1
<1>3. DOMAIN z = 1..(n + 1)
  BY <1>2
<1> HIDE DEF z
<1>4. ASSUME NEW y \in s PROVE \E i \in DOMAIN z : z[i] = y
  <2>1. CASE y = x
    BY <1>1, <1>2, <1>3, <2>1
  <2>2. CASE y # x
    <3>1. PICK i \in 1..n : q[i] = y
      BY <1>1, <2>2 DEF Lists
    <3>2. i + 1 \in DOMAIN z /\ z[i + 1] = y
      BY <1>1, <1>2, <1>3, <3>1
    <3> QED
      BY <3>2
  <2> QED
    BY <2>1, <2>2
<1>5. Lists(z, s)
  BY <1>2, <1>4 DEF Lists
<1> QED
  BY <1>5 DEF z

\* One element before the others.
Before(x, q) == <<x>> \o q

\* A finite set is worked through in some order, all of it.
LEMMA InSomeOrderLists ==
    ASSUME NEW S, IsFiniteSet(S)
    PROVE  Lists(InSomeOrder(S), S)
<1> DEFINE pick == [s \in SUBSET S |-> CHOOSE x \in s : TRUE]
           does == [p \in S \X Seq(S) |-> Before(p[1], p[2])]
           R(it) == it = [s \in SUBSET S |->
                 IF s = {} THEN <<>>
                 ELSE LET x == CHOOSE x \in s : TRUE IN Before(x, it[s \ {x}])]
           iter == CHOOSE it : R(it)
<1>1. InSomeOrder(S) = iter[S]
  BY DEF InSomeOrder, FoldSet, MapThenFoldSet, Before
<1>2. Picks(pick, S)
  BY DEF Picks
<1>3. does \in [S \X Seq(S) -> Seq(S)] /\ <<>> \in Seq(S)
  BY DEF Before
<1>4. HasFold(<<>>, pick, does, S, Seq(S))
  <2> HIDE DEF pick, does
  <2> QED
    BY <1>2, <1>3, FoldExists
<1>5. PICK g \in [SUBSET S -> Seq(S)] : IsFold(g, <<>>, pick, does, S)
  BY <1>4 DEF HasFold
<1>6. \A s \in SUBSET S : g[s] = IF s = {} THEN <<>>
          ELSE LET x == CHOOSE x \in s : TRUE IN Before(x, g[s \ {x}])
  <2> SUFFICES ASSUME NEW s \in SUBSET S, s # {}
               PROVE  g[s] = LET x == CHOOSE x \in s : TRUE IN Before(x, g[s \ {x}])
    BY <1>5 DEF IsFold, FoldAt
  <2>1. PICK x \in s : x = CHOOSE y \in s : TRUE
    OBVIOUS
  <2>2. g[s] = does[<<pick[s], g[s \ {pick[s]}]>>]
    BY <1>5 DEF IsFold, FoldAt
  <2>3. pick[s] = x /\ g[s \ {x}] \in Seq(S)
    BY <2>1
  <2>4. g[s] = Before(x, g[s \ {x}])
    BY <2>2, <2>3
  <2> QED
    BY <2>1, <2>4
<1> DEFINE h == [s \in SUBSET S |-> g[s]]
<1>7. R(h)
  <2>1. \A s \in SUBSET S : \A x : s \ {x} \in SUBSET S
    OBVIOUS
  <2>2. \A s \in SUBSET S : h[s] = g[s]
    OBVIOUS
  <2>3. h = [s \in SUBSET S |-> h[s]]
    OBVIOUS
  <2> HIDE DEF h
  <2>4. \A s \in SUBSET S : h[s] = IF s = {} THEN <<>>
            ELSE LET x == CHOOSE x \in s : TRUE IN Before(x, h[s \ {x}])
    BY <1>6, <2>1, <2>2, Zenon
  <2>5. h = [s \in SUBSET S |-> IF s = {} THEN <<>>
               ELSE LET x == CHOOSE x \in s : TRUE IN Before(x, h[s \ {x}])]
    BY <2>3, <2>4, Zenon
  <2> QED
    BY <2>5
<1>8. R(iter)
  <2> HIDE DEF R, h
  <2> QED
    BY <1>7
<1>9. \A s \in SUBSET S : iter[s] = IF s = {} THEN <<>>
          ELSE LET x == CHOOSE x \in s : TRUE IN Before(x, iter[s \ {x}])
  <2> HIDE DEF iter
  <2> QED
    BY <1>8
<1> DEFINE Good == {s \in SUBSET S : Lists(iter[s], s)}
<1> HIDE DEF iter
<1>10. ASSUME NEW s \in SUBSET S, \A r \in SUBSET s : r # s => r \in Good PROVE s \in Good
  <2>1. CASE s = {}
    <3>1. iter[s] = <<>>
      BY <1>9, <2>1
    <3>2. Lists(<<>>, {})
      BY DEF Lists
    <3> QED
      BY <2>1, <3>1, <3>2
  <2>2. CASE s # {}
    <3>1. PICK x \in s : x = CHOOSE y \in s : TRUE
      BY <2>2
    <3>2. iter[s] = Before(x, iter[s \ {x}])
      BY <1>9, <2>2, <3>1
    <3>3. s \ {x} \in Good
      BY <1>10
    <3>4. Lists(iter[s \ {x}], s \ {x})
      BY <3>3
    <3>5. Lists(Before(x, iter[s \ {x}]), s)
      BY <3>4, ListsOneMore DEF Before
    <3> QED
      BY <3>2, <3>5
  <2> QED
    BY <2>1, <2>2
<1> HIDE DEF Good
<1>11. S \in Good
  BY <1>10, SubsetInduction
<1> QED
  BY <1>1, <1>11 DEF Good

\* A queue and what is in it: its first element and the rest.
LEMMA HeadAndTail ==
    ASSUME NEW q, IsQueue(q), q # <<>>
    PROVE  /\ ToSet(q) = {Head(q)} \cup ToSet(Tail(q))
           /\ IsQueue(Tail(q))
<1> DEFINE n == Len(q)
           t == Tail(q)
<1>1. /\ q \in Seq(ToSet(q)) /\ n \in Nat /\ n # 0 /\ DOMAIN q = 1..n /\ Head(q) = q[1]
      /\ \A i \in 1..n : q[i] \in ToSet(q)
  BY DEF IsQueue, ToSet
<1>2. t \in Seq(ToSet(q)) /\ Len(t) = n - 1 /\ \A i \in 1..(n - 1) : t[i] = q[i + 1]
  BY <1>1
<1>3. DOMAIN t = 1..(n - 1)
  BY <1>1, <1>2
<1>4. n - 1 \in Nat /\ \A i \in 1..n : i = 1 \/ i - 1 \in 1..(n - 1)
  BY <1>1
<1> HIDE DEF n, t
<1>5. ToSet(t) \subseteq ToSet(q)
  BY <1>1, <1>2, <1>3, <1>4 DEF ToSet
<1>6. ASSUME NEW i \in 1..n PROVE q[i] = q[1] \/ q[i] \in ToSet(t)
  <2>1. CASE i # 1
    <3>1. i - 1 \in DOMAIN t /\ t[i - 1] = q[i - 1 + 1] /\ i - 1 + 1 = i
      BY <1>2, <1>3, <1>4, <2>1
    <3> QED
      BY <3>1 DEF ToSet
  <2> QED
    BY <2>1
<1>7. ToSet(q) = {Head(q)} \cup ToSet(t)
  <2>1. ToSet(q) = {q[i] : i \in 1..n}
    BY <1>1 DEF ToSet
  <2>2. ToSet(q) \subseteq {Head(q)} \cup ToSet(t)
    BY <1>1, <1>6, <2>1
  <2>3. Head(q) \in ToSet(q)
    <3>1. 1 \in 1..n
      BY <1>1
    <3> QED
      BY <1>1, <3>1
  <2> QED
    BY <1>5, <2>2, <2>3
<1>8. t \in Seq(ToSet(t))
  <2>1. \A i \in 1..Len(t) : t[i] \in ToSet(t)
    BY <1>2, <1>3 DEF ToSet
  <2> QED
    BY <1>2, <2>1
<1> QED
  BY <1>7, <1>8 DEF t, IsQueue

\* A queue in front of another.
LEMMA Joined ==
    ASSUME NEW p, IsQueue(p), NEW q, IsQueue(q)
    PROVE  ToSet(p \o q) = ToSet(p) \cup ToSet(q) /\ IsQueue(p \o q)
<1> DEFINE m == Len(p)
           n == Len(q)
           z == p \o q
           A == ToSet(p) \cup ToSet(q)
<1>1. /\ p \in Seq(A) /\ q \in Seq(A) /\ m \in Nat /\ n \in Nat
      /\ DOMAIN p = 1..m /\ DOMAIN q = 1..n
  <2>1. p \in Seq(ToSet(p)) /\ q \in Seq(ToSet(q))
    BY DEF IsQueue
  <2>2. ToSet(p) \subseteq A /\ ToSet(q) \subseteq A
    OBVIOUS
  <2> HIDE DEF A
  <2>3. p \in Seq(A) /\ q \in Seq(A)
    BY <2>1, <2>2
  <2> QED
    BY <2>1, <2>3
<1>2. /\ z \in Seq(A) /\ Len(z) = m + n /\ DOMAIN z = 1..(m + n)
      /\ \A i \in 1..m : z[i] = p[i]
      /\ \A i \in 1..n : z[m + i] = q[i]
  <2> HIDE DEF A
  <2> QED
    BY <1>1
<1>3. /\ \A i \in 1..m : i \in 1..(m + n)
      /\ \A i \in 1..n : m + i \in 1..(m + n)
      /\ \A i \in 1..(m + n) : i \in 1..m \/ (i - m \in 1..n /\ m + (i - m) = i)
  BY <1>1
<1> HIDE DEF m, n, z
<1>4. ASSUME NEW i \in 1..(m + n) PROVE z[i] \in A
  <2>1. CASE i \in 1..m
    BY <1>1, <1>2, <2>1 DEF ToSet
  <2>2. CASE i - m \in 1..n /\ m + (i - m) = i
    <3>1. z[i] = q[i - m]
      BY <1>2, <2>2
    <3> QED
      BY <1>1, <2>2, <3>1 DEF ToSet
  <2> QED
    BY <1>3, <2>1, <2>2
<1>5. ASSUME NEW x \in A PROVE x \in ToSet(z)
  <2>1. CASE x \in ToSet(p)
    BY <1>1, <1>2, <1>3, <2>1 DEF ToSet
  <2>2. CASE x \in ToSet(q)
    <3>1. PICK i \in 1..n : x = q[i]
      BY <1>1, <2>2 DEF ToSet
    <3>2. m + i \in DOMAIN z /\ z[m + i] = x
      BY <1>2, <1>3, <3>1
    <3> QED
      BY <3>2 DEF ToSet
  <2> QED
    BY <2>1, <2>2
<1>6. ToSet(z) = A
  <2>1. ToSet(z) \subseteq A
    BY <1>2, <1>4 DEF ToSet
  <2> QED
    BY <1>5, <2>1
<1> QED
  BY <1>2, <1>6 DEF z, IsQueue

\* Short queues, written out.
LEMMA ShortQueues ==
    /\ ToSet(<<>>) = {} /\ IsQueue(<<>>)
    /\ \A a : ToSet(<<a>>) = {a} /\ IsQueue(<<a>>)
    /\ \A a, b : ToSet(<<a, b>>) = {a, b} /\ IsQueue(<<a, b>>)
    /\ \A a, b, d : ToSet(<<a, b, d>>) = {a, b, d} /\ IsQueue(<<a, b, d>>)
    /\ \A a, b, d, e : ToSet(<<a, b, d, e>>) = {a, b, d, e} /\ IsQueue(<<a, b, d, e>>)
<1>1. ToSet(<<>>) = {} /\ IsQueue(<<>>)
  BY DEF ToSet, IsQueue
<1>2. ASSUME NEW a PROVE ToSet(<<a>>) = {a} /\ IsQueue(<<a>>)
  BY DEF ToSet, IsQueue
<1>3. ASSUME NEW a, NEW b PROVE ToSet(<<a, b>>) = {a, b} /\ IsQueue(<<a, b>>)
  <2>1. ToSet(<<a, b>>) = {a, b}
    BY DEF ToSet
  <2> QED
    BY <2>1 DEF IsQueue
<1>4. ASSUME NEW a, NEW b, NEW d PROVE ToSet(<<a, b, d>>) = {a, b, d} /\ IsQueue(<<a, b, d>>)
  <2>1. ToSet(<<a, b, d>>) = {a, b, d}
    BY DEF ToSet
  <2> QED
    BY <2>1 DEF IsQueue
<1>5. ASSUME NEW a, NEW b, NEW d, NEW e
      PROVE  ToSet(<<a, b, d, e>>) = {a, b, d, e} /\ IsQueue(<<a, b, d, e>>)
  <2>1. ToSet(<<a, b, d, e>>) = {a, b, d, e}
    BY DEF ToSet
  <2> QED
    BY <2>1 DEF IsQueue
<1> QED
  BY <1>1, <1>2, <1>3, <1>4, <1>5

\* A statement for each element of a set, in some order.
LEMMA QueueOfEach ==
    ASSUME NEW S, IsFiniteSet(S), NEW f,
           NEW w, w = InSomeOrder(S), NEW q, q = [i \in DOMAIN w |-> f[w[i]]]
    PROVE  IsQueue(q) /\ ToSet(q) = {f[x] : x \in S}
<1>1. w \in Seq(S) /\ \A x \in S : \E i \in DOMAIN w : w[i] = x
  BY InSomeOrderLists DEF Lists
<1>2. DOMAIN w = 1..Len(w) /\ Len(w) \in Nat /\ \A i \in DOMAIN w : w[i] \in S
  BY <1>1
<1>3. DOMAIN q = DOMAIN w /\ \A i \in DOMAIN w : q[i] = f[w[i]]
  OBVIOUS
<1>4. ToSet(q) = {f[x] : x \in S}
  BY <1>1, <1>2, <1>3 DEF ToSet
<1>5. q = [i \in 1..Len(w) |-> f[w[i]]] /\ \A i \in 1..Len(w) : f[w[i]] \in ToSet(q)
  BY <1>2, <1>4
<1>6. q \in Seq(ToSet(q))
  BY <1>2, <1>5
<1> QED
  BY <1>4, <1>6 DEF IsQueue

------------------------------------------------------------------------------
(* Statements are of their type                                            *)

\* A statement of its type that is none of a removal, and a queue of such.
Suits(s) == Fits(s) /\ s.do \notin RemovalVerbs

\* A queue without a statement of a removal of a project.
PlainQueue(q) == IsQueue(q) /\ \A s \in ToSet(q) : Suits(s)

\* The statements of the repository are of their type.
LEMMA TableStatementsSuit ==
    ASSUME NEW e \in Extensions, NEW s \in Statuses
    PROVE  /\ \A cached \in BOOLEAN : Suits(PutExtension(e, cached, s))
           /\ \A t \in Paths : Suits(PutTarget(e, t, s)) /\ Suits(KnownTarget(e, t, s))
           /\ \A t \in Paths : e \in Configured => Suits(PutInstallation(e, t, s))
           /\ Suits(SetExtension(e, s))
           /\ \A ts : /\ Suits(SetTargets(e, ts, s)) /\ Suits(SetInstallations(e, ts, s))
                      /\ Suits(MarkBindings(e, ts, s))
<1>1. \A cached \in BOOLEAN : Suits(PutExtension(e, cached, s))
  BY DEF Suits, Fits, PutExtension, RemovalVerbs, Marks, Forgets
<1>2. \A t \in Paths : Suits(PutTarget(e, t, s))
  BY DEF Suits, Fits, PutTarget, RemovalVerbs, Marks, Forgets
<1>3. \A t \in Paths : Suits(KnownTarget(e, t, s))
  BY DEF Suits, Fits, KnownTarget, RemovalVerbs, Marks, Forgets
<1>4. \A t \in Paths : e \in Configured => Suits(PutInstallation(e, t, s))
  BY DEF Suits, Fits, PutInstallation, RemovalVerbs, Marks, Forgets
<1>5. Suits(SetExtension(e, s))
  BY DEF Suits, Fits, SetExtension, RemovalVerbs, Marks, Forgets
<1>6. \A ts : Suits(SetTargets(e, ts, s)) /\ Suits(SetInstallations(e, ts, s))
  BY DEF Suits, Fits, SetTargets, SetInstallations, RemovalVerbs, Marks, Forgets
<1>7. \A ts : Suits(MarkBindings(e, ts, s))
  BY DEF Suits, Fits, MarkBindings, RemovalVerbs, Marks, Forgets
<1> QED
  BY <1>1, <1>2, <1>3, <1>4, <1>5, <1>6, <1>7

\* The statements on the graph are of their type.
LEMMA GraphStatementsSuit ==
    ASSUME NEW r \in Resources, NEW s \in Statuses
    PROVE  /\ \A origin \in {"install", "scan", "agent", "legacy", "kit"}, m \in Manifest :
                (origin = "agent" => r \in AgentFiles) => Suits(PutResource(r, origin, s, m))
           /\ \A key \in Keys, p \in Projects \cup {None}, tracked \in BOOLEAN :
                Suits(PutBinding(r, key, s, None, p, tracked))
           /\ \A key \in Keys, f \in FileRow : Suits(PutFile(r, key, f))
           /\ \A key \in Keys : Suits(Check(r, key)) /\ Suits(Audit(r, key))
           /\ \A key \in Keys, path \in {"MISSING", "OK"}, f \in FileRow \cup {None} :
                Suits(Checked(r, key, path, f))
           /\ \A table \in Forgets, rs \in SUBSET AgentFiles : Suits(Forget(table, rs))
<1>1. \A origin \in {"install", "scan", "agent", "legacy", "kit"}, m \in Manifest :
        (origin = "agent" => r \in AgentFiles) => Suits(PutResource(r, origin, s, m))
  BY DEF Suits, Fits, PutResource, RemovalVerbs, Marks, Forgets
<1>2. \A key \in Keys, p \in Projects \cup {None}, tracked \in BOOLEAN :
        Suits(PutBinding(r, key, s, None, p, tracked))
  BY DEF Suits, Fits, PutBinding, RemovalVerbs, Marks, Forgets
<1>3. \A key \in Keys, f \in FileRow : Suits(PutFile(r, key, f))
  BY DEF Suits, Fits, PutFile, RemovalVerbs, Marks, Forgets
<1>4. \A key \in Keys : Suits(Check(r, key)) /\ Suits(Audit(r, key))
  BY DEF Suits, Fits, Check, Audit, RemovalVerbs, Marks, Forgets
<1>5. \A key \in Keys, path \in {"MISSING", "OK"}, f \in FileRow \cup {None} :
        Suits(Checked(r, key, path, f))
  BY DEF Suits, Fits, Checked, RemovalVerbs, Marks, Forgets
<1>6. \A table \in Forgets, rs \in SUBSET AgentFiles : Suits(Forget(table, rs))
  BY DEF Suits, Fits, Forget, RemovalVerbs, Marks, Forgets
<1> QED
  BY <1>1, <1>2, <1>3, <1>4, <1>5, <1>6

\* The statements of a scan are of their type.
LEMMA ScanStatementsSuit ==
    /\ \A p \in Projects, t \in Paths : Suits(PutProject(p, t))
    /\ \A k \in Kits, t \in Paths, m \in Manifest : Suits(PutTool(k, t, m))
<1>1. \A p \in Projects, t \in Paths : Suits(PutProject(p, t))
  BY DEF Suits, Fits, PutProject, RemovalVerbs, Marks, Forgets
<1>2. \A k \in Kits, t \in Paths, m \in Manifest : Suits(PutTool(k, t, m))
  BY DEF Suits, Fits, PutTool, RemovalVerbs, Marks, Forgets
<1> QED
  BY <1>1, <1>2

\* recordResourceGraph is one or two statements of their type.
LEMMA GraphIsPlain ==
    ASSUME NEW r \in Resources, NEW origin \in {"install", "scan", "agent", "legacy", "kit"},
           origin = "agent" => r \in AgentFiles, NEW t \in Paths \cup {None}, NEW s \in Statuses,
           NEW p \in Projects \cup {None}, NEW m \in Manifest
    PROVE  PlainQueue(Graph(r, origin, t, s, p, m))
<1> DEFINE first == PutResource(r, origin, s, m)
           second == PutBinding(r, t, s, None, p, TRUE)
<1>1. Suits(first)
  BY GraphStatementsSuit
<1>2. t # None => Suits(second)
  BY GraphStatementsSuit DEF Keys
<1>3. Graph(r, origin, t, s, p, m) = IF t = None THEN <<first>> \o <<>> ELSE <<first>> \o <<second>>
  BY DEF Graph
<1> HIDE DEF first, second
<1>4. PlainQueue(<<first>> \o <<>>)
  BY <1>1, ShortQueues, Joined DEF PlainQueue
<1>5. t # None => PlainQueue(<<first>> \o <<second>>)
  BY <1>1, <1>2, ShortQueues, Joined DEF PlainQueue
<1> QED
  BY <1>3, <1>4, <1>5

\* Two such queues after one another.
LEMMA PlainJoined ==
    ASSUME NEW p, PlainQueue(p), NEW q, PlainQueue(q)
    PROVE  PlainQueue(p \o q)
BY Joined DEF PlainQueue

\* One call's queue is replaced.
LEMMA TodoReplaced ==
    ASSUME TodoOK, NEW c \in Calls, NEW q, AllFit(q), todo' = [todo EXCEPT ![c] = q]
    PROVE  /\ TodoOK' /\ todo'[c] = q
           /\ \A d \in Calls : d # c => todo'[d] = todo[d]
<1>1. todo' = [d \in Calls |-> IF d = c THEN q ELSE todo[d]]
  BY DEF TodoOK
<1>2. \A d \in Calls : todo'[d] = IF d = c THEN q ELSE todo[d]
  BY <1>1
<1>3. todo' = [d \in Calls |-> todo'[d]]
  BY <1>1
<1> QED
  BY <1>2, <1>3 DEF TodoOK

\* A queue without statements of a removal leaves the removals as they are.
LEMMA RemovalUntouched ==
    ASSUME RemovalOK, TodoOK, NEW c \in Calls, NEW q, PlainQueue(q), todo' = [todo EXCEPT ![c] = q],
           removal' = removal
    PROVE  RemovalOK'
<1>1. AllFit(q)
  BY DEF AllFit, PlainQueue, Suits
<1>2. todo'[c] = q /\ \A d \in Calls : d # c => todo'[d] = todo[d]
  BY <1>1, TodoReplaced
<1>3. RemovalQueue(q, removal[c])
  BY DEF RemovalQueue, PlainQueue, Suits
<1>4. removal' = [d \in Calls |-> removal'[d]]
  BY DEF RemovalOK
<1>5. ASSUME NEW d \in Calls PROVE RowOK(removal[d]) /\ RemovalQueue(todo'[d], removal[d])
  BY <1>2, <1>3 DEF RemovalOK
<1>6. \A d \in Calls : RowOK(removal[d])' /\ RemovalQueue(todo'[d], removal'[d])
  BY <1>5
<1> QED
  BY <1>4, <1>6 DEF RemovalOK, RowOK, Is, Truthful, RemovalQueue, Stage

\* The statements a call may begin with.
Opening(q) ==
    \/ PlainQueue(q)
    \/ \E p \in Projects : q \in PutRow(p)

\* What an installation, a target or a scanned extension begins with.
LEMMA RecordersOpen ==
    ASSUME NEW c \in Calls, NEW e \in Extensions,
           \/ RecordSkillInstalled(c, e)
           \/ \E t \in Paths : RecordTarget(c, e, t) \/ RecordInstallation(c, e, t)
                               \/ RecordScannedExtension(c, e, t)
    PROVE  \E q : Call(c, q) /\ Opening(q)
<1>1. {"enabled", "disabled", "installed", "scanned"} \subseteq Statuses /\ None \in Manifest
  BY DEF Statuses, Manifest
<1>2. e \in Resources
  BY DEF Resources
<1>3. CASE RecordSkillInstalled(c, e)
  <2> DEFINE a == PutExtension(e, TRUE, "installed")
             g == Graph(e, "install", None, "installed", None, None)
  <2>1. PlainQueue(g)
    BY <1>1, <1>2, GraphIsPlain
  <2>2. Suits(a)
    BY <1>1, TableStatementsSuit
  <2>3. Call(c, <<a>> \o g)
    BY <1>3 DEF RecordSkillInstalled
  <2> HIDE DEF a, g
  <2>4. PlainQueue(<<a>>)
    BY <2>2, ShortQueues DEF PlainQueue
  <2> QED
    BY <2>1, <2>3, <2>4, PlainJoined DEF Opening
<1>4. ASSUME NEW t \in Paths, RecordTarget(c, e, t) PROVE \E q : Call(c, q) /\ Opening(q)
  <2>1. PICK s \in {"enabled", "disabled"} : Call(c, <<PutTarget(e, t, s), KnownTarget(e, t, s)>>)
    BY <1>4 DEF RecordTarget
  <2>2. Suits(PutTarget(e, t, s)) /\ Suits(KnownTarget(e, t, s))
    BY <1>1, TableStatementsSuit
  <2>3. PlainQueue(<<PutTarget(e, t, s), KnownTarget(e, t, s)>>)
    BY <2>2, ShortQueues DEF PlainQueue
  <2> QED
    BY <2>1, <2>3 DEF Opening
<1>5. ASSUME NEW t \in Paths, RecordInstallation(c, e, t) PROVE \E q : Call(c, q) /\ Opening(q)
  <2> DEFINE a == PutInstallation(e, t, "installed")
             g == Graph(e, "install", t, "installed", None, None)
  <2>1. PlainQueue(g)
    BY <1>1, <1>2, GraphIsPlain
  <2>2. Suits(a)
    BY <1>1, <1>5, TableStatementsSuit DEF RecordInstallation
  <2>3. Call(c, <<a>> \o g)
    BY <1>5 DEF RecordInstallation
  <2> HIDE DEF a, g
  <2>4. PlainQueue(<<a>>)
    BY <2>2, ShortQueues DEF PlainQueue
  <2> QED
    BY <2>1, <2>3, <2>4, PlainJoined DEF Opening
<1>6. ASSUME NEW t \in Paths, RecordScannedExtension(c, e, t) PROVE \E q : Call(c, q) /\ Opening(q)
  <2> DEFINE a == PutExtension(e, FALSE, "scanned")
             b == PutTarget(e, t, "scanned")
             d == KnownTarget(e, t, "scanned")
             g == Graph(e, "scan", t, "scanned", None, None)
  <2>1. PlainQueue(g)
    BY <1>1, <1>2, GraphIsPlain
  <2>2. Suits(a) /\ Suits(b) /\ Suits(d)
    BY <1>1, TableStatementsSuit
  <2>3. Call(c, <<a, b, d>> \o g)
    BY <1>6 DEF RecordScannedExtension
  <2> HIDE DEF a, b, d, g
  <2>4. PlainQueue(<<a, b, d>>)
    BY <2>2, ShortQueues DEF PlainQueue
  <2> QED
    BY <2>1, <2>3, <2>4, PlainJoined DEF Opening
<1> QED
  BY <1>3, <1>4, <1>5, <1>6

\* What a scan begins with.
LEMMA ScansOpen ==
    ASSUME NEW c \in Calls, NEW t \in Paths,
           \/ RecordScanFailure(c, t)
           \/ \E k \in Kits : RecordScannedTool(c, k, t)
           \/ \E p \in Projects : RecordScannedProject(c, p, t)
           \/ \E r \in AgentFiles, p \in Projects \cup {None} : RecordAgentResource(c, r, t, p)
    PROVE  \E q : Call(c, q) /\ Opening(q)
<1>1. {"scanned", "scan_failed"} \subseteq Statuses /\ None \in Manifest /\ Manifests \subseteq Manifest
  BY RowAssumption DEF Statuses, Manifest
<1>2. CASE RecordScanFailure(c, t)
  <2> DEFINE a == PutResource(t, "scan", "scan_failed", None)
             b == PutBinding(t, t, "scan_failed", None, None, FALSE)
  <2>1. t \in Resources /\ t \in Keys
    BY DEF Resources, Keys
  <2>2. Suits(a) /\ Suits(b)
    BY <1>1, <2>1, GraphStatementsSuit
  <2>3. Call(c, <<a, b>>)
    BY <1>2 DEF RecordScanFailure
  <2> HIDE DEF a, b
  <2>4. PlainQueue(<<a, b>>)
    BY <2>2, ShortQueues DEF PlainQueue
  <2> QED
    BY <2>3, <2>4 DEF Opening
<1>3. ASSUME NEW k \in Kits, RecordScannedTool(c, k, t) PROVE \E q : Call(c, q) /\ Opening(q)
  <2>1. PICK m \in Manifests : Call(c, <<PutTool(k, t, m)>> \o Graph(k, "scan", t, "scanned", None, m))
    BY <1>3 DEF RecordScannedTool
  <2> DEFINE a == PutTool(k, t, m)
             g == Graph(k, "scan", t, "scanned", None, m)
  <2>2. PlainQueue(g)
    BY <1>1, GraphIsPlain DEF Resources
  <2>3. Suits(a)
    BY <1>1, ScanStatementsSuit
  <2>4. Call(c, <<a>> \o g)
    BY <2>1
  <2> HIDE DEF a, g
  <2>5. PlainQueue(<<a>>)
    BY <2>3, ShortQueues DEF PlainQueue
  <2> QED
    BY <2>2, <2>4, <2>5, PlainJoined DEF Opening
<1>4. ASSUME NEW p \in Projects, RecordScannedProject(c, p, t) PROVE \E q : Call(c, q) /\ Opening(q)
  <2> DEFINE a == PutProject(p, t)
             g == Graph(p, "scan", t, "scanned", p, None)
  <2>2. PlainQueue(g)
    BY <1>1, GraphIsPlain DEF Resources
  <2>3. Suits(a)
    BY <1>1, ScanStatementsSuit
  <2>4. Call(c, <<a>> \o g)
    BY <1>4 DEF RecordScannedProject
  <2> HIDE DEF a, g
  <2>5. PlainQueue(<<a>>)
    BY <2>3, ShortQueues DEF PlainQueue
  <2> QED
    BY <2>2, <2>4, <2>5, PlainJoined DEF Opening
<1>5. ASSUME NEW r \in AgentFiles, NEW p \in Projects \cup {None}, RecordAgentResource(c, r, t, p)
      PROVE  \E q : Call(c, q) /\ Opening(q)
  <2>1. PlainQueue(Graph(r, "agent", t, "scanned", p, None))
    BY <1>1, GraphIsPlain DEF Resources
  <2> QED
    BY <1>5, <2>1 DEF RecordAgentResource, Opening
<1> QED
  BY <1>2, <1>3, <1>4, <1>5

\* What a cleaning or the hints of the server begin with.
LEMMA MarksOpen ==
    ASSUME NEW c \in Calls, NEW e \in Extensions,
           \/ MarkCleaned(c, e)
           \/ \E hints \in (SUBSET Hints) \ {{}} : ApplyHints(c, e, hints)
    PROVE  \E q : Call(c, q) /\ Opening(q)
<1>1. ASSUME NEW s \in Statuses, NEW a, NEW b, Suits(a), Suits(b), Call(c, <<a, b>>)
      PROVE  \E q : Call(c, q) /\ Opening(q)
  <2>1. PlainQueue(<<a, b>>)
    BY <1>1, ShortQueues DEF PlainQueue
  <2> QED
    BY <1>1, <2>1 DEF Opening
<1>2. CASE MarkCleaned(c, e)
  <2>1. "cleaned" \in Statuses
    BY DEF Statuses
  <2>2. \A ts : /\ Suits(SetTargets(e, ts, "cleaned")) /\ Suits(SetInstallations(e, ts, "cleaned"))
                /\ Suits(MarkBindings(e, ts, "cleaned")) /\ Suits(SetExtension(e, "cleaned"))
    BY <2>1, TableStatementsSuit
  <2>3. ASSUME NEW t \in Paths,
               Call(c, <<IF e \in Configured THEN SetInstallations(e, {t}, "cleaned")
                                             ELSE SetTargets(e, {t}, "cleaned"),
                         MarkBindings(e, {t}, "cleaned")>>)
        PROVE  \E q : Call(c, q) /\ Opening(q)
    <3>1. CASE e \in Configured
      BY <1>1, <2>1, <2>2, <2>3, <3>1
    <3>2. CASE e \notin Configured
      BY <1>1, <2>1, <2>2, <2>3, <3>2
    <3> QED
      BY <3>1, <3>2
  <2>4. CASE Call(c, <<SetExtension(e, "cleaned"), MarkBindings(e, Keys, "cleaned")>>)
    BY <1>1, <2>1, <2>2, <2>4
  <2> QED
    BY <1>2, <2>3, <2>4 DEF MarkCleaned
<1>3. ASSUME NEW hints \in (SUBSET Hints) \ {{}}, ApplyHints(c, e, hints)
      PROVE  \E q : Call(c, q) /\ Opening(q)
  <2>1. Strongest(hints) \in Statuses
    <3>1. \A h \in Hints : Precedence[h] \in 1..5
      BY DEF Precedence, Hints
    <3>2. \E h \in hints : \A g \in hints : Precedence[h] <= Precedence[g]
      <4>1. \E n \in 1..5 : \E h \in hints : Precedence[h] = n
        <5>1. PICK h \in hints : TRUE
          OBVIOUS
        <5>2. h \in Hints
          OBVIOUS
        <5> QED
          BY <3>1, <5>1, <5>2
      <4>2. PICK n \in 1..5 : /\ \E h \in hints : Precedence[h] = n
                              /\ \A m \in 1..5 : (\E h \in hints : Precedence[h] = m) => n <= m
        <5> DEFINE P(n) == \E h \in hints : Precedence[h] = n
        <5>1. \E n \in 1..5 : P(n)
          BY <4>1
        <5> HIDE DEF P
        <5>2. \E n \in 1..5 : P(n) /\ \A m \in 1..5 : P(m) => n <= m
          <6>1. P(1) \/ P(2) \/ P(3) \/ P(4) \/ P(5)
            BY <5>1
          <6> QED
            BY <6>1
        <5> QED
          BY <5>2 DEF P
      <4> QED
        BY <3>1, <4>2
    <3>3. Strongest(hints) \in hints
      BY <3>2 DEF Strongest
    <3> QED
      BY <3>3 DEF Statuses
  <2> DEFINE s == Strongest(hints)
             a == SetExtension(e, s)
             b == SetTargets(e, Paths, s)
             d == SetInstallations(e, Paths, s)
             m == MarkBindings(e, Keys, s)
  <2>2. Suits(a) /\ Suits(b) /\ Suits(d) /\ Suits(m)
    BY <2>1, TableStatementsSuit
  <2>3. Call(c, <<a, b, d, m>>)
    BY <1>3 DEF ApplyHints
  <2> HIDE DEF a, b, d, m
  <2>4. PlainQueue(<<a, b, d, m>>)
    BY <2>2, ShortQueues DEF PlainQueue
  <2> QED
    BY <2>3, <2>4 DEF Opening
<1> QED
  BY <1>2, <1>3

\* There are finitely many places for bindings.
LEMMA FinitePlaces == IsFiniteSet(Places) /\ IsFiniteSet(Extensions \cup AgentFiles)
<1>1. IsFiniteSet(Resources)
  BY LifecycleAssumption DEF Resources
<1>2. IsFiniteSet(Kits) /\ IsFiniteSet(Paths)
  BY <1>1, FS_Subset DEF Resources
<1>3. IsFiniteSet(Paths \cup {Legacy})
  BY <1>2, FS_AddElement
<1>4. IsFiniteSet(Kits \X Paths)
  BY <1>2, FS_Product
<1>5. IsFiniteSet(Keys)
  BY <1>3, <1>4, FS_Union DEF Keys
<1>6. IsFiniteSet(Places)
  BY <1>1, <1>5, FS_Product DEF Places
<1>7. Extensions \cup AgentFiles \subseteq Resources
  BY DEF Resources
<1> QED
  BY <1>1, <1>6, <1>7, FS_Subset

\* A place is its resource and its key.
LEMMA PlacePair ==
    /\ \A b \in Places : b[1] \in Resources /\ b[2] \in Keys /\ b = <<b[1], b[2]>>
    /\ \A r \in Resources, key \in Keys : <<r, key>> \in Places
BY DEF Places

\* What the removal of a project begins with.
LEMMA RemovalsOpen ==
    ASSUME NEW c \in Calls, NEW p \in Projects, RemoveProject(c, p)
    PROVE  \E q : Call(c, q) /\ Opening(q)
<1> DEFINE yes == <<PutPlan(p, "planned"), DeleteProject(p), Announce("removed")>>
           no == <<PutPlan(p, "blocked"), PutRecord("blocked"), Announce("blocked")>>
<1>1. Opening(yes) /\ Opening(no)
  BY DEF Opening, PutRow
<1>2. Call(c, yes) \/ Call(c, no)
  BY DEF RemoveProject
<1> HIDE DEF yes, no
<1> QED
  BY <1>1, <1>2

\* What a deletion of the inventory, a check of a path or an audit of everything begins with.
LEMMA ChecksOpen ==
    ASSUME GraphOK, NEW c \in Calls,
           \/ DeleteAgentInventory(c)
           \/ \E b \in Places : CheckResourcePath(c, b)
           \/ RunStaticAudit(c)
    PROVE  \E q : Call(c, q) /\ Opening(q)
<1>0. "scanned" \in Statuses
  BY DEF Statuses
<1>1. CASE DeleteAgentInventory(c)
  <2> DEFINE found == {r \in Resources : graph.resource[r] # None /\ graph.resource[r].origin = "agent"}
  <2>1. found \subseteq AgentFiles
    BY DEF GraphOK, OwnAgents
  <2>2. found # {} /\ Call(c, <<Forget("forgetFiles", found), Forget("forgetBindings", found),
                               Forget("forgetResources", found)>>)
    BY <1>1 DEF DeleteAgentInventory
  <2>3. PICK r \in Resources : TRUE
    BY <2>2
  <2>4. \A table \in Forgets, rs \in SUBSET AgentFiles : Suits(Forget(table, rs))
    BY <1>0, <2>3, GraphStatementsSuit
  <2> HIDE DEF found
  <2>5. Suits(Forget("forgetFiles", found)) /\ Suits(Forget("forgetBindings", found))
        /\ Suits(Forget("forgetResources", found))
    BY <2>1, <2>4 DEF Forgets
  <2>6. PlainQueue(<<Forget("forgetFiles", found), Forget("forgetBindings", found),
                     Forget("forgetResources", found)>>)
    BY <2>5, ShortQueues DEF PlainQueue
  <2> QED
    BY <2>2, <2>6 DEF Opening
<1>2. ASSUME NEW b \in Places, CheckResourcePath(c, b) PROVE \E q : Call(c, q) /\ Opening(q)
  <2>1. Suits(Check(b[1], b[2]))
    BY <1>0, PlacePair, GraphStatementsSuit
  <2>2. PlainQueue(<<Check(b[1], b[2])>>)
    BY <2>1, ShortQueues DEF PlainQueue
  <2> QED
    BY <1>2, <2>2 DEF CheckResourcePath, Opening
<1>3. CASE RunStaticAudit(c)
  <2> DEFINE S == {b \in Places : graph.binding[b] # None}
             rows == InSomeOrder(S)
             f == [b \in S |-> Audit(b[1], b[2])]
             q == [i \in DOMAIN rows |-> f[rows[i]]]
  <2>1. IsFiniteSet(S)
    BY FinitePlaces, FS_Subset
  <2>2. Call(c, [i \in DOMAIN rows |-> Audit(rows[i][1], rows[i][2])])
    BY <1>3 DEF RunStaticAudit
  <2>3. \A i \in DOMAIN rows : rows[i] \in S
    <3> HIDE DEF S
    <3> QED
      BY <2>1, InSomeOrderLists DEF Lists
  <2>4. Call(c, q)
    <3>1. \A i \in DOMAIN rows : f[rows[i]] = Audit(rows[i][1], rows[i][2])
      BY <2>3
    <3>2. q = [i \in DOMAIN rows |-> Audit(rows[i][1], rows[i][2])]
      BY <3>1
    <3> QED
      BY <2>2, <3>2
  <2>5. \A b \in S : Suits(f[b])
    BY <1>0, PlacePair, GraphStatementsSuit
  <2>6. IsQueue(q) /\ ToSet(q) = {f[b] : b \in S}
    <3> HIDE DEF f, S
    <3> QED
      BY <2>1, QueueOfEach
  <2> HIDE DEF q, f, S
  <2>7. PlainQueue(q)
    BY <2>5, <2>6 DEF PlainQueue
  <2> QED
    BY <2>4, <2>7 DEF Opening
<1> QED
  BY <1>1, <1>2, <1>3

\* What a call begins with is of its type, whatever removal came before.
LEMMA OpeningFits ==
    ASSUME NEW q, Opening(q)
    PROVE  AllFit(q) /\ \A row : RemovalQueue(q, row)
<1>1. CASE PlainQueue(q)
  BY <1>1 DEF PlainQueue, Suits, AllFit, RemovalQueue
<1>2. ASSUME NEW p \in Projects, q \in PutRow(p)
      PROVE  AllFit(q) /\ \A row : RemovalQueue(q, row)
  <2>1. \A s : Fits(PutPlan(p, s)) /\ Fits(DeleteProject(p)) /\ Fits(Announce(s)) /\ Fits(PutRecord(s))
    BY DEF Fits, PutPlan, DeleteProject, Announce, PutRecord, Marks, Forgets
  <2>2. AllFit(q)
    <3>1. CASE q = <<PutPlan(p, "planned"), DeleteProject(p), Announce("removed")>>
      BY <2>1, <3>1, ShortQueues DEF AllFit
    <3>2. CASE q = <<PutPlan(p, "blocked"), PutRecord("blocked"), Announce("blocked")>>
      BY <2>1, <3>2, ShortQueues DEF AllFit
    <3> QED
      BY <1>2, <3>1, <3>2 DEF PutRow
  <2> QED
    BY <1>2, <2>2 DEF RemovalQueue
<1> QED
  BY <1>1, <1>2 DEF Opening

\* A call of the repository begins with statements of their type.
LEMMA StartCallTypes ==
    ASSUME TablesOK, GraphOK, DiskOK, TodoOK, RemovalOK, NEW c \in Calls, StartCall(c)
    PROVE  /\ TablesOK' /\ GraphOK' /\ DiskOK' /\ TodoOK' /\ RemovalOK'
           /\ graph' = graph /\ \A d \in Calls : d # c => todo'[d] = todo[d]
<1>1. \E q : Call(c, q) /\ Opening(q)
  BY RecordersOpen, ScansOpen, MarksOpen, RemovalsOpen, ChecksOpen DEF StartCall
<1>2. PICK q : Call(c, q) /\ Opening(q)
  BY <1>1
<1>3. /\ todo' = [todo EXCEPT ![c] = q] /\ made' = made + 1
      /\ UNCHANGED <<tables, graph, disk, removal>>
  BY <1>2 DEF Call
<1>4. AllFit(q) /\ \A row : RemovalQueue(q, row)
  BY <1>2, OpeningFits
<1>5. TodoOK' /\ todo'[c] = q /\ \A d \in Calls : d # c => todo'[d] = todo[d]
  BY <1>3, <1>4, TodoReplaced
<1>6. DiskOK'
  BY <1>3, LifecycleAssumption DEF DiskOK, StartCall
<1>7. RemovalOK'
  <2>1. \A d \in Calls : RowOK(removal[d]) /\ RemovalQueue(todo'[d], removal[d])
    BY <1>4, <1>5 DEF RemovalOK
  <2>2. \A d \in Calls : RowOK(removal[d])' /\ RemovalQueue(todo'[d], removal'[d])
    BY <1>3, <2>1
  <2>3. removal' = [d \in Calls |-> removal'[d]]
    BY <1>3 DEF RemovalOK
  <2> QED
    BY <2>2, <2>3 DEF RemovalOK, RowOK, Is, Truthful, RemovalQueue, Stage
<1>8. TablesOK' /\ GraphOK'
  BY <1>3 DEF TablesOK, GraphOK, OwnAgents
<1> QED
  BY <1>3, <1>5, <1>6, <1>7, <1>8

------------------------------------------------------------------------------
(* The statements on the older tables                                      *)

\* The statement a call is at, and what it leaves to be done.
LEMMA AtHead ==
    ASSUME TodoOK, RemovalOK, NEW c \in Calls, ~Idle(c)
    PROVE  /\ Fits(Head(todo[c])) /\ AllFit(Tail(todo[c]))
           /\ ToSet(todo[c]) = {Head(todo[c])} \cup ToSet(Tail(todo[c]))
           /\ Head(todo[c]).do \notin RemovalVerbs => PlainQueue(Tail(todo[c]))
<1> DEFINE q == todo[c]
<1>1. AllFit(q) /\ q # <<>> /\ IsQueue(q)
  BY DEF TodoOK, AllFit, Idle
<1> HIDE DEF q
<1>2. ToSet(q) = {Head(q)} \cup ToSet(Tail(q)) /\ IsQueue(Tail(q))
  BY <1>1, HeadAndTail
<1>3. Fits(Head(q)) /\ AllFit(Tail(q))
  BY <1>1, <1>2 DEF AllFit
<1>4. RemovalQueue(q, removal[c])
  BY DEF RemovalOK, q
<1>5. ASSUME Head(q).do \notin RemovalVerbs PROVE \A s \in ToSet(q) : s.do \notin RemovalVerbs
  <2>1. ASSUME NEW p \in Projects, q \in PutRow(p) PROVE FALSE
    <3>1. Head(q).do = "plan"
      BY <2>1 DEF PutRow, PutPlan
    <3> QED
      BY <1>5, <3>1 DEF RemovalVerbs
  <2>2. ASSUME NEW p \in Projects, Stage(q, removal[c], p) PROVE FALSE
    <3>1. Head(q).do \in {"deleteProject", "write", "event", "record", "replan"}
      BY <2>2 DEF Stage, DeleteProject, WriteRemoval, Announce, PutRecord, UpdatePlan
    <3> QED
      BY <1>5, <3>1 DEF RemovalVerbs
  <2> QED
    BY <1>4, <2>1, <2>2 DEF RemovalQueue
<1>6. Head(q).do \notin RemovalVerbs => PlainQueue(Tail(q))
  BY <1>2, <1>3, <1>5 DEF PlainQueue, Suits, AllFit
<1> QED
  BY <1>2, <1>3, <1>6 DEF q

\* A statement that is none of a removal is done, and others take its place.
LEMMA PlainRun ==
    ASSUME TodoOK, RemovalOK, NEW c \in Calls, ~Idle(c), Head(todo[c]).do \notin RemovalVerbs,
           NEW q, PlainQueue(q), todo' = Then(c, q), removal' = removal
    PROVE  /\ TodoOK' /\ RemovalOK'
           /\ \A d \in Calls : d # c => todo'[d] = todo[d]
           /\ ToSet(todo'[c]) = ToSet(q) \cup ToSet(Tail(todo[c]))
<1> DEFINE z == q \o Tail(todo[c])
<1>1. PlainQueue(Tail(todo[c]))
  BY AtHead
<1>2. PlainQueue(z) /\ ToSet(z) = ToSet(q) \cup ToSet(Tail(todo[c]))
  BY <1>1, PlainJoined, Joined DEF PlainQueue
<1>3. todo' = [todo EXCEPT ![c] = z]
  BY DEF Then
<1> HIDE DEF z
<1>4. AllFit(z)
  BY <1>2 DEF PlainQueue, AllFit, Suits
<1> QED
  BY <1>2, <1>3, <1>4, TodoReplaced, RemovalUntouched

\* A call goes on with the rest of its statements.
LEMMA PlainRest ==
    ASSUME TodoOK, RemovalOK, NEW c \in Calls, ~Idle(c), Head(todo[c]).do \notin RemovalVerbs,
           todo' = Rest(c), removal' = removal
    PROVE  /\ TodoOK' /\ RemovalOK'
           /\ \A d \in Calls : d # c => todo'[d] = todo[d]
           /\ todo'[c] = Tail(todo[c])
<1> DEFINE z == Tail(todo[c])
<1>1. PlainQueue(z)
  BY AtHead
<1>2. todo' = [todo EXCEPT ![c] = z]
  BY DEF Rest
<1> HIDE DEF z
<1>3. AllFit(z)
  BY <1>1 DEF PlainQueue, AllFit, Suits
<1>4. /\ TodoOK' /\ RemovalOK' /\ todo'[c] = z
      /\ \A d \in Calls : d # c => todo'[d] = todo[d]
  BY <1>1, <1>2, <1>3, TodoReplaced, RemovalUntouched
<1> QED
  BY <1>4 DEF z

\* The statements on the older tables.
LEMMA TableStatements ==
    ASSUME TablesOK, NEW c \in Calls, NEW s, Fits(s),
           \/ ExecExtension(c, s) \/ ExecTarget(c, s) \/ ExecProject(c, s) \/ ExecTool(c, s)
           \/ ExecSetExtension(c, s) \/ ExecSetTargets(c, s) \/ ExecSetInstallations(c, s)
    PROVE  /\ TablesOK' /\ todo' = Rest(c) /\ UNCHANGED <<graph, removal>>
           /\ s.do \notin RemovalVerbs
<1>1. CASE ExecExtension(c, s)
  <2>1. s.do = "extension" /\ s.id \in Extensions /\ s.cached \in BOOLEAN /\ s.status \in Statuses
    BY <1>1 DEF ExecExtension, Fits
  <2>2. /\ tables' = [tables EXCEPT !.extension[s.id] = [cached |-> s.cached, status |-> s.status]]
        /\ todo' = Rest(c) /\ UNCHANGED <<graph, removal>>
    BY <1>1 DEF ExecExtension, SetTables
  <2> QED
    BY <2>1, <2>2 DEF TablesOK, RemovalVerbs
<1>2. CASE ExecTarget(c, s)
  <2>1. /\ s.do \in {"target", "installation"} /\ s.key \in Paths /\ s.status \in Statuses
        /\ s.do = "target" => s.id \in Extensions
        /\ s.do = "installation" => s.id \in Configured
    BY <1>2 DEF ExecTarget, Fits
  <2>2. tables' = [tables EXCEPT ![s.do][<<s.id, s.key>>] = s.status]
        /\ todo' = Rest(c) /\ UNCHANGED <<graph, removal>>
    BY <1>2 DEF ExecTarget, SetTables
  <2>3. CASE s.do = "target"
    <3> DEFINE rows == [tables.target EXCEPT ![<<s.id, s.key>>] = s.status]
    <3>1. tables' = [tables EXCEPT !.target = rows]
      BY <2>2, <2>3
    <3>2. rows \in [Extensions \X Paths -> Statuses \cup {None}]
      BY <2>1, <2>3 DEF TablesOK
    <3> HIDE DEF rows
    <3> QED
      BY <2>2, <2>3, <3>1, <3>2 DEF TablesOK, RemovalVerbs
  <2>4. CASE s.do = "installation"
    <3> DEFINE rows == [tables.installation EXCEPT ![<<s.id, s.key>>] = s.status]
    <3>1. tables' = [tables EXCEPT !.installation = rows]
      BY <2>2, <2>4
    <3>2. rows \in [Configured \X Paths -> Statuses \cup {None}]
      BY <2>1, <2>4 DEF TablesOK
    <3> HIDE DEF rows
    <3> QED
      BY <2>2, <2>4, <3>1, <3>2 DEF TablesOK, RemovalVerbs
  <2> QED
    BY <2>1, <2>3, <2>4
<1>3. CASE ExecProject(c, s)
  <2>1. s.do = "project" /\ s.id \in Projects /\ s.key \in Paths
    BY <1>3 DEF ExecProject, Fits
  <2>2. tables' = [tables EXCEPT !.project[s.id] = s.key] /\ todo' = Rest(c) /\ UNCHANGED <<graph, removal>>
    BY <1>3 DEF ExecProject, SetTables
  <2> QED
    BY <2>1, <2>2 DEF TablesOK, RemovalVerbs
<1>4. CASE ExecTool(c, s)
  <2>1. s.do = "tool" /\ s.id \in Kits /\ s.key \in Paths /\ s.manifest \in Manifest
    BY <1>4 DEF ExecTool, Fits
  <2>2. /\ tables' = [tables EXCEPT !.tool[s.id] = [at |-> s.key, manifest |-> s.manifest]]
        /\ todo' = Rest(c) /\ UNCHANGED <<graph, removal>>
    BY <1>4 DEF ExecTool, SetTables
  <2> QED
    BY <2>1, <2>2 DEF TablesOK, RemovalVerbs
<1>5. CASE ExecSetExtension(c, s)
  <2>1. s.do = "setExtension" /\ s.id \in Extensions /\ s.status \in Statuses
    BY <1>5 DEF ExecSetExtension, Fits
  <2>2. /\ tables' = IF tables.extension[s.id] = None THEN tables
                     ELSE [tables EXCEPT !.extension[s.id].status = s.status]
        /\ todo' = Rest(c) /\ UNCHANGED <<graph, removal>>
    BY <1>5 DEF ExecSetExtension, SetTables
  <2>3. CASE tables.extension[s.id] # None
    <3> DEFINE row == [tables.extension[s.id] EXCEPT !.status = s.status]
    <3>1. row \in [cached : BOOLEAN, status : Statuses]
      <4>1. tables.extension[s.id] \in [cached : BOOLEAN, status : Statuses]
        BY <2>1, <2>3 DEF TablesOK
      <4> QED
        BY <2>1, <4>1
    <3>2. tables' = [tables EXCEPT !.extension[s.id] = row]
      BY <2>2, <2>3
    <3> HIDE DEF row
    <3> QED
      BY <2>1, <2>2, <3>1, <3>2 DEF TablesOK, RemovalVerbs
  <2> QED
    BY <2>1, <2>2, <2>3 DEF TablesOK, RemovalVerbs
<1>6. ASSUME NEW V, NEW table \in [V -> Statuses \cup {None}], s.status \in Statuses
      PROVE  Updated(table, s) \in [V -> Statuses \cup {None}]
  BY <1>6 DEF Updated
<1>7. CASE ExecSetTargets(c, s)
  <2>1. s.do = "setTargets" /\ s.status \in Statuses
    BY <1>7 DEF ExecSetTargets, Fits, Marks
  <2>2. /\ tables' = [tables EXCEPT !.target = Updated(tables.target, s)]
        /\ todo' = Rest(c) /\ UNCHANGED <<graph, removal>>
    BY <1>7 DEF ExecSetTargets, SetTables
  <2>3. Updated(tables.target, s) \in [Extensions \X Paths -> Statuses \cup {None}]
    BY <1>6, <2>1 DEF TablesOK
  <2> QED
    BY <2>1, <2>2, <2>3 DEF TablesOK, RemovalVerbs
<1>8. CASE ExecSetInstallations(c, s)
  <2>1. s.do = "setInstallations" /\ s.status \in Statuses
    BY <1>8 DEF ExecSetInstallations, Fits, Marks
  <2>2. /\ tables' = [tables EXCEPT !.installation = Updated(tables.installation, s)]
        /\ todo' = Rest(c) /\ UNCHANGED <<graph, removal>>
    BY <1>8 DEF ExecSetInstallations, SetTables
  <2>3. Updated(tables.installation, s) \in [Configured \X Paths -> Statuses \cup {None}]
    BY <1>6, <2>1 DEF TablesOK
  <2> QED
    BY <2>1, <2>2, <2>3 DEF TablesOK, RemovalVerbs
<1> QED
  BY <1>1, <1>2, <1>3, <1>4, <1>5, <1>7, <1>8

------------------------------------------------------------------------------
(* The statements on the graph                                             *)

\* What may replace the graph: rows of their type, and no project or binding
\* of an extension is gone.
Kept(g, h) ==
    /\ \A p \in Projects : g.resource[p] # None => h.resource[p] # None
    /\ \A b \in Extensions \X Keys : g.binding[b] # None => h.binding[b] # None

\* A graph that is of its type and has lost no project and no extension's binding.
Good(g) == g \in Graphs /\ OwnAgents(g) /\ Kept(graph, g)

\* A row is not the absence of one.
LEMMA RowsAreThere ==
    /\ \A row \in ResourceRow : row # None
    /\ \A row \in BindingRow : row # None
    /\ \A row \in RemovalRow : row # None
    /\ \A k \in Kits, t \in Paths : <<k, t>> # None
BY RowAssumption

\* The tables of a graph.
LEMMA GraphFields ==
    ASSUME NEW g \in Graphs
    PROVE  /\ g.resource \in [Resources -> ResourceRow \cup {None}]
           /\ g.binding \in [Places -> BindingRow \cup {None}]
           /\ g.file \in [Places -> FileRow \cup {None}]
           /\ g.finding \in [Places -> {"SAFE", "SECURITY_RISK", None}]
BY DEF Graphs

\* A resource is written.
LEMMA ResourcePut ==
    ASSUME GraphOK, NEW r \in Resources, NEW row \in ResourceRow, row.origin = "agent" => r \in AgentFiles
    PROVE  Good([graph EXCEPT !.resource[r] = row])
<1> DEFINE rows == [graph.resource EXCEPT ![r] = row]
           g == [graph EXCEPT !.resource = rows]
<1>1. graph \in Graphs /\ OwnAgents(graph) /\ graph.resource \in [Resources -> ResourceRow \cup {None}]
  BY GraphFields DEF GraphOK
<1>2. rows \in [Resources -> ResourceRow \cup {None}] /\ rows[r] = row
      /\ \A x \in Resources : x # r => rows[x] = graph.resource[x]
  BY <1>1
<1>3. row # None
  BY RowsAreThere
<1> HIDE DEF rows
<1>4. g \in Graphs /\ g.resource = rows /\ g.binding = graph.binding
  BY <1>1, <1>2 DEF Graphs
<1> HIDE DEF g
<1>5. OwnAgents(g)
  BY <1>1, <1>2, <1>4 DEF OwnAgents
<1>6. Kept(graph, g)
  BY <1>2, <1>3, <1>4 DEF Kept, Resources
<1>7. Good(g)
  BY <1>4, <1>5, <1>6 DEF Good
<1>8. g = [graph EXCEPT !.resource[r] = row]
  BY <1>1 DEF g, rows, Graphs
<1> QED
  BY <1>7, <1>8

\* The bindings are written, none of an extension's is lost.
LEMMA BindingsPut ==
    ASSUME GraphOK, NEW f \in [Places -> BindingRow \cup {None}],
           \A b \in Extensions \X Keys : graph.binding[b] # None => f[b] # None
    PROVE  Good([graph EXCEPT !.binding = f])
<1> DEFINE g == [graph EXCEPT !.binding = f]
<1>1. graph \in Graphs /\ OwnAgents(graph)
  BY DEF GraphOK
<1>2. g \in Graphs /\ g.resource = graph.resource /\ g.binding = f
  BY <1>1 DEF Graphs
<1> HIDE DEF g
<1>3. OwnAgents(g)
  BY <1>1, <1>2 DEF OwnAgents
<1>4. Kept(graph, g)
  BY <1>2 DEF Kept
<1>5. Good(g)
  BY <1>2, <1>3, <1>4 DEF Good
<1> QED
  BY <1>5 DEF g

\* One binding is written.
LEMMA BindingPut ==
    ASSUME GraphOK, NEW b \in Places, NEW row \in BindingRow
    PROVE  Good([graph EXCEPT !.binding[b] = row])
<1> DEFINE f == [graph.binding EXCEPT ![b] = row]
<1>1. graph.binding \in [Places -> BindingRow \cup {None}]
  BY GraphFields DEF GraphOK
<1>2. f \in [Places -> BindingRow \cup {None}] /\ f[b] = row
      /\ \A x \in Places : x # b => f[x] = graph.binding[x]
  BY <1>1
<1>3. row # None /\ Extensions \X Keys \subseteq Places
  BY RowsAreThere DEF Places, Resources
<1> HIDE DEF f
<1>4. Good([graph EXCEPT !.binding = f])
  BY <1>2, <1>3, BindingsPut
<1>5. [graph EXCEPT !.binding = f] = [graph EXCEPT !.binding[b] = row]
  BY DEF f
<1> QED
  BY <1>4, <1>5

\* The files are written.
LEMMA FilesPut ==
    ASSUME GraphOK, NEW f \in [Places -> FileRow \cup {None}]
    PROVE  Good([graph EXCEPT !.file = f])
<1> DEFINE g == [graph EXCEPT !.file = f]
<1>1. graph \in Graphs /\ OwnAgents(graph)
  BY DEF GraphOK
<1>2. g \in Graphs /\ g.resource = graph.resource /\ g.binding = graph.binding
  BY <1>1 DEF Graphs
<1> HIDE DEF g
<1>3. Good(g)
  BY <1>1, <1>2 DEF Good, OwnAgents, Kept
<1> QED
  BY <1>3 DEF g

\* One file is written.
LEMMA FilePut ==
    ASSUME GraphOK, NEW b \in Places, NEW row \in FileRow \cup {None}
    PROVE  Good([graph EXCEPT !.file[b] = row])
<1> DEFINE f == [graph.file EXCEPT ![b] = row]
<1>1. graph.file \in [Places -> FileRow \cup {None}]
  BY GraphFields DEF GraphOK
<1>2. f \in [Places -> FileRow \cup {None}]
  BY <1>1
<1> HIDE DEF f
<1>3. Good([graph EXCEPT !.file = f])
  BY <1>2, FilesPut
<1>4. [graph EXCEPT !.file = f] = [graph EXCEPT !.file[b] = row]
  BY DEF f
<1> QED
  BY <1>3, <1>4

\* Nothing is written.
LEMMA GraphKept == GraphOK => Good(graph)
BY DEF GraphOK, Good, Kept

\* What recordResourceGraph writes.
LEMMA ResourceTyped ==
    ASSUME NEW origin \in {"install", "scan", "agent", "legacy", "kit"}, NEW s, NEW m \in Manifest
    PROVE  Resource(origin, s, m) \in ResourceRow /\ Resource(origin, s, m).origin = origin
           /\ Resource(origin, s, m).manifest = m
BY DEF Resource, ResourceRow, AuditOf, Manifest

\* What createBinding makes.
LEMMA BindingTyped ==
    ASSUME NEW s \in Statuses, NEW k \in Kits \cup {None}, NEW p \in Projects \cup {None}
    PROVE  /\ Binding(s, None, p) \in BindingRow
           /\ \A path \in {"UNKNOWN", "OK", "MISSING"}, drift \in BOOLEAN, hash \in Hash :
                [Binding(s, None, p) EXCEPT !.path = path, !.drift = drift, !.hash = hash] \in BindingRow
           /\ \A meta \in (Kits \X Paths) \cup {None}, path \in {"UNKNOWN", "OK", "MISSING"} :
                [Binding(s, k, p) EXCEPT !.meta = meta, !.path = path] \in BindingRow
<1>1. AuditOf(s) \in {"SECURITY_RISK", "NOT_AUDITED"}
  BY DEF AuditOf
<1>2. None \in Hash
  BY DEF Hash
<1> DEFINE W == [status : Statuses, audit : {"SECURITY_RISK", "NOT_AUDITED", "SAFE"},
                 path : {"UNKNOWN", "OK", "MISSING"}, drift : BOOLEAN, hash : Hash,
                 kit : Kits \cup {None}, meta : Kits \cup {None}, project : Projects \cup {None}]
<1>3. Binding(s, None, p) \in BindingRow /\ Binding(s, k, p) \in W
  BY <1>1, <1>2 DEF Binding, BindingRow
<1>4. ASSUME NEW row \in BindingRow, NEW path \in {"UNKNOWN", "OK", "MISSING"},
             NEW drift \in BOOLEAN, NEW hash \in Hash
      PROVE  [row EXCEPT !.path = path, !.drift = drift, !.hash = hash] \in BindingRow
  BY <1>4 DEF BindingRow
<1>5. ASSUME NEW row \in W, NEW meta \in (Kits \X Paths) \cup {None},
             NEW path \in {"UNKNOWN", "OK", "MISSING"}
      PROVE  [row EXCEPT !.meta = meta, !.path = path] \in BindingRow
  BY <1>5 DEF BindingRow
<1> HIDE DEF W
<1> QED
  BY <1>3, <1>4, <1>5

\* A file behind a binding: the hashes are of what the disk holds.
LEMMA FilesTyped ==
    ASSUME GraphOK, DiskOK, NEW b \in Places, OnDisk(b[2])
    PROVE  ScannedFile(b) \in FileRow /\ CheckedFile(b) \in FileRow
           /\ disk[PathOf(b[2])] \in Hash
<1>1. disk[PathOf(b[2])] \in Hash
  BY DEF DiskOK, OnDisk
<1>2. graph.file[b] \in FileRow \cup {None}
  BY GraphFields DEF GraphOK
<1>3. ScannedFile(b) \in FileRow
  BY <1>1, <1>2 DEF ScannedFile, FileRow
<1>4. CheckedFile(b) \in FileRow
  BY <1>1, <1>2 DEF CheckedFile, FileRow
<1> QED
  BY <1>1, <1>3, <1>4

\* What a statement on the graph leaves: a good graph, and statements of
\* their type in its place.
LEMMA PutStatements ==
    ASSUME GraphOK, DiskOK, NEW c \in Calls, NEW s, Fits(s),
           ExecResource(c, s) \/ ExecKnown(c, s) \/ ExecBinding(c, s) \/ ExecFile(c, s)
    PROVE  /\ Good(graph') /\ UNCHANGED <<tables, removal>> /\ s.do \notin RemovalVerbs
           /\ todo' = Rest(c) \/ \E q : PlainQueue(q) /\ todo' = Then(c, q)
<1>0. PlainQueue(<<>>)
  BY ShortQueues DEF PlainQueue
<1>1. CASE ExecResource(c, s)
  <2>1. /\ s.do = "resource" /\ s.id \in Resources /\ s.manifest \in Manifest
        /\ s.origin \in {"install", "scan", "agent", "legacy", "kit"}
        /\ s.origin = "agent" => s.id \in AgentFiles
    BY <1>1 DEF ExecResource, Fits
  <2> DEFINE row == Resource(s.origin, s.status, s.manifest)
  <2>2. /\ graph' = [graph EXCEPT !.resource[s.id] = row]
        /\ todo' = Rest(c) /\ UNCHANGED <<tables, removal>>
    BY <1>1 DEF ExecResource, SetGraph
  <2>3. row \in ResourceRow /\ row.origin = s.origin
    BY <2>1, ResourceTyped
  <2> HIDE DEF row
  <2>4. Good(graph')
    BY <2>1, <2>2, <2>3, ResourcePut
  <2> QED
    BY <2>1, <2>2, <2>4 DEF RemovalVerbs
<1>2. CASE ExecKnown(c, s)
  <2>1. s.do = "known" /\ s.id \in Extensions /\ s.key \in Paths /\ s.status \in Statuses
    BY <1>2 DEF ExecKnown, Fits
  <2> DEFINE g == Graph(s.id, "scan", s.key, s.status, None, None)
  <2>2. /\ graph' = graph /\ UNCHANGED <<tables, removal>>
        /\ todo' = Then(c, IF graph.resource[s.id] = None THEN <<>> ELSE g)
    BY <1>2 DEF ExecKnown, SetGraph
  <2>3. PlainQueue(g)
    BY <2>1, GraphIsPlain DEF Resources, Manifest
  <2> HIDE DEF g
  <2>4. \E q : PlainQueue(q) /\ todo' = Then(c, q)
    <3>1. CASE graph.resource[s.id] = None
      BY <1>0, <2>2, <3>1
    <3>2. CASE graph.resource[s.id] # None
      BY <2>2, <2>3, <3>2
    <3> QED
      BY <3>1, <3>2
  <2> QED
    BY <2>1, <2>2, <2>4, GraphKept DEF RemovalVerbs
<1>3. CASE ExecBinding(c, s)
  <2> DEFINE b == <<s.id, s.key>>
             tracked == OnDisk(s.key) /\ s.tracked
             drifted == tracked /\ ScannedFile(b).drifted
             path == PathStatus(s.status, s.key)
             hash == IF drifted THEN disk[PathOf(s.key)] ELSE None
             row == [Binding(s.status, s.kit, s.project) EXCEPT !.path = path, !.drift = drifted, !.hash = hash]
  <2>1. /\ s.do = "binding" /\ s.id \in Resources /\ s.key \in Keys /\ s.status \in Statuses
        /\ s.kit = None /\ s.project \in Projects \cup {None} /\ s.tracked \in BOOLEAN
    BY <1>3 DEF ExecBinding, Fits
  <2>2. /\ graph' = [graph EXCEPT !.binding[b] = row] /\ UNCHANGED <<tables, removal>>
        /\ todo' = Then(c, IF tracked THEN <<PutFile(s.id, s.key, ScannedFile(b))>> ELSE <<>>)
    BY <1>3 DEF ExecBinding, SetGraph
  <2>3. b \in Places /\ b[2] = s.key
    BY <2>1 DEF Places
  <2> HIDE DEF b
  <2>4. tracked => ScannedFile(b) \in FileRow /\ disk[PathOf(s.key)] \in Hash
    BY <2>3, FilesTyped
  <2>5. /\ path \in {"UNKNOWN", "OK", "MISSING"} /\ drifted \in BOOLEAN /\ hash \in Hash
    BY <2>4 DEF PathStatus, Hash, FileRow
  <2>6. row \in BindingRow
    <3>1. row = [Binding(s.status, None, s.project) EXCEPT !.path = path, !.drift = drifted, !.hash = hash]
      BY <2>1
    <3>2. \A way \in {"UNKNOWN", "OK", "MISSING"}, drift \in BOOLEAN, known \in Hash :
            [Binding(s.status, None, s.project) EXCEPT !.path = way, !.drift = drift, !.hash = known]
              \in BindingRow
      <4>1. ASSUME NEW st \in Statuses, NEW p \in Projects \cup {None}
            PROVE  \A way \in {"UNKNOWN", "OK", "MISSING"}, drift \in BOOLEAN, known \in Hash :
                     [Binding(st, None, p) EXCEPT !.path = way, !.drift = drift, !.hash = known]
                       \in BindingRow
        BY <4>1, BindingTyped, Zenon
      <4> QED
        BY <2>1, <4>1, Zenon
    <3> HIDE DEF row, path, drifted, hash, tracked
    <3>3. [Binding(s.status, None, s.project) EXCEPT !.path = path, !.drift = drifted, !.hash = hash]
            \in BindingRow
      BY <2>5, <3>2, Zenon
    <3> QED
      BY <3>1, <3>3
  <2> HIDE DEF row
  <2>7. Good(graph')
    BY <2>2, <2>3, <2>6, BindingPut
  <2>8. tracked => PlainQueue(<<PutFile(s.id, s.key, ScannedFile(b))>>)
    <3>1. ASSUME tracked PROVE Suits(PutFile(s.id, s.key, ScannedFile(b)))
      BY <2>1, <2>4, <3>1, GraphStatementsSuit
    <3> QED
      BY <3>1, ShortQueues DEF PlainQueue
  <2>9. \E q : PlainQueue(q) /\ todo' = Then(c, q)
    <3> HIDE DEF tracked
    <3>1. CASE tracked
      BY <2>2, <2>8, <3>1
    <3>2. CASE ~tracked
      BY <1>0, <2>2, <3>2
    <3> QED
      BY <3>1, <3>2
  <2> QED
    BY <2>1, <2>2, <2>7, <2>9 DEF RemovalVerbs
<1>4. CASE ExecFile(c, s)
  <2>1. s.do = "file" /\ s.id \in Resources /\ s.key \in Keys /\ s.file \in FileRow
    BY <1>4 DEF ExecFile, Fits
  <2>2. /\ graph' = [graph EXCEPT !.file[<<s.id, s.key>>] = s.file]
        /\ todo' = Rest(c) /\ UNCHANGED <<tables, removal>>
    BY <1>4 DEF ExecFile, SetGraph
  <2>3. <<s.id, s.key>> \in Places
    BY <2>1, PlacePair
  <2>4. Good(graph')
    BY <2>1, <2>2, <2>3, FilePut
  <2> QED
    BY <2>1, <2>2, <2>4 DEF RemovalVerbs
<1> QED
  BY <1>1, <1>2, <1>3, <1>4

\* The statements that mark bindings and check paths.
LEMMA CheckStatements ==
    ASSUME GraphOK, DiskOK, NEW c \in Calls, NEW s, Fits(s),
           ExecMark(c, s) \/ ExecCheck(c, s) \/ ExecChecked(c, s)
    PROVE  /\ Good(graph') /\ UNCHANGED <<tables, removal>> /\ s.do \notin RemovalVerbs
           /\ todo' = Rest(c) \/ \E q : PlainQueue(q) /\ todo' = Then(c, q)
<1>0. graph.binding \in [Places -> BindingRow \cup {None}]
  BY GraphFields DEF GraphOK
<1>1. CASE ExecMark(c, s)
  <2> DEFINE f == [b \in Places |-> IF b \in BindingsAt(s.id, s.keys) THEN Marked(b, s.status)
                                    ELSE graph.binding[b]]
  <2>1. s.do = "mark" /\ s.status \in Statuses
    BY <1>1 DEF ExecMark, Fits, Marks
  <2>2. graph' = [graph EXCEPT !.binding = f] /\ todo' = Rest(c) /\ UNCHANGED <<tables, removal>>
    BY <1>1 DEF ExecMark, SetGraph
  <2>3. ASSUME NEW b \in Places, graph.binding[b] # None PROVE Marked(b, s.status) \in BindingRow
    <3>1. graph.binding[b] \in BindingRow
      BY <1>0, <2>3
    <3>2. AuditOf(s.status) \in {"SECURITY_RISK", "NOT_AUDITED"}
      BY DEF AuditOf
    <3> QED
      BY <2>1, <3>1, <3>2 DEF Marked, BindingRow
  <2>4. \A b \in BindingsAt(s.id, s.keys) : graph.binding[b] # None
    BY DEF BindingsAt
  <2>5. f \in [Places -> BindingRow \cup {None}]
    BY <1>0, <2>3, <2>4
  <2>6. \A b \in Extensions \X Keys : graph.binding[b] # None => f[b] # None
    <3>1. Extensions \X Keys \subseteq Places
      BY DEF Places, Resources
    <3> QED
      BY <2>3, <2>4, <3>1, RowsAreThere
  <2> HIDE DEF f
  <2>7. Good(graph')
    BY <2>2, <2>5, <2>6, BindingsPut
  <2> QED
    BY <2>1, <2>2, <2>7 DEF RemovalVerbs
<1>2. CASE ExecCheck(c, s)
  <2> DEFINE b == <<s.id, s.key>>
             file == IF OnDisk(s.key) THEN CheckedFile(b) ELSE None
             word == IF file = None THEN "MISSING" ELSE "OK"
  <2>1. s.do = "check" /\ s.id \in Resources /\ s.key \in Keys
    BY <1>2 DEF ExecCheck, Fits
  <2>2. /\ graph' = IF file = None THEN graph ELSE [graph EXCEPT !.file[b] = file]
        /\ todo' = Then(c, <<Checked(s.id, s.key, word, file)>>) /\ UNCHANGED <<tables, removal>>
    BY <1>2 DEF ExecCheck, SetGraph
  <2>3. b \in Places /\ b[2] = s.key
    BY <2>1 DEF Places
  <2>4. file \in FileRow \cup {None}
    <3> HIDE DEF b
    <3> QED
      BY <2>3, FilesTyped
  <2> HIDE DEF b, file
  <2>5. Good(graph')
    BY <2>2, <2>3, <2>4, FilePut, GraphKept
  <2>6. Suits(Checked(s.id, s.key, word, file))
    <3>1. word \in {"MISSING", "OK"} /\ "scanned" \in Statuses
      BY DEF Statuses
    <3> HIDE DEF word
    <3> QED
      BY <2>1, <2>4, <3>1, GraphStatementsSuit
  <2> HIDE DEF word
  <2>7. PlainQueue(<<Checked(s.id, s.key, word, file)>>)
    BY <2>6, ShortQueues DEF PlainQueue
  <2> QED
    BY <2>1, <2>2, <2>5, <2>7 DEF RemovalVerbs
<1>3. CASE ExecChecked(c, s)
  <2> DEFINE b == <<s.id, s.key>>
             old == graph.binding[b]
             new == IF s.file = None THEN [old EXCEPT !.path = s.path]
                    ELSE [old EXCEPT !.path = s.path, !.hash = s.file.current, !.drift = s.file.drifted]
  <2>1. /\ s.do = "checked" /\ s.id \in Resources /\ s.key \in Keys
        /\ s.path \in {"MISSING", "OK"} /\ s.file \in FileRow \cup {None}
    BY <1>3 DEF ExecChecked, Fits
  <2>2. b \in Places
    BY <2>1, PlacePair
  <2>3. /\ todo' = Rest(c) /\ UNCHANGED <<tables, removal>>
        /\ graph' = [graph EXCEPT !.binding[b] = IF old = None THEN None ELSE new]
    BY <1>3, <1>0, <2>2 DEF ExecChecked, SetGraph, GraphOK, Graphs
  <2> HIDE DEF b
  <2>4. CASE old = None
    <3>1. graph' = graph
      BY <1>0, <2>2, <2>3, <2>4 DEF GraphOK, Graphs
    <3> QED
      BY <2>1, <2>3, <3>1, GraphKept DEF RemovalVerbs
  <2>5. CASE old # None
    <3>1. old \in BindingRow
      BY <1>0, <2>2, <2>5
    <3>2. new \in BindingRow
      <4> HIDE DEF old
      <4>1. s.file # None => s.file.current \in Hash /\ s.file.drifted \in BOOLEAN
        BY <2>1 DEF FileRow
      <4>2. [old EXCEPT !.path = s.path] \in BindingRow
        BY <2>1, <3>1 DEF BindingRow
      <4>3. s.file # None => [old EXCEPT !.path = s.path, !.hash = s.file.current,
                                         !.drift = s.file.drifted] \in BindingRow
        BY <2>1, <3>1, <4>1 DEF BindingRow
      <4> QED
        BY <4>2, <4>3
    <3> HIDE DEF new
    <3>3. graph' = [graph EXCEPT !.binding[b] = new]
      BY <2>3, <2>5
    <3> QED
      BY <2>1, <2>2, <2>3, <3>2, <3>3, BindingPut DEF RemovalVerbs
  <2> QED
    BY <2>4, <2>5
<1> QED
  BY <1>1, <1>2, <1>3

\* What the action properties say of one step.
AtomicStep ==
    \A p \in Projects : graph.resource[p] # None /\ graph'.resource[p] = None =>
          /\ tables'.project[p] = None
          /\ \A key \in Keys : graph'.binding[<<p, key>>] = None
          /\ \E c \in Calls : /\ removal'[c] # None
                              /\ removal'[c].project = p
                              /\ removal'[c].record = "success"

\* KitRemovalSparesOwn, as a step.
SparesStep ==
    \A b \in Extensions \X Keys :
          graph.binding[b] # None /\ graph'.binding[b] = None => graph.binding[b].meta # None

\* A step to a good graph loses nothing.
LEMMA GoodStep ==
    ASSUME Good(graph')
    PROVE  GraphOK' /\ AtomicStep /\ SparesStep
<1>1. GraphOK'
  BY DEF Good, GraphOK, OwnAgents
<1>2. AtomicStep /\ SparesStep
  BY DEF Good, Kept, AtomicStep, SparesStep
<1> QED
  BY <1>1, <1>2

\* An audit leaves a good graph.
LEMMA AuditedIsGood ==
    ASSUME GraphOK, NEW b \in Places, NEW verdict \in {"SAFE", "SECURITY_RISK"}
    PROVE  Good(Audited(b, verdict))
<1> DEFINE r == b[1]
           findings == [graph.finding EXCEPT ![b] = verdict]
           worst == IF \E o \in Places : o[1] = b[1] /\ findings[o] = "SECURITY_RISK"
                    THEN "SECURITY_RISK" ELSE "SAFE"
           resources == [graph.resource EXCEPT ![r] =
                            IF graph.resource[r] = None THEN None
                            ELSE [graph.resource[r] EXCEPT !.audit = worst]]
           bindings == [graph.binding EXCEPT ![b] =
                            IF graph.binding[b] = None THEN None
                            ELSE [graph.binding[b] EXCEPT !.audit = verdict]]
           g == [graph EXCEPT !.finding = findings, !.resource = resources, !.binding = bindings]
<1>1. /\ graph \in Graphs /\ OwnAgents(graph)
      /\ graph.resource \in [Resources -> ResourceRow \cup {None}]
      /\ graph.binding \in [Places -> BindingRow \cup {None}]
      /\ graph.finding \in [Places -> {"SAFE", "SECURITY_RISK", None}]
      /\ r \in Resources
  BY GraphFields, PlacePair DEF GraphOK
<1>2. Audited(b, verdict) = g
  BY <1>1 DEF Audited, Graphs
<1>3. findings \in [Places -> {"SAFE", "SECURITY_RISK", None}]
  BY <1>1
<1>4. worst \in {"SECURITY_RISK", "SAFE"}
  OBVIOUS
<1> HIDE DEF findings, worst, r
<1>5. graph.resource[r] # None => /\ [graph.resource[r] EXCEPT !.audit = worst] \in ResourceRow
                                  /\ [graph.resource[r] EXCEPT !.audit = worst].origin
                                       = graph.resource[r].origin
  <2>1. ASSUME graph.resource[r] # None PROVE graph.resource[r] \in ResourceRow
    BY <1>1, <2>1
  <2> QED
    BY <1>4, <2>1 DEF ResourceRow
<1>6. graph.binding[b] # None => [graph.binding[b] EXCEPT !.audit = verdict] \in BindingRow
  <2>1. ASSUME graph.binding[b] # None PROVE graph.binding[b] \in BindingRow
    BY <1>1, <2>1
  <2> QED
    BY <2>1 DEF BindingRow
<1>7. /\ resources \in [Resources -> ResourceRow \cup {None}]
      /\ \A x \in Resources : graph.resource[x] # None <=> resources[x] # None
      /\ \A x \in Resources : graph.resource[x] # None => resources[x].origin = graph.resource[x].origin
  BY <1>1, <1>5, RowsAreThere
<1>8. /\ bindings \in [Places -> BindingRow \cup {None}]
      /\ \A x \in Places : graph.binding[x] # None => bindings[x] # None
  BY <1>1, <1>6, RowsAreThere
<1> HIDE DEF resources, bindings
<1>9. g \in Graphs /\ g.resource = resources /\ g.binding = bindings
  BY <1>1, <1>3, <1>7, <1>8 DEF Graphs
<1> HIDE DEF g
<1>10. OwnAgents(g)
  BY <1>1, <1>7, <1>9 DEF OwnAgents
<1>11. Kept(graph, g)
  BY <1>7, <1>8, <1>9 DEF Kept, Resources, Places
<1> QED
  BY <1>2, <1>9, <1>10, <1>11 DEF Good

\* The statement of an audit.
LEMMA AuditStatement ==
    ASSUME GraphOK, NEW c \in Calls, NEW s, Fits(s), ExecAudit(c, s)
    PROVE  /\ Good(graph') /\ UNCHANGED <<tables, removal>> /\ s.do \notin RemovalVerbs
           /\ todo' = Rest(c)
<1>1. s.do = "audit" /\ <<s.id, s.key>> \in Places
  BY PlacePair DEF ExecAudit, Fits
<1>2. PICK verdict \in {"SAFE", "SECURITY_RISK"} : SetGraph(Audited(<<s.id, s.key>>, verdict), Rest(c))
  BY DEF ExecAudit
<1>3. Good(Audited(<<s.id, s.key>>, verdict))
  BY <1>1, AuditedIsGood
<1> QED
  BY <1>1, <1>2, <1>3 DEF SetGraph, RemovalVerbs

\* The deletions of the inventory: rows of files of agents only.
LEMMA ForgetStatements ==
    ASSUME GraphOK, NEW c \in Calls, NEW s, Fits(s), ExecForget(c, s)
    PROVE  /\ Good(graph') /\ UNCHANGED <<tables, removal>> /\ s.do \notin RemovalVerbs
           /\ todo' = Rest(c)
<1>1. s.do \in Forgets /\ s.ids \subseteq AgentFiles
  BY DEF ExecForget, Fits, Forgets
<1>2. s.do \notin RemovalVerbs
  BY <1>1 DEF Forgets, RemovalVerbs
<1>3. /\ graph \in Graphs /\ OwnAgents(graph)
      /\ graph.resource \in [Resources -> ResourceRow \cup {None}]
      /\ graph.binding \in [Places -> BindingRow \cup {None}]
      /\ graph.file \in [Places -> FileRow \cup {None}]
      /\ graph.finding \in [Places -> {"SAFE", "SECURITY_RISK", None}]
  BY GraphFields DEF GraphOK
<1>4. \A x \in s.ids : x \notin Extensions /\ x \notin Projects
  BY <1>1, LifecycleAssumption
<1>5. CASE s.do = "forgetFiles"
  <2> DEFINE files == Without(graph.file, s.ids)
             findings == Without(graph.finding, s.ids)
             g == [graph EXCEPT !.file = files, !.finding = findings]
  <2>1. graph' = g /\ todo' = Rest(c) /\ UNCHANGED <<tables, removal>>
    BY <1>5 DEF ExecForget, SetGraph
  <2>2. files \in [Places -> FileRow \cup {None}] /\ findings \in [Places -> {"SAFE", "SECURITY_RISK", None}]
    BY <1>3 DEF Without
  <2> HIDE DEF files, findings
  <2>3. g \in Graphs /\ g.resource = graph.resource /\ g.binding = graph.binding
    BY <1>3, <2>2 DEF Graphs
  <2> HIDE DEF g
  <2>4. Good(g)
    BY <1>3, <2>3 DEF Good, OwnAgents, Kept
  <2> QED
    BY <1>2, <2>1, <2>4
<1>6. CASE s.do = "forgetBindings"
  <2> DEFINE f == Without(graph.binding, s.ids)
  <2>1. graph' = [graph EXCEPT !.binding = f] /\ todo' = Rest(c) /\ UNCHANGED <<tables, removal>>
    BY <1>6 DEF ExecForget, SetGraph
  <2>2. f \in [Places -> BindingRow \cup {None}]
    BY <1>3 DEF Without
  <2>3. \A b \in Extensions \X Keys : graph.binding[b] # None => f[b] # None
    BY <1>4 DEF Without, Places, Resources
  <2> HIDE DEF f
  <2>4. Good(graph')
    BY <2>1, <2>2, <2>3, BindingsPut
  <2> QED
    BY <1>2, <2>1, <2>4
<1>7. CASE s.do = "forgetResources"
  <2> DEFINE f == [r \in Resources |-> IF r \in s.ids THEN None ELSE graph.resource[r]]
             g == [graph EXCEPT !.resource = f]
  <2>1. graph' = g /\ todo' = Rest(c) /\ UNCHANGED <<tables, removal>>
    BY <1>7 DEF ExecForget, SetGraph
  <2>2. /\ f \in [Resources -> ResourceRow \cup {None}]
        /\ \A r \in Resources : f[r] = None \/ f[r] = graph.resource[r]
        /\ \A p \in Projects : f[p] = graph.resource[p]
    BY <1>3, <1>4 DEF Resources
  <2> HIDE DEF f
  <2>3. g \in Graphs /\ g.resource = f /\ g.binding = graph.binding
    BY <1>3, <2>2 DEF Graphs
  <2> HIDE DEF g
  <2>4. OwnAgents(g)
    BY <1>3, <2>2, <2>3 DEF OwnAgents
  <2>5. Kept(graph, g)
    BY <2>2, <2>3 DEF Kept
  <2> QED
    BY <1>2, <2>1, <2>3, <2>4, <2>5 DEF Good
<1> QED
  BY <1>1, <1>5, <1>6, <1>7 DEF Forgets

------------------------------------------------------------------------------
(* The removal of a project                                                *)

\* What is left of a removal when its first statement is done.
LEMMA RemovalTails ==
    ASSUME NEW q, NEW p
    PROVE  /\ q = <<PutPlan(p, "planned"), DeleteProject(p), Announce("removed")>>
                => Tail(q) = <<DeleteProject(p), Announce("removed")>>
           /\ q = <<PutPlan(p, "blocked"), PutRecord("blocked"), Announce("blocked")>>
                => Tail(q) = <<PutRecord("blocked"), Announce("blocked")>>
           /\ q = <<DeleteProject(p), Announce("removed")>> => Tail(q) = <<Announce("removed")>>
           /\ q = <<Announce("removed")>> => Tail(q) = <<>>
           /\ q = <<PutRecord("blocked"), Announce("blocked")>> => Tail(q) = <<Announce("blocked")>>
           /\ q = <<Announce("blocked")>> => Tail(q) = <<>>
           /\ q = <<PutRecord("failure"), UpdatePlan("failure"), Announce("blocked")>>
                => Tail(q) = <<UpdatePlan("failure"), Announce("blocked")>>
           /\ q = <<UpdatePlan("failure"), Announce("blocked")>>
                => Tail(q) = <<Announce("blocked")>>
<1>1. q = <<PutPlan(p, "planned"), DeleteProject(p), Announce("removed")>>
        => Tail(q) = <<DeleteProject(p), Announce("removed")>>
  OBVIOUS
<1>2. q = <<PutPlan(p, "blocked"), PutRecord("blocked"), Announce("blocked")>>
        => Tail(q) = <<PutRecord("blocked"), Announce("blocked")>>
  OBVIOUS
<1>3. q = <<DeleteProject(p), Announce("removed")>> => Tail(q) = <<Announce("removed")>>
  OBVIOUS
<1>4. q = <<Announce("removed")>> => Tail(q) = <<>>
  OBVIOUS
<1>5. q = <<PutRecord("blocked"), Announce("blocked")>> => Tail(q) = <<Announce("blocked")>>
  OBVIOUS
<1>6. q = <<Announce("blocked")>> => Tail(q) = <<>>
  OBVIOUS
<1>7. q = <<PutRecord("failure"), UpdatePlan("failure"), Announce("blocked")>>
        => Tail(q) = <<UpdatePlan("failure"), Announce("blocked")>>
  OBVIOUS
<1>8. q = <<UpdatePlan("failure"), Announce("blocked")>> => Tail(q) = <<Announce("blocked")>>
  OBVIOUS
<1> QED
  BY <1>1, <1>2, <1>3, <1>4, <1>5, <1>6, <1>7, <1>8

\* What stands where in a queue joined to another.
LEMMA JoinedAt ==
    ASSUME NEW A, NEW p \in Seq(A), NEW q \in Seq(A)
    PROVE  /\ p \o q \in Seq(A) /\ Len(p \o q) = Len(p) + Len(q)
           /\ \A i \in 1..Len(p) : (p \o q)[i] = p[i]
           /\ \A i \in 1..Len(q) : (p \o q)[Len(p) + i] = q[i]
<1>1. Len(p) \in Nat /\ Len(q) \in Nat /\ DOMAIN p = 1..Len(p) /\ DOMAIN q = 1..Len(q)
  OBVIOUS
<1> QED
  BY <1>1

\* Queues of one statement, joined.
LEMMA OneAndOne ==
    ASSUME NEW A, NEW p \in Seq(A), NEW q \in Seq(A), Len(p) = 1, Len(q) = 1,
           NEW t \in Seq(A), Len(t) = 2, t[1] = p[1], t[2] = q[1]
    PROVE  p \o q = t
<1> DEFINE z == p \o q
<1>1. /\ z \in Seq(A) /\ Len(z) = Len(p) + Len(q)
      /\ \A i \in 1..Len(p) : z[i] = p[i]
      /\ \A i \in 1..Len(q) : z[Len(p) + i] = q[i]
  BY JoinedAt
<1> HIDE DEF z
<1>2. z \in Seq(A) /\ Len(z) = 2
  BY <1>1
<1>3. z[1] = p[1] /\ z[2] = q[1]
  BY <1>1
<1>4. z = [i \in 1..2 |-> z[i]] /\ t = [i \in 1..2 |-> t[i]]
  BY <1>2
<1>5. ASSUME NEW i \in 1..2 PROVE z[i] = t[i]
  <2>1. i = 1 \/ i = 2
    OBVIOUS
  <2> QED
    BY <2>1, <1>3
<1>6. z = t
  BY <1>4, <1>5
<1> QED
  BY <1>6 DEF z

\* Queues of two statements.
LEMMA TwoStatements ==
    ASSUME NEW x, NEW y
    PROVE  Tail(<<x, y>>) = <<y>> /\ <<x>> \o <<y>> = <<x, y>>
<1>1. Tail(<<x, y>>) = <<y>>
  OBVIOUS
<1>2. <<x>> \o <<y>> = <<x, y>>
  <2> DEFINE A == {x, y}
             p == <<x>>
             q == <<y>>
             t == <<x, y>>
  <2>1. /\ p \in Seq(A) /\ Len(p) = 1 /\ p[1] = x
        /\ q \in Seq(A) /\ Len(q) = 1 /\ q[1] = y
    OBVIOUS
  <2>2. t \in Seq(A) /\ Len(t) = 2 /\ t[1] = x /\ t[2] = y
    OBVIOUS
  <2> HIDE DEF A, p, q, t
  <2>3. p \o q = t
    BY <2>1, <2>2, OneAndOne
  <2> QED
    BY <2>3 DEF p, q, t
<1> QED
  BY <1>1, <1>2

\* A statement of a removal is the first of the queues a removal goes through.
LEMMA RemovalQueueHeads ==
    ASSUME NEW q, NEW row, RemovalQueue(q, row), q # <<>>, IsQueue(q), Head(q).do \in RemovalVerbs
    PROVE  \E p \in Projects : q \in PutRow(p) \/ Stage(q, row, p)
<1>1. Head(q) \in ToSet(q)
  BY HeadAndTail
<1> QED
  BY <1>1 DEF RemovalQueue

\* The columns of a removal's record are filled in one by one.
LEMMA RemovalColumns ==
    ASSUME NEW row \in RemovalRow
    PROVE  /\ \A x \in {"blocked", "success", "failure"} :
                /\ LET new == [row EXCEPT !.record = x] IN
                   /\ new \in RemovalRow /\ new.project = row.project /\ new.plan = row.plan
                   /\ new.record = x /\ new.event = row.event /\ new.rows = row.rows
                /\ LET new == [row EXCEPT !.plan = x] IN
                   /\ new \in RemovalRow /\ new.project = row.project /\ new.plan = x
                   /\ new.record = row.record /\ new.event = row.event /\ new.rows = row.rows
           /\ \A x \in {"removed", "blocked"} :
                LET new == [row EXCEPT !.event = x] IN
                /\ new \in RemovalRow /\ new.project = row.project /\ new.plan = row.plan
                /\ new.record = row.record /\ new.event = x /\ new.rows = row.rows
           /\ \A x \in {"gone", "written"} :
                LET new == [row EXCEPT !.rows = x] IN
                /\ new \in RemovalRow /\ new.project = row.project /\ new.plan = row.plan
                /\ new.record = row.record /\ new.event = row.event /\ new.rows = x
BY DEF RemovalRow

\* A call's queue and its removal are replaced together.
LEMMA RemovalReplaced ==
    ASSUME RemovalOK, TodoOK, NEW c \in Calls, NEW q, AllFit(q), NEW row, row \in RemovalRow, Truthful(row),
           todo' = [todo EXCEPT ![c] = q], removal' = [removal EXCEPT ![c] = row], RemovalQueue(q, row)
    PROVE  TodoOK' /\ RemovalOK' /\ removal'[c] = row
           /\ \A d \in Calls : d # c => todo'[d] = todo[d]
<1>1. TodoOK' /\ todo'[c] = q /\ \A d \in Calls : d # c => todo'[d] = todo[d]
  BY TodoReplaced
<1>2. removal' = [d \in Calls |-> IF d = c THEN row ELSE removal[d]]
  BY DEF RemovalOK
<1>3. removal'[c] = row /\ \A d \in Calls : d # c => removal'[d] = removal[d]
  BY <1>2
<1>4. removal' = [d \in Calls |-> removal'[d]]
  BY <1>2
<1>5. \A d \in Calls : RowOK(removal'[d]) /\ RemovalQueue(todo'[d], removal'[d])
  <2> SUFFICES ASSUME NEW d \in Calls PROVE RowOK(removal'[d]) /\ RemovalQueue(todo'[d], removal'[d])
    OBVIOUS
  <2>1. CASE d = c
    BY <1>1, <1>3, <2>1 DEF RowOK, Is
  <2>2. CASE d # c
    BY <1>1, <1>3, <2>2 DEF RemovalOK
  <2> QED
    BY <2>1, <2>2
<1> QED
  BY <1>1, <1>3, <1>4, <1>5 DEF RemovalOK, RowOK, Is, Truthful, RemovalQueue, Stage

\* The statements of a removal hold nothing that has a type of its own.
LEMMA RemovalVerbsFit ==
    /\ \A p, s : /\ Fits(PutPlan(p, s)) /\ Fits(DeleteProject(p)) /\ Fits(Announce(s))
                 /\ Fits(PutRecord(s)) /\ Fits(UpdatePlan(s))
    /\ Fits(WriteRemoval)
BY DEF Fits, PutPlan, DeleteProject, WriteRemoval, Announce, PutRecord, UpdatePlan, Marks, Forgets

\* The project is gone with its rows, and the record says so.
LEMMA ProjectDeleted ==
    ASSUME TablesOK, GraphOK, NEW p \in Projects,
           tables' = [tables EXCEPT !.project[p] = None], graph' = WithoutProject(p),
           NEW c \in Calls, removal'[c] # None, removal'[c].project = p, removal'[c].record = "success"
    PROVE  TablesOK' /\ GraphOK' /\ AtomicStep /\ SparesStep
<1> DEFINE bindings == [b \in Places |-> IF b[1] = p THEN None ELSE graph.binding[b]]
           resources == [graph.resource EXCEPT ![p] = None]
           projects == [tables.project EXCEPT ![p] = None]
<1>1. /\ graph \in Graphs /\ OwnAgents(graph)
      /\ graph.resource \in [Resources -> ResourceRow \cup {None}]
      /\ graph.binding \in [Places -> BindingRow \cup {None}]
  BY GraphFields DEF GraphOK
<1>2. /\ bindings \in [Places -> BindingRow \cup {None}]
      /\ \A b \in Places : b[1] = p => bindings[b] = None
      /\ \A b \in Places : b[1] # p => bindings[b] = graph.binding[b]
  BY <1>1
<1>3. /\ resources \in [Resources -> ResourceRow \cup {None}]
      /\ \A r \in Resources : resources[r] = None \/ resources[r] = graph.resource[r]
      /\ \A r \in Resources : r # p => resources[r] = graph.resource[r]
  BY <1>1
<1>4. graph' = [graph EXCEPT !.resource = resources, !.binding = bindings]
  BY <1>1 DEF WithoutProject, Graphs
<1>5. projects \in [Projects -> Paths \cup {None}] /\ projects[p] = None
  BY DEF TablesOK
<1>6. tables' = [tables EXCEPT !.project = projects]
  BY DEF TablesOK
<1> HIDE DEF bindings, resources, projects
<1>7. TablesOK' /\ tables'.project[p] = None
  BY <1>5, <1>6 DEF TablesOK
<1>8. graph' \in Graphs /\ graph'.resource = resources /\ graph'.binding = bindings
  BY <1>1, <1>2, <1>3, <1>4 DEF Graphs
<1>9. GraphOK'
  BY <1>1, <1>3, <1>8 DEF GraphOK, OwnAgents
<1>10. AtomicStep
  <2> SUFFICES ASSUME NEW x \in Projects, graph.resource[x] # None, graph'.resource[x] = None
               PROVE  /\ tables'.project[x] = None
                      /\ \A key \in Keys : graph'.binding[<<x, key>>] = None
                      /\ \E d \in Calls : /\ removal'[d] # None /\ removal'[d].project = x
                                          /\ removal'[d].record = "success"
    BY DEF AtomicStep
  <2>1. x = p
    BY <1>3, <1>8 DEF Resources
  <2>2. \A key \in Keys : <<x, key>> \in Places
    BY PlacePair DEF Resources
  <2> QED
    BY <1>2, <1>7, <1>8, <2>1, <2>2
<1>11. SparesStep
  <2>1. \A b \in Extensions \X Keys : b \in Places /\ b[1] # p
    BY LifecycleAssumption DEF Places, Resources
  <2> QED
    BY <1>2, <1>8, <2>1 DEF SparesStep
<1> QED
  BY <1>7, <1>9, <1>10, <1>11

\* The statements of a removal: the project leaves whole in one of them, and the row of
\* the removal stays truthful in all.
LEMMA RemovalStatements ==
    ASSUME TablesOK, GraphOK, TodoOK, RemovalOK, NEW c \in Calls, ~Idle(c),
           RemovalStatement(c, Head(todo[c]))
    PROVE  /\ TablesOK' /\ GraphOK' /\ TodoOK' /\ RemovalOK' /\ AtomicStep /\ SparesStep
           /\ \A d \in Calls : d # c => todo'[d] = todo[d]
<1> DEFINE q == todo[c]
           s == Head(q)
           old == removal[c]
           Goal == /\ TablesOK' /\ GraphOK' /\ TodoOK' /\ RemovalOK' /\ AtomicStep /\ SparesStep
                   /\ \A d \in Calls : d # c => todo'[d] = todo[d]
<1>1. s.do \in RemovalVerbs
  BY DEF RemovalStatement, RemovalVerbs
<1>2. IsQueue(q) /\ q # <<>> /\ AllFit(q) /\ RemovalQueue(q, old)
  BY DEF TodoOK, AllFit, Idle, RemovalOK
<1>3. Rest(c) = [todo EXCEPT ![c] = Tail(q)] /\ \A z : Then(c, z) = [todo EXCEPT ![c] = z \o Tail(q)]
  BY DEF Rest, Then
<1>4. GraphOK /\ graph' = graph => GraphOK' /\ AtomicStep /\ SparesStep
  BY DEF GraphOK, OwnAgents, AtomicStep, SparesStep
<1>5. AllFit(Tail(q))
  BY AtHead
\* A statement that leaves the rows of the project as they are.
<1>6. ASSUME NEW p \in Projects, NEW row \in RemovalRow, Truthful(row),
             NEW z, AllFit(z), Stage(z, row, p) \/ z = <<>>,
             removal' = [removal EXCEPT ![c] = row], todo' = [todo EXCEPT ![c] = z],
             UNCHANGED <<tables, graph>>
      PROVE  Goal
  <2>1. RemovalQueue(z, row)
    BY <1>6, ShortQueues DEF RemovalQueue
  <2> HIDE DEF q
  <2>2. TodoOK' /\ RemovalOK' /\ \A d \in Calls : d # c => todo'[d] = todo[d]
    BY <1>6, <2>1, RemovalReplaced
  <2>3. TablesOK'
    BY <1>6 DEF TablesOK
  <2> QED
    BY <1>4, <1>6, <2>2, <2>3
<1>7. ASSUME NEW p \in Projects, q \in PutRow(p) PROVE Goal
  <2> DEFINE row == [project |-> s.id, plan |-> s.status, record |-> None, event |-> None, rows |-> "kept"]
  <2>1. s.do = "plan" /\ s.id = p /\ s.status \in {"planned", "blocked"}
    BY <1>7 DEF PutRow, PutPlan
  <2>2. /\ removal' = [removal EXCEPT ![c] = row] /\ todo' = Rest(c) /\ UNCHANGED <<tables, graph>>
    BY <2>1 DEF RemovalStatement
  <2>3. /\ row \in RemovalRow /\ row.project = p /\ row.rows = "kept" /\ row.record = None
        /\ row.event = None
    BY <2>1 DEF RemovalRow
  <2> HIDE DEF row
  <2>4. Truthful(row)
    BY <2>3, RowAssumption DEF Truthful
  <2>5. \/ Tail(q) = <<DeleteProject(p), Announce("removed")>>
        \/ Tail(q) = <<PutRecord("blocked"), Announce("blocked")>>
    BY <1>7, RemovalTails DEF PutRow
  <2>6. Stage(Tail(q), row, p)
    BY <2>3, <2>5 DEF Stage
  <2> HIDE DEF q, Goal
  <2> QED
    BY <1>3, <1>5, <1>6, <2>2, <2>3, <2>4, <2>6
<1>8. ASSUME NEW p \in Projects, Stage(q, old, p) PROVE Goal
  <2>1. old \in RemovalRow /\ old.project = p /\ old # None /\ Truthful(old)
    BY <1>8, RowsAreThere DEF Stage, RemovalOK, RowOK
  <2>2. ASSUME q = <<PutRecord("blocked"), Announce("blocked")>>,
               old.rows = "kept", old.record = None, old.event = None
        PROVE  Goal
    <3> DEFINE row == [old EXCEPT !.record = "blocked"]
    <3>1. s.do = "record" /\ s.status = "blocked" /\ Tail(q) = <<Announce("blocked")>>
      BY <2>2, RemovalTails DEF PutRecord
    <3>2. removal' = [removal EXCEPT ![c] = row] /\ todo' = Rest(c) /\ UNCHANGED <<tables, graph>>
      BY <3>1 DEF RemovalStatement
    <3>3. row \in RemovalRow /\ row.project = p /\ row.record = "blocked" /\ row.event = None /\ row.rows = "kept"
      BY <2>1, <2>2, RemovalColumns
    <3> HIDE DEF row, old
    <3>4. Truthful(row) /\ Stage(Tail(q), row, p)
      BY <3>1, <3>3, RowAssumption DEF Truthful, Stage
    <3> HIDE DEF q, Goal
    <3> QED
      BY <1>3, <1>5, <1>6, <3>2, <3>3, <3>4
  <2>3. ASSUME q = <<PutRecord("failure"), UpdatePlan("failure"), Announce("blocked")>>, old.event = None
        PROVE  Goal
    <3> DEFINE row == [old EXCEPT !.record = "failure"]
    <3>1. s.do = "record" /\ s.status = "failure" /\ Tail(q) = <<UpdatePlan("failure"), Announce("blocked")>>
      BY <2>3, RemovalTails DEF PutRecord
    <3>2. removal' = [removal EXCEPT ![c] = row] /\ todo' = Rest(c) /\ UNCHANGED <<tables, graph>>
      BY <3>1 DEF RemovalStatement
    <3>3. row \in RemovalRow /\ row.project = p /\ row.record = "failure" /\ row.event = None
      BY <2>1, <2>3, RemovalColumns
    <3> HIDE DEF row, old
    <3>4. Truthful(row) /\ Stage(Tail(q), row, p)
      BY <3>1, <3>3, RowAssumption DEF Truthful, Stage
    <3> HIDE DEF q, Goal
    <3> QED
      BY <1>3, <1>5, <1>6, <3>2, <3>3, <3>4
  <2>4. ASSUME q = <<UpdatePlan("failure"), Announce("blocked")>>, old.event = None PROVE Goal
    <3> DEFINE row == [old EXCEPT !.plan = "failure"]
    <3>1. s.do = "replan" /\ s.status = "failure" /\ Tail(q) = <<Announce("blocked")>>
      BY <2>4, RemovalTails DEF UpdatePlan
    <3>2. removal' = [removal EXCEPT ![c] = row] /\ todo' = Rest(c) /\ UNCHANGED <<tables, graph>>
      BY <3>1 DEF RemovalStatement
    <3>3. /\ row \in RemovalRow /\ row.project = p /\ row.event = None
          /\ row.rows = old.rows /\ row.record = old.record
      BY <2>1, <2>4, RemovalColumns
    <3> HIDE DEF row, old
    <3>4. Truthful(row) /\ Stage(Tail(q), row, p)
      BY <2>1, <3>1, <3>3, RowAssumption DEF Truthful, Stage
    <3> HIDE DEF q, Goal
    <3> QED
      BY <1>3, <1>5, <1>6, <3>2, <3>3, <3>4
  <2>5. ASSUME NEW what \in {"removed", "blocked"}, q = <<Announce(what)>>,
               what = "removed" => old.rows = "written" /\ old.plan = "success" /\ old.record = "success"
        PROVE  Goal
    <3> DEFINE row == [old EXCEPT !.event = what]
    <3>1. s.do = "event" /\ s.status = what /\ Tail(q) = <<>>
      BY <2>5, RemovalTails DEF Announce
    <3>2. removal' = [removal EXCEPT ![c] = row] /\ todo' = Rest(c) /\ UNCHANGED <<tables, graph>>
      BY <3>1 DEF RemovalStatement
    <3>3. /\ row \in RemovalRow /\ row.project = p /\ row.event = what
          /\ row.rows = old.rows /\ row.record = old.record /\ row.plan = old.plan
      <4> HIDE DEF old
      <4> QED
        BY <2>1 DEF RemovalRow
    <3> HIDE DEF row, old
    <3>4. Truthful(row)
      BY <2>1, <2>5, <3>3 DEF Truthful
    <3> HIDE DEF q, Goal
    <3> QED
      BY <1>3, <1>5, <1>6, <3>1, <3>2, <3>3, <3>4
  <2> DEFINE failed == <<PutRecord("failure"), UpdatePlan("failure"), Announce("blocked")>>
  <2>6. ASSUME todo' = RemovalFails(c), old.event = None, UNCHANGED <<tables, graph, removal>> PROVE Goal
    <3>1. AllFit(failed)
      BY RemovalVerbsFit, ShortQueues DEF AllFit
    <3>2. Stage(failed, old, p)
      BY <2>1, <2>6 DEF Stage
    <3>3. todo' = [todo EXCEPT ![c] = failed] /\ removal' = [removal EXCEPT ![c] = old]
      BY <2>6 DEF RemovalOK, RemovalFails
    <3> HIDE DEF failed, q, Goal, old
    <3> QED
      BY <1>6, <2>1, <2>6, <3>1, <3>2, <3>3
  <2>7. ASSUME q = <<DeleteProject(p), Announce("removed")>>, old.event = None PROVE Goal
    <3> DEFINE mid == [old EXCEPT !.plan = "success"]
               low == [mid EXCEPT !.record = "success"]
               row == [low EXCEPT !.rows = "gone"]
               z == <<WriteRemoval, Announce("removed")>>
    <3>1. s.do = "deleteProject" /\ s.id = p /\ Tail(q) = <<Announce("removed")>>
      BY <2>7, RemovalTails DEF DeleteProject
    <3>2. CASE /\ tables' = [tables EXCEPT !.project[s.id] = None]
               /\ graph' = WithoutProject(s.id)
               /\ removal' = [removal EXCEPT ![c].plan = "success", ![c].record = "success", ![c].rows = "gone"]
               /\ todo' = Then(c, <<WriteRemoval>>)
      <4>1. removal' = [removal EXCEPT ![c] = row]
        BY <3>2
      <4>2. mid \in RemovalRow /\ mid.project = p /\ mid.plan = "success" /\ mid.event = None
        BY <2>1, <2>7, RemovalColumns
      <4> HIDE DEF mid
      <4>3. low \in RemovalRow /\ low.project = p /\ low.plan = "success" /\ low.event = None /\ low.record = "success"
        BY <4>2, RemovalColumns
      <4> HIDE DEF low
      <4>4. /\ row \in RemovalRow /\ row.project = p /\ row.plan = "success" /\ row.event = None
            /\ row.record = "success" /\ row.rows = "gone"
        BY <4>3, RemovalColumns
      <4> HIDE DEF row, old
      <4>5. Truthful(row) /\ Stage(z, row, p)
        BY <4>4, RowAssumption DEF Truthful, Stage
      <4>6. todo' = [todo EXCEPT ![c] = z]
        <5>1. <<WriteRemoval>> \o <<Announce("removed")>> = z
          BY TwoStatements
        <5> HIDE DEF z, q
        <5> QED
          BY <1>3, <3>1, <3>2, <5>1
      <4>7. AllFit(z) /\ RemovalQueue(z, row)
        BY <4>5, RemovalVerbsFit, ShortQueues DEF AllFit, RemovalQueue
      <4> HIDE DEF z, q
      <4>8. /\ TodoOK' /\ RemovalOK' /\ removal'[c] = row
            /\ \A d \in Calls : d # c => todo'[d] = todo[d]
        BY <4>1, <4>4, <4>5, <4>6, <4>7, RemovalReplaced
      <4>9. row # None
        BY <4>4, RowsAreThere
      <4>10. TablesOK' /\ GraphOK' /\ AtomicStep /\ SparesStep
        BY <3>1, <3>2, <4>4, <4>8, <4>9, ProjectDeleted
      <4> QED
        BY <4>8, <4>10
    <3>3. CASE todo' = RemovalFails(c) /\ UNCHANGED <<tables, graph, removal>>
      BY <2>6, <2>7, <3>3
    <3>4. \/ /\ tables' = [tables EXCEPT !.project[s.id] = None]
             /\ graph' = WithoutProject(s.id)
             /\ removal' = [removal EXCEPT ![c].plan = "success", ![c].record = "success", ![c].rows = "gone"]
             /\ todo' = Then(c, <<WriteRemoval>>)
          \/ todo' = RemovalFails(c) /\ UNCHANGED <<tables, graph, removal>>
      BY <3>1 DEF RemovalStatement
    <3> HIDE DEF Goal, q
    <3> QED
      BY <3>2, <3>3, <3>4
  <2>8. ASSUME q = <<WriteRemoval, Announce("removed")>>, old.rows = "gone", old.plan = "success",
               old.record = "success", old.event = None
        PROVE  Goal
    <3> DEFINE row == [old EXCEPT !.rows = "written"]
    <3>1. s.do = "write" /\ Tail(q) = <<Announce("removed")>>
      BY <2>8, TwoStatements DEF WriteRemoval
    <3>2. CASE /\ removal' = [removal EXCEPT ![c].rows = "written"] /\ todo' = Rest(c)
               /\ UNCHANGED <<tables, graph>>
      <4>1. removal' = [removal EXCEPT ![c] = row]
        BY <3>2
      <4>2. /\ row \in RemovalRow /\ row.project = p /\ row.plan = "success" /\ row.event = None
            /\ row.record = "success" /\ row.rows = "written"
        BY <2>1, <2>8, RemovalColumns
      <4> HIDE DEF row, old
      <4>3. Truthful(row) /\ Stage(Tail(q), row, p)
        BY <3>1, <4>2, RowAssumption DEF Truthful, Stage
      <4> HIDE DEF q, Goal
      <4> QED
        BY <1>3, <1>5, <1>6, <3>2, <4>1, <4>2, <4>3
    <3>3. CASE todo' = RemovalFails(c) /\ UNCHANGED <<tables, graph, removal>>
      BY <2>6, <2>8, <3>3
    <3>4. \/ /\ removal' = [removal EXCEPT ![c].rows = "written"] /\ todo' = Rest(c)
             /\ UNCHANGED <<tables, graph>>
          \/ todo' = RemovalFails(c) /\ UNCHANGED <<tables, graph, removal>>
      BY <3>1 DEF RemovalStatement
    <3> HIDE DEF Goal, q
    <3> QED
      BY <3>2, <3>3, <3>4
  <2> HIDE DEF Goal
  <2> QED
    BY <1>8, <2>2, <2>3, <2>4, <2>5, <2>7, <2>8 DEF Stage
<1> HIDE DEF Goal
<1>9. Goal
  BY <1>1, <1>2, <1>7, <1>8, RemovalQueueHeads
<1> QED
  BY <1>9 DEF Goal

------------------------------------------------------------------------------
(* The listing, and a step of a call                                       *)

\* The older rows are of places, and have a status.
LEMMA LegacyRowsTyped ==
    ASSUME TablesOK, NEW row \in LegacyRows
    PROVE  /\ row[1] \in Places /\ row[2] \in Statuses
           /\ row[1][1] \in Kits => tables.tool[row[1][1]] # None
<1> USE LifecycleAssumption
<1>1. /\ \A e \in Extensions : tables.extension[e] \in [cached : BOOLEAN, status : Statuses] \cup {None}
      /\ \A w \in Extensions \X Paths : tables.target[w] \in Statuses \cup {None}
      /\ \A w \in Configured \X Paths : tables.installation[w] \in Statuses \cup {None}
      /\ \A p \in Projects : tables.project[p] \in Paths \cup {None}
      /\ \A k \in Kits : tables.tool[k] \in [at : Paths, manifest : Manifest] \cup {None}
  BY DEF TablesOK
<1>2. Paths \subseteq Keys /\ Legacy \in Keys
  BY DEF Keys
<1>3. Extensions \cup Projects \cup Kits \subseteq Resources
  BY DEF Resources
<1>4. "scanned" \in Statuses
  BY DEF Statuses
<1>5. ASSUME NEW w \in Extensions \X Paths, tables.target[w] # None, row = <<w, tables.target[w]>>
      PROVE  row[1] \in Places /\ row[2] \in Statuses /\ row[1][1] \notin Kits
  BY <1>1, <1>2, <1>3, <1>5 DEF Places
<1>6. ASSUME NEW w \in Configured \X Paths, tables.installation[w] # None,
             row = <<w, tables.installation[w]>>
      PROVE  row[1] \in Places /\ row[2] \in Statuses /\ row[1][1] \notin Kits
  BY <1>1, <1>2, <1>3, <1>6 DEF Places
<1>7. ASSUME NEW e \in Extensions, tables.extension[e] # None,
             row = <<<<e, Legacy>>, tables.extension[e].status>>
      PROVE  row[1] \in Places /\ row[2] \in Statuses /\ row[1][1] \notin Kits
  <2>1. tables.extension[e].status \in Statuses
    BY <1>1, <1>7
  <2> QED
    BY <1>2, <1>3, <1>7, <2>1 DEF Places
<1>8. ASSUME NEW p \in Projects, tables.project[p] # None, row = <<<<p, tables.project[p]>>, "scanned">>
      PROVE  row[1] \in Places /\ row[2] \in Statuses /\ row[1][1] \notin Kits
  <2>1. tables.project[p] \in Keys
    BY <1>1, <1>2, <1>8
  <2> QED
    BY <1>3, <1>4, <1>8, <2>1 DEF Places
<1>9. ASSUME NEW k \in Kits, tables.tool[k] # None, row = <<<<k, tables.tool[k].at>>, "scanned">>
      PROVE  row[1] \in Places /\ row[2] \in Statuses /\ tables.tool[row[1][1]] # None
  <2>1. tables.tool[k].at \in Keys
    BY <1>1, <1>2, <1>9
  <2> QED
    BY <1>3, <1>4, <1>9, <2>1 DEF Places
<1>10. \/ \E w \in Extensions \X Paths : tables.target[w] # None /\ row = <<w, tables.target[w]>>
       \/ \E w \in Configured \X Paths : tables.installation[w] # None /\ row = <<w, tables.installation[w]>>
       \/ \E e \in Extensions : tables.extension[e] # None
                                /\ row = <<<<e, Legacy>>, tables.extension[e].status>>
       \/ \E p \in Projects : tables.project[p] # None /\ row = <<<<p, tables.project[p]>>, "scanned">>
       \/ \E k \in Kits : tables.tool[k] # None /\ row = <<<<k, tables.tool[k].at>>, "scanned">>
  BY Zenon DEF LegacyRows
<1> QED
  BY <1>5, <1>6, <1>7, <1>8, <1>9, <1>10

\* A listing fills in what is not there.
LEMMA BackfilledIsGood ==
    ASSUME TablesOK, GraphOK
    PROVE  Good(Backfilled)
<1> DEFINE rows == LegacyRows
           places == {row[1] : row \in rows}
           resources == [r \in Resources |->
                IF graph.resource[r] = None /\ \E b \in places : b[1] = r
                THEN Resource("legacy", LegacyResourceStatus(rows, r),
                              IF r \in Kits THEN tables.tool[r].manifest ELSE None)
                ELSE graph.resource[r]]
           bindings == [b \in Places |->
                IF graph.binding[b] = None /\ b \in places
                THEN Binding(LegacyStatus(rows, b), None, IF b[1] \in Projects THEN b[1] ELSE None)
                ELSE graph.binding[b]]
           g == [graph EXCEPT !.resource = resources, !.binding = bindings]
<1>1. /\ graph \in Graphs /\ OwnAgents(graph)
      /\ graph.resource \in [Resources -> ResourceRow \cup {None}]
      /\ graph.binding \in [Places -> BindingRow \cup {None}]
  BY GraphFields DEF GraphOK
<1>2. Backfilled = g
  BY <1>1 DEF Backfilled, Graphs
<1>3. ASSUME NEW b \in Places, b \in places PROVE LegacyStatus(rows, b) \in Statuses
  <2>1. PICK row \in rows : row[1] = b
    BY <1>3
  <2>2. (CHOOSE one \in rows : one[1] = b) \in rows
    BY <2>1
  <2>3. (CHOOSE one \in rows : one[1] = b)[2] \in Statuses
    BY <2>2, LegacyRowsTyped
  <2>4. ASSUME b[1] \in Extensions, b[2] \in Paths, tables.target[b] # None
        PROVE  tables.target[b] \in Statuses
    <3>1. b \in Extensions \X Paths
      BY <2>4 DEF Places
    <3> QED
      BY <2>4, <3>1 DEF TablesOK
  <2> QED
    BY <2>3, <2>4 DEF LegacyStatus
<1>4. ASSUME NEW r \in Resources, \E b \in places : b[1] = r
      PROVE  (IF r \in Kits THEN tables.tool[r].manifest ELSE None) \in Manifest
  <2>1. CASE r \in Kits
    <3>1. PICK row \in rows : row[1][1] = r
      BY <1>4
    <3>2. tables.tool[r] # None
      BY <2>1, <3>1, LegacyRowsTyped
    <3>3. tables.tool[r] \in [at : Paths, manifest : Manifest]
      BY <2>1, <3>2 DEF TablesOK
    <3> QED
      BY <2>1, <3>3
  <2>2. CASE r \notin Kits
    BY <2>2 DEF Manifest
  <2> QED
    BY <2>1, <2>2
<1>5. ASSUME NEW r \in Resources, \E b \in places : b[1] = r
      PROVE  \/ resources[r] = graph.resource[r]
             \/ resources[r] \in ResourceRow /\ resources[r].origin = "legacy"
  <2> DEFINE m == IF r \in Kits THEN tables.tool[r].manifest ELSE None
  <2>1. m \in Manifest
    BY <1>4, <1>5
  <2>2. \/ resources[r] = graph.resource[r]
        \/ resources[r] = Resource("legacy", LegacyResourceStatus(rows, r), m)
    OBVIOUS
  <2> HIDE DEF m
  <2>3. \A st : Resource("legacy", st, m) \in ResourceRow /\ Resource("legacy", st, m).origin = "legacy"
    BY <2>1, ResourceTyped
  <2> QED
    BY <2>2, <2>3, Zenon
<1>6. /\ resources \in [Resources -> ResourceRow \cup {None}]
      /\ \A r \in Resources : resources[r] = graph.resource[r]
            \/ (graph.resource[r] = None /\ resources[r] \in ResourceRow /\ resources[r].origin = "legacy")
  <2>1. \A r \in Resources : graph.resource[r] # None => resources[r] = graph.resource[r]
    OBVIOUS
  <2>2. \A r \in Resources : ~(\E b \in places : b[1] = r) => resources[r] = graph.resource[r]
    OBVIOUS
  <2>3. resources = [r \in Resources |-> resources[r]]
    OBVIOUS
  <2> HIDE DEF resources, places
  <2> QED
    BY <1>1, <1>5, <2>1, <2>2, <2>3
<1>7. ASSUME NEW b \in Places, b \in places
      PROVE  Binding(LegacyStatus(rows, b), None, IF b[1] \in Projects THEN b[1] ELSE None) \in BindingRow
  <2>1. LegacyStatus(rows, b) \in Statuses
    BY <1>3, <1>7
  <2>2. (IF b[1] \in Projects THEN b[1] ELSE None) \in Projects \cup {None}
    OBVIOUS
  <2> QED
    BY <2>1, <2>2, BindingTyped
<1>8. /\ bindings \in [Places -> BindingRow \cup {None}]
      /\ \A b \in Places : graph.binding[b] # None => bindings[b] = graph.binding[b]
  <2> HIDE DEF rows, places
  <2> QED
    BY <1>1, <1>7
<1> HIDE DEF resources, bindings
<1>9. g \in Graphs /\ g.resource = resources /\ g.binding = bindings
  BY <1>1, <1>6, <1>8 DEF Graphs
<1> HIDE DEF g
<1>10. OwnAgents(g)
  BY <1>1, <1>6, <1>9 DEF OwnAgents
<1>11. Kept(graph, g)
  BY <1>6, <1>8, <1>9 DEF Kept, Resources, Places
<1> QED
  BY <1>2, <1>9, <1>10, <1>11 DEF Good

\* A call of the repository executes its next statement.
LEMMA ExecuteTypes ==
    ASSUME TablesOK, GraphOK, DiskOK, TodoOK, RemovalOK, NEW c \in Calls, Execute(c)
    PROVE  /\ TablesOK' /\ GraphOK' /\ DiskOK' /\ TodoOK' /\ RemovalOK' /\ AtomicStep /\ SparesStep
           /\ \A d \in Calls : d # c => todo'[d] = todo[d]
<1> DEFINE s == Head(todo[c])
<1>1. ~Idle(c) /\ UNCHANGED <<made, disk>> /\ Fits(s)
  BY AtHead DEF Execute
<1>2. DiskOK'
  BY <1>1 DEF DiskOK
<1> HIDE DEF s
<1>3. GraphOK /\ graph' = graph => GraphOK' /\ AtomicStep /\ SparesStep
  BY DEF GraphOK, OwnAgents, AtomicStep, SparesStep
<1>4. TablesOK /\ tables' = tables => TablesOK'
  BY DEF TablesOK
<1>5. CASE \/ ExecExtension(c, s) \/ ExecTarget(c, s) \/ ExecProject(c, s) \/ ExecTool(c, s)
           \/ ExecSetExtension(c, s) \/ ExecSetTargets(c, s) \/ ExecSetInstallations(c, s)
  <2>1. /\ TablesOK' /\ todo' = Rest(c) /\ UNCHANGED <<graph, removal>> /\ s.do \notin RemovalVerbs
    BY <1>1, <1>5, TableStatements
  <2>2. TodoOK' /\ RemovalOK' /\ \A d \in Calls : d # c => todo'[d] = todo[d]
    BY <1>1, <2>1, PlainRest DEF s
  <2> QED
    BY <1>2, <1>3, <2>1, <2>2
<1>6. CASE \/ ExecResource(c, s) \/ ExecKnown(c, s) \/ ExecBinding(c, s) \/ ExecFile(c, s) \/ ExecMark(c, s)
           \/ ExecCheck(c, s) \/ ExecChecked(c, s) \/ ExecAudit(c, s) \/ ExecForget(c, s)
  <2>1. /\ Good(graph') /\ UNCHANGED <<tables, removal>> /\ s.do \notin RemovalVerbs
        /\ todo' = Rest(c) \/ \E q : PlainQueue(q) /\ todo' = Then(c, q)
    BY <1>1, <1>6, PutStatements, CheckStatements, AuditStatement, ForgetStatements
  <2>2. TodoOK' /\ RemovalOK' /\ \A d \in Calls : d # c => todo'[d] = todo[d]
    BY <1>1, <2>1, PlainRest, PlainRun DEF s
  <2> QED
    BY <1>2, <1>4, <2>1, <2>2, GoodStep
<1>7. CASE RemovalStatement(c, s)
  BY <1>1, <1>2, <1>7, RemovalStatements DEF s
<1> QED
  BY <1>5, <1>6, <1>7 DEF Execute, s

------------------------------------------------------------------------------
(* The kits: operations begin                                              *)

\* The statements of the kits are of their type.
LEMMA KitStatementsSuit ==
    ASSUME NEW k \in Kits
    PROVE  /\ Suits(KitRecord(k)) /\ Suits(KitUnbindAll(k)) /\ Suits(KitForget(k))
           /\ Suits(KitDrift(k)) /\ Suits(KitAudit(k))
           /\ \A t \in Paths : Suits(KitApplied(k, t))
           /\ \A r \in Resources, t \in Paths :
                Suits(KitBind(r, k, t)) /\ \A s \in Statuses : Suits(KitBound(r, k, t, s))
           /\ \A b \in Places, t \in Paths \cup {None} : Suits(KitUnbind(b, k, t))
<1>1. k \in Resources
  BY DEF Resources
<1>2. Suits(KitRecord(k)) /\ Suits(KitUnbindAll(k)) /\ Suits(KitForget(k))
  BY DEF Suits, Fits, KitRecord, KitUnbindAll, KitForget, RemovalVerbs, Marks, Forgets
<1>3. Suits(KitDrift(k)) /\ Suits(KitAudit(k))
  BY DEF Suits, Fits, KitDrift, KitAudit, RemovalVerbs, Marks, Forgets
<1>4. \A t \in Paths : Suits(KitApplied(k, t))
  BY <1>1 DEF Suits, Fits, KitApplied, RemovalVerbs, Marks, Forgets
<1>5. \A r \in Resources, t \in Paths : Suits(KitBind(r, k, t))
  BY DEF Suits, Fits, KitBind, RemovalVerbs, Marks, Forgets
<1>6. \A r \in Resources, t \in Paths, s \in Statuses : Suits(KitBound(r, k, t, s))
  BY DEF Suits, Fits, KitBound, RemovalVerbs, Marks, Forgets
<1>7. \A b \in Places, t \in Paths \cup {None} : Suits(KitUnbind(b, k, t))
  BY PlacePair DEF Suits, Fits, KitUnbind, RemovalVerbs, Marks, Forgets
<1> QED
  BY <1>2, <1>3, <1>4, <1>5, <1>6, <1>7

\* One caller's operation and queue are replaced.
LEMMA KitReplaced ==
    ASSUME KitsOK, NEW c \in Calls, \A d \in Calls : d # c => todo'[d] = todo[d],
           NEW op, kitOp' = [kitOp EXCEPT ![c] = op], op # None => KitOpOK(op, ToSet(todo'[c]))
    PROVE  KitsOK'
<1>1. kitOp' = [d \in Calls |-> IF d = c THEN op ELSE kitOp[d]]
  BY DEF KitsOK
<1>2. /\ kitOp' = [d \in Calls |-> kitOp'[d]] /\ kitOp'[c] = op
      /\ \A d \in Calls : d # c => kitOp'[d] = kitOp[d]
  BY <1>1
<1>3. \A d \in Calls : kitOp'[d] # None => KitOpOK(kitOp'[d], ToSet(todo'[d]))
  <2> SUFFICES ASSUME NEW d \in Calls, kitOp'[d] # None PROVE KitOpOK(kitOp'[d], ToSet(todo'[d]))
    OBVIOUS
  <2>1. CASE d = c
    BY <1>2, <2>1
  <2>2. CASE d # c
    BY <1>2, <2>2 DEF KitsOK
  <2> QED
    BY <2>1, <2>2
<1> QED
  BY <1>2, <1>3 DEF KitsOK, KitOpOK, ApplyOK, RemoveOK, OtherOK, ToSet

\* A caller without an operation of kits may have what it likes to do.
LEMMA KitsUntouched ==
    ASSUME KitsOK, NEW c \in Calls, \A d \in Calls : d # c => todo'[d] = todo[d],
           kitOp[c] = None, kitOp' = kitOp
    PROVE  KitsOK'
<1>1. \A d \in Calls : kitOp'[d] # None => KitOpOK(kitOp'[d], ToSet(todo'[d]))
  <2> SUFFICES ASSUME NEW d \in Calls, kitOp'[d] # None PROVE KitOpOK(kitOp'[d], ToSet(todo'[d]))
    OBVIOUS
  <2>1. d # c
    OBVIOUS
  <2> QED
    BY <2>1 DEF KitsOK
<1>2. kitOp' = [d \in Calls |-> kitOp'[d]]
  BY DEF KitsOK
<1> QED
  BY <1>1, <1>2 DEF KitsOK, KitOpOK, ApplyOK, RemoveOK, OtherOK, ToSet

\* What an operation begins with: a listing that is read, an operation that
\* is as it should be, statements of their type.
LEMMA BeginKitOpKeeps ==
    ASSUME TablesOK, GraphOK, DiskOK, TodoOK, RemovalOK, KitsOK, NEW c \in Calls, made < MaxCalls,
           NEW op, NEW q, BeginKitOp(c, Backfilled, op, q), PlainQueue(q), KitOpOK(op, ToSet(q))
    PROVE  KitInv' /\ AtomicStep /\ SparesStep
<1>1. /\ made' = made + 1 /\ graph' = Backfilled /\ kitOp' = [kitOp EXCEPT ![c] = op]
      /\ todo' = [todo EXCEPT ![c] = q] /\ UNCHANGED <<tables, disk, removal>>
  BY DEF BeginKitOp
<1>2. Good(graph')
  BY <1>1, BackfilledIsGood
<1>3. AllFit(q)
  BY DEF PlainQueue, AllFit, Suits
<1>4. TodoOK' /\ RemovalOK' /\ todo'[c] = q /\ \A d \in Calls : d # c => todo'[d] = todo[d]
  BY <1>1, <1>3, TodoReplaced, RemovalUntouched
<1>5. KitsOK'
  BY <1>1, <1>4, KitReplaced
<1>6. TablesOK' /\ DiskOK'
  BY <1>1, LifecycleAssumption DEF TablesOK, DiskOK
<1> QED
  BY <1>2, <1>4, <1>5, <1>6, GoodStep DEF KitInv

\* The manifest of a listing.
LEMMA StoredTyped ==
    ASSUME NEW g \in Graphs, NEW k \in Kits
    PROVE  StoredManifest(g, k) \in Manifest
<1>1. g.resource[k] \in ResourceRow \cup {None}
  BY GraphFields DEF Resources
<1> QED
  BY <1>1 DEF StoredManifest, ResourceRow, Manifest

\* What an operation begins with.
LEMMA NoWork ==
    /\ FALSE \in BOOLEAN /\ TRUE \in BOOLEAN /\ None \in Paths \cup {None}
    /\ {} \in SUBSET (Resources \cup Places)
    /\ {} \in SUBSET (Several \cup {"blocked", "rolled_back", "rollback_failed"})
    /\ {"success"} \in SUBSET (Several \cup {"blocked", "rolled_back", "rollback_failed"})
BY DEF Several

\* What a manifest lists, and what is known of each before the plan.
LEMMA ManifestTyped ==
    ASSUME NEW m \in KitManifests
    PROVE  /\ DOMAIN m \subseteq Extensions \cup AgentFiles
           /\ \A r \in DOMAIN m : m[r].required \in BOOLEAN
<1>1. PICK S \in SUBSET (Extensions \cup AgentFiles) : m \in [S -> [hash : Hash, required : BOOLEAN]]
  BY DEF KitManifests
<1> QED
  BY <1>1

\* What is not in the plan has a result before it.
LEMMA PreflightTyped ==
    ASSUME NEW g, NEW m, NEW f
    PROVE  /\ Preflight(g, m, f) \subseteq Several /\ Fit(g, m, f) \subseteq DOMAIN m
           /\ \A r \in DOMAIN m \ Fit(g, m, f) : m[r].required => "failure" \in Preflight(g, m, f)
<1>1. Preflight(g, m, f) \subseteq Several
  BY DEF Preflight, Several
<1>2. Fit(g, m, f) \subseteq DOMAIN m
  BY DEF Fit
<1>3. ASSUME NEW r \in DOMAIN m \ Fit(g, m, f), m[r].required PROVE "failure" \in Preflight(g, m, f)
  <2>1. (IF f[r] = None /\ ~m[r].required THEN "skipped" ELSE "failure") = "failure"
    BY <1>3
  <2> HIDE DEF Fit
  <2> QED
    BY <2>1 DEF Preflight
<1> QED
  BY <1>1, <1>2, <1>3

\* The hash of a row of the listing.
LEMMA HashTyped ==
    ASSUME NEW g \in Graphs, NEW b \in Places, g.binding[b] # None
    PROVE  HashOfRow(g, b) \in Hash
<1>1. g.binding[b].hash \in Hash
  <2>1. g.binding[b] \in BindingRow
    BY GraphFields
  <2> QED
    BY <2>1 DEF BindingRow
<1>2. g.file[b] # None => g.file[b].current \in Hash
  <2>1. g.file[b] \in FileRow \cup {None}
    BY GraphFields
  <2> QED
    BY <2>1 DEF FileRow
<1>3. None \in Hash
  BY DEF Hash
<1> QED
  BY <1>1, <1>2, <1>3 DEF HashOfRow

\* What a manifest is made of when it is generated.
LEMMA GeneratedTyped ==
    ASSUME NEW g \in Graphs, NEW rows \in SUBSET ListedRows(g),
           \A b \in rows : b[1] \in Extensions \cup AgentFiles
    PROVE  [r \in {b[1] : b \in rows} |->
                Reference(HashOfRow(g, CHOOSE b \in rows : b[1] = r), TRUE)] \in KitManifests
<1> DEFINE R == {b[1] : b \in rows}
           m == [r \in R |-> Reference(HashOfRow(g, CHOOSE b \in rows : b[1] = r), TRUE)]
<1>1. ASSUME NEW r \in R
      PROVE  Reference(HashOfRow(g, CHOOSE b \in rows : b[1] = r), TRUE) \in [hash : Hash, required : BOOLEAN]
  <2>1. PICK b \in rows : b = CHOOSE one \in rows : one[1] = r
    <3>1. \E one \in rows : one[1] = r
      OBVIOUS
    <3> QED
      BY <3>1
  <2>2. HashOfRow(g, b) \in Hash
    BY HashTyped DEF ListedRows
  <2>3. Reference(HashOfRow(g, b), TRUE) \in [hash : Hash, required : BOOLEAN]
    BY <2>2 DEF Reference
  <2> QED
    BY <2>1, <2>3
<1>2. R \in SUBSET (Extensions \cup AgentFiles)
  OBVIOUS
<1> HIDE DEF R
<1>3. m \in [R -> [hash : Hash, required : BOOLEAN]]
  BY <1>1
<1> HIDE DEF m
<1>4. m \in KitManifests
  BY <1>2, <1>3 DEF KitManifests
<1> QED
  BY <1>4 DEF m, R

\* A manifest is written by one statement.
LEMMA RecordManifestKeeps ==
    ASSUME KitInv, NEW c \in Calls, made < MaxCalls, NEW k \in Kits, NEW m \in Manifest,
           NEW kind \in {"import", "generate"}, RecordManifest(c, Backfilled, kind, k, m)
    PROVE  KitInv' /\ AtomicStep /\ SparesStep
<1> DEFINE op == KitOp(kind, k, None, m, FALSE, {}, {"success"})
           q == <<KitRecord(k)>>
<1>1. /\ op \in KitOps /\ op.kind = kind /\ op.done = {} /\ op.plan = FALSE /\ op.wrote = FALSE
      /\ op.results \subseteq Several
  BY NoWork DEF KitOp, KitOps, Several
<1>2. PlainQueue(q) /\ ToSet(q) = {KitRecord(k)}
  BY ShortQueues, KitStatementsSuit DEF PlainQueue
<1>3. KitRecord(k).do = "kitRecord"
  BY DEF KitRecord
<1>4. BeginKitOp(c, Backfilled, op, q)
  BY DEF RecordManifest
<1> HIDE DEF op, q
<1>5. OtherOK(op, ToSet(q))
  BY <1>1, <1>2, <1>3 DEF OtherOK
<1>6. KitOpOK(op, ToSet(q))
  BY <1>1, <1>5 DEF KitOpOK
<1> QED
  BY <1>2, <1>4, <1>6, BeginKitOpKeeps DEF KitInv

\* An export waits for its plan, or has none.
LEMMA ExportKeeps ==
    ASSUME KitInv, NEW c \in Calls, made < MaxCalls, NEW k \in Kits, NEW t \in Paths \cup {None},
           ExportManifest(c, Backfilled, k, t)
    PROVE  KitInv' /\ AtomicStep /\ SparesStep
<1> DEFINE m == StoredManifest(Backfilled, k)
           plan == t # None
           results == IF t = None THEN {"success"} ELSE {}
           op == KitOp("export", k, t, m, plan, {}, results)
<1>1. m \in Manifest
  BY BackfilledIsGood, StoredTyped DEF KitInv, Good
<1>2. plan \in BOOLEAN /\ results \in SUBSET (Several \cup {"blocked", "rolled_back", "rollback_failed"})
  BY DEF Several
<1>3. BeginKitOp(c, Backfilled, op, <<>>)
  BY DEF ExportManifest
<1> HIDE DEF m, plan, results
<1>4. op \in KitOps /\ op.kind = "export" /\ op.done = {} /\ op.wrote = FALSE
  BY <1>1, <1>2, NoWork DEF KitOp, KitOps
<1>5. PlainQueue(<<>>) /\ ToSet(<<>>) = {}
  BY ShortQueues DEF PlainQueue
<1> HIDE DEF op
<1>6. OtherOK(op, {})
  BY <1>4 DEF OtherOK
<1>7. KitOpOK(op, ToSet(<<>>))
  BY <1>4, <1>5, <1>6 DEF KitOpOK
<1> QED
  BY <1>3, <1>5, <1>7, BeginKitOpKeeps DEF KitInv

\* An application begins with what is required in its plan, or failing.
LEMMA ApplyKeeps ==
    ASSUME KitInv, NEW c \in Calls, made < MaxCalls, NEW k \in Kits, NEW t \in Paths,
           Apply(c, Backfilled, k, t)
    PROVE  KitInv' /\ AtomicStep /\ SparesStep
<1> DEFINE Op(m, plan, work, results) == KitOp("apply", k, t, m, plan, work, results)
<1>1. PICK m \in {StoredManifest(Backfilled, k)} \cup Manifests :
        /\ m # None
        /\ \E f \in Resolutions(Backfilled, m) :
             \/ BeginKitOp(c, Backfilled, Op(m, FALSE, {}, {"blocked"}), <<>>)
             \/ /\ Fit(Backfilled, m, f) = {}
                /\ BeginKitOp(c, Backfilled,
                       Op(m, FALSE, {}, IF Preflight(Backfilled, m, f) = {} THEN {"failure"}
                                        ELSE Preflight(Backfilled, m, f)), <<>>)
             \/ BeginKitOp(c, Backfilled,
                       Op(m, TRUE, Fit(Backfilled, m, f), Preflight(Backfilled, m, f)), <<>>)
  BY Zenon DEF Apply
<1>2. m \in KitManifests /\ m \in Manifest
  <2>1. StoredManifest(Backfilled, k) \in Manifest
    BY BackfilledIsGood, StoredTyped DEF KitInv, Good
  <2> QED
    BY <1>1, <2>1, RowAssumption DEF Manifest
<1>3. PICK f : \/ BeginKitOp(c, Backfilled, Op(m, FALSE, {}, {"blocked"}), <<>>)
               \/ /\ Fit(Backfilled, m, f) = {}
                  /\ BeginKitOp(c, Backfilled,
                         Op(m, FALSE, {}, IF Preflight(Backfilled, m, f) = {} THEN {"failure"}
                                          ELSE Preflight(Backfilled, m, f)), <<>>)
               \/ BeginKitOp(c, Backfilled,
                         Op(m, TRUE, Fit(Backfilled, m, f), Preflight(Backfilled, m, f)), <<>>)
  BY <1>1
<1> DEFINE fit == Fit(Backfilled, m, f)
           before == Preflight(Backfilled, m, f)
<1>4. /\ before \subseteq Several /\ fit \subseteq DOMAIN m
      /\ \A r \in DOMAIN m \ fit : m[r].required => "failure" \in before
      /\ DOMAIN m \subseteq Resources
  BY <1>2, PreflightTyped, ManifestTyped DEF Resources
<1>5. PlainQueue(<<>>) /\ ToSet(<<>>) = {}
  BY ShortQueues DEF PlainQueue
<1>6. ASSUME NEW plan \in BOOLEAN, NEW work \in SUBSET DOMAIN m,
             NEW results \in SUBSET (Several \cup {"blocked", "rolled_back", "rollback_failed"}),
             \A r \in DOMAIN m : m[r].required => r \in work \/ Failing(results),
             \A r \in work : plan, plan => results \subseteq Several,
             BeginKitOp(c, Backfilled, Op(m, plan, work, results), <<>>)
      PROVE  KitInv' /\ AtomicStep /\ SparesStep
  <2> DEFINE op == Op(m, plan, work, results)
  <2>1. /\ op \in KitOps /\ op.kind = "apply" /\ op.kit = k /\ op.target = t /\ op.manifest = m
        /\ op.plan = plan /\ op.work = work /\ op.done = {} /\ op.wrote = FALSE /\ op.results = results
    BY <1>2, <1>4, <1>6 DEF KitOp, KitOps
  <2> HIDE DEF op, Op
  <2>2. ApplyOK(op, {})
    BY <1>2, <1>6, <2>1 DEF ApplyOK
  <2>3. KitOpOK(op, ToSet(<<>>))
    BY <1>5, <2>1, <2>2 DEF KitOpOK
  <2> QED
    BY <1>5, <1>6, <2>3, BeginKitOpKeeps DEF KitInv, op
<1> HIDE DEF Op, fit, before
<1>10. ASSUME NEW results \in SUBSET (Several \cup {"blocked", "rolled_back", "rollback_failed"}),
              \A r \in DOMAIN m : m[r].required => Failing(results),
              BeginKitOp(c, Backfilled, Op(m, FALSE, {}, results), <<>>)
       PROVE  KitInv' /\ AtomicStep /\ SparesStep
  <2>1. PICK plan \in BOOLEAN : plan = FALSE
    OBVIOUS
  <2>2. PICK work \in SUBSET DOMAIN m : work = {}
    OBVIOUS
  <2>3. BeginKitOp(c, Backfilled, Op(m, plan, work, results), <<>>)
    BY <1>10, <2>1, <2>2
  <2>4. /\ \A r \in DOMAIN m : m[r].required => r \in work \/ Failing(results)
        /\ \A r \in work : plan
        /\ plan => results \subseteq Several
    BY <1>10, <2>1, <2>2
  <2> QED
    BY <1>6, <2>3, <2>4
<1>7. CASE BeginKitOp(c, Backfilled, Op(m, FALSE, {}, {"blocked"}), <<>>)
  <2>1. Failing({"blocked"})
    BY DEF Failing
  <2>2. {"blocked"} \in SUBSET (Several \cup {"blocked", "rolled_back", "rollback_failed"})
    OBVIOUS
  <2> QED
    BY <1>10, <1>7, <2>1, <2>2
<1>8. CASE fit = {} /\ BeginKitOp(c, Backfilled, Op(m, FALSE, {}, IF before = {} THEN {"failure"} ELSE before), <<>>)
  <2> DEFINE results == IF before = {} THEN {"failure"} ELSE before
  <2>1. results \in SUBSET (Several \cup {"blocked", "rolled_back", "rollback_failed"})
    BY <1>4 DEF Several
  <2>2. \A r \in DOMAIN m : m[r].required => Failing(results)
    BY <1>4, <1>8 DEF Failing
  <2> HIDE DEF results
  <2> QED
    BY <1>10, <1>8, <2>1, <2>2 DEF results
<1>9. CASE BeginKitOp(c, Backfilled, Op(m, TRUE, fit, before), <<>>)
  <2>1. \A r \in DOMAIN m : m[r].required => r \in fit \/ Failing(before)
    BY <1>4 DEF Failing
  <2>2. before \in SUBSET (Several \cup {"blocked", "rolled_back", "rollback_failed"}) /\ fit \in SUBSET DOMAIN m
    BY <1>4
  <2> QED
    BY <1>4, <1>6, <1>9, <2>1, <2>2
<1> QED
  BY <1>3, <1>7, <1>8, <1>9 DEF fit, before

\* A removal begins with what is under management, or fails.
LEMMA RemoveKeeps ==
    ASSUME KitInv, NEW c \in Calls, made < MaxCalls, NEW k \in Kits, NEW t \in Paths \cup {None},
           RemoveApplication(c, Backfilled, k, t)
    PROVE  KitInv' /\ AtomicStep /\ SparesStep
<1> DEFINE m == StoredManifest(Backfilled, k)
           found == ManagedBindings(Backfilled, k, t)
           plan == found # {}
           results == IF found = {} THEN {"failure"} ELSE {}
           op == KitOp("remove", k, t, m, plan, found, results)
<1>1. m \in Manifest
  BY BackfilledIsGood, StoredTyped DEF KitInv, Good
<1>2. BeginKitOp(c, Backfilled, op, <<>>)
  BY DEF RemoveApplication
<1>3. found \subseteq Places
  BY DEF ManagedBindings
<1> HIDE DEF m, found
<1>4. plan \in BOOLEAN /\ results \in SUBSET (Several \cup {"blocked", "rolled_back", "rollback_failed"})
  BY DEF Several
<1>5. found \in SUBSET (Resources \cup Places)
  BY <1>3
<1> HIDE DEF plan, results
<1>6. /\ op \in KitOps /\ op.kind = "remove" /\ op.done = {} /\ op.work = found /\ op.results = results
      /\ op.plan = plan /\ op.wrote = FALSE
  BY <1>1, <1>4, <1>5 DEF KitOp, KitOps
<1> HIDE DEF op
<1>7. PlainQueue(<<>>) /\ ToSet(<<>>) = {}
  BY ShortQueues DEF PlainQueue
<1>8. \A b \in found : plan
  BY DEF plan
<1>9. plan => results \subseteq Several
  BY DEF plan, results
<1>10. RemoveOK(op, {})
  BY <1>3, <1>6, <1>8, <1>9 DEF RemoveOK
<1>11. KitOpOK(op, ToSet(<<>>))
  BY <1>6, <1>7, <1>10 DEF KitOpOK
<1> QED
  BY <1>2, <1>7, <1>11, BeginKitOpKeeps DEF KitInv

\* A deletion begins with its statements, or fails.
LEMMA DeleteKeeps ==
    ASSUME KitInv, NEW c \in Calls, made < MaxCalls, NEW k \in Kits, NEW with \in BOOLEAN,
           DeleteManifest(c, Backfilled, k, with)
    PROVE  KitInv' /\ AtomicStep /\ SparesStep
<1> DEFINE m == StoredManifest(Backfilled, k)
           kept == ManagedBindings(Backfilled, k, None) # {} /\ ~with
           results == IF kept THEN {"failure"} ELSE {}
           op == KitOp("delete", k, None, m, FALSE, {}, results)
           q == IF kept THEN <<>>
                ELSE IF with THEN <<KitUnbindAll(k), KitForget(k)>> ELSE <<KitForget(k)>>
<1>1. m \in Manifest
  BY BackfilledIsGood, StoredTyped DEF KitInv, Good
<1>2. BeginKitOp(c, Backfilled, op, q)
  BY DEF DeleteManifest
<1>3. results \in SUBSET (Several \cup {"blocked", "rolled_back", "rollback_failed"})
      /\ results \subseteq Several
  BY DEF Several
<1>4. PlainQueue(q) /\ ToSet(q) \subseteq {KitUnbindAll(k), KitForget(k)}
  <2>1. Suits(KitUnbindAll(k)) /\ Suits(KitForget(k))
    BY KitStatementsSuit
  <2>2. /\ PlainQueue(<<>>) /\ ToSet(<<>>) = {}
        /\ PlainQueue(<<KitForget(k)>>) /\ ToSet(<<KitForget(k)>>) = {KitForget(k)}
        /\ PlainQueue(<<KitUnbindAll(k), KitForget(k)>>)
        /\ ToSet(<<KitUnbindAll(k), KitForget(k)>>) = {KitUnbindAll(k), KitForget(k)}
    BY <2>1, ShortQueues DEF PlainQueue
  <2> HIDE DEF kept
  <2> QED
    BY <2>2
<1>5. KitUnbindAll(k).do = "kitUnbindAll" /\ KitForget(k).do = "kitForget"
  BY DEF KitUnbindAll, KitForget
<1> HIDE DEF m, kept, results, q
<1>6. op \in KitOps /\ op.kind = "delete" /\ op.done = {} /\ op.plan = FALSE /\ op.wrote = FALSE
      /\ op.results = results
  BY <1>1, <1>3, NoWork DEF KitOp, KitOps
<1> HIDE DEF op
<1>7. OtherOK(op, ToSet(q))
  BY <1>3, <1>4, <1>5, <1>6 DEF OtherOK
<1>8. KitOpOK(op, ToSet(q))
  BY <1>6, <1>7 DEF KitOpOK
<1> QED
  BY <1>2, <1>4, <1>8, BeginKitOpKeeps DEF KitInv

\* A check begins with its one statement.
LEMMA CheckKeeps ==
    ASSUME KitInv, NEW c \in Calls, made < MaxCalls, NEW k \in Kits, CheckKit(c, Backfilled, k)
    PROVE  KitInv' /\ AtomicStep /\ SparesStep
<1> DEFINE m == StoredManifest(Backfilled, k)
           op == KitOp("check", k, None, m, FALSE, {}, {})
<1>1. m \in Manifest
  BY BackfilledIsGood, StoredTyped DEF KitInv, Good
<1>2. PICK s \in {KitDrift(k), KitAudit(k)} : BeginKitOp(c, Backfilled, op, <<s>>)
  BY DEF CheckKit
<1> HIDE DEF m
<1>3. op \in KitOps /\ op.kind = "check" /\ op.done = {} /\ op.plan = FALSE /\ op.wrote = FALSE
      /\ op.results = {}
  BY <1>1, NoWork DEF KitOp, KitOps
<1>4. s.do \in {"kitDrift", "kitAudit"}
  BY DEF KitDrift, KitAudit
<1>5. PlainQueue(<<s>>) /\ ToSet(<<s>>) = {s}
  BY ShortQueues, KitStatementsSuit DEF PlainQueue
<1> HIDE DEF op
<1>6. OtherOK(op, ToSet(<<s>>))
  BY <1>3, <1>4, <1>5 DEF OtherOK
<1>7. KitOpOK(op, ToSet(<<s>>))
  BY <1>3, <1>6 DEF KitOpOK
<1> QED
  BY <1>2, <1>5, <1>7, BeginKitOpKeeps DEF KitInv

\* An operation of kits begins.
LEMMA StartKitOpKeeps ==
    ASSUME KitInv, NEW c \in Calls, StartKitOp(c)
    PROVE  KitInv' /\ AtomicStep /\ SparesStep
<1>1. made < MaxCalls
  BY DEF StartKitOp
<1>2. PICK k \in Kits :
        \/ ImportManifest(c, Backfilled, k) \/ GenerateManifest(c, Backfilled, k) \/ CheckKit(c, Backfilled, k)
        \/ \E t \in Paths : Apply(c, Backfilled, k, t)
        \/ \E t \in Paths \cup {None} :
             RemoveApplication(c, Backfilled, k, t) \/ ExportManifest(c, Backfilled, k, t)
        \/ \E with \in BOOLEAN : DeleteManifest(c, Backfilled, k, with)
  BY DEF StartKitOp
<1>3. CASE ImportManifest(c, Backfilled, k)
  <2>1. PICK m \in Manifests : RecordManifest(c, Backfilled, "import", k, m)
    BY <1>3 DEF ImportManifest
  <2>2. m \in Manifest
    BY RowAssumption DEF Manifest
  <2> QED
    BY <1>1, <2>1, <2>2, RecordManifestKeeps
<1>4. CASE GenerateManifest(c, Backfilled, k)
  <2>1. PICK p \in Projects \cup {None} :
          LET rows == {b \in ListedRows(Backfilled) : /\ b[1] \in Extensions \cup AgentFiles
                                                      /\ Backfilled.binding[b].project = p}
              m == [r \in {b[1] : b \in rows} |->
                       Reference(HashOfRow(Backfilled, CHOOSE b \in rows : b[1] = r), TRUE)]
          IN  rows # {} /\ RecordManifest(c, Backfilled, "generate", k, m)
    BY <1>4 DEF GenerateManifest
  <2> DEFINE rows == {b \in ListedRows(Backfilled) : /\ b[1] \in Extensions \cup AgentFiles
                                                     /\ Backfilled.binding[b].project = p}
             m == [r \in {b[1] : b \in rows} |->
                       Reference(HashOfRow(Backfilled, CHOOSE b \in rows : b[1] = r), TRUE)]
  <2>2. RecordManifest(c, Backfilled, "generate", k, m)
    BY <2>1
  <2>3. Backfilled \in Graphs
    BY BackfilledIsGood DEF KitInv, Good
  <2>4. rows \in SUBSET ListedRows(Backfilled) /\ \A b \in rows : b[1] \in Extensions \cup AgentFiles
    OBVIOUS
  <2>5. m \in KitManifests
    <3> HIDE DEF rows
    <3> QED
      BY <2>3, <2>4, GeneratedTyped
  <2> HIDE DEF m
  <2> QED
    BY <1>1, <2>2, <2>5, RecordManifestKeeps DEF Manifest
<1> QED
  BY <1>1, <1>2, <1>3, <1>4, CheckKeeps, ApplyKeeps, RemoveKeeps, ExportKeeps, DeleteKeeps

------------------------------------------------------------------------------
(* The kits: operations go on                                              *)

\* What an operation can have come to, and what is added to it.
AllResults == Several \cup {"blocked", "rolled_back", "rollback_failed"}
With(op, result) == [op EXCEPT !.results = @ \cup {result}]
WithDone(op, x) == [op EXCEPT !.results = @ \cup {"success"}, !.done = @ \cup {x}, !.wrote = TRUE]
Touched(op, w) == [op EXCEPT !.wrote = @ \/ w]

\* What changes in an operation when a result is added to it.
LEMMA ResultAdded ==
    ASSUME NEW op \in KitOps, NEW result \in Several
    PROVE  /\ With(op, result) \in KitOps
           /\ With(op, result).results = op.results \cup {result}
           /\ With(op, result).kind = op.kind /\ With(op, result).kit = op.kit
           /\ With(op, result).target = op.target /\ With(op, result).manifest = op.manifest
           /\ With(op, result).plan = op.plan /\ With(op, result).work = op.work
           /\ With(op, result).done = op.done /\ With(op, result).wrote = op.wrote
BY DEF With, KitOps, Several

\* What changes in an operation when a part of it is done.
LEMMA DoneAdded ==
    ASSUME NEW op \in KitOps, NEW x \in Resources \cup Places
    PROVE  /\ WithDone(op, x) \in KitOps
           /\ WithDone(op, x).results = op.results \cup {"success"}
           /\ WithDone(op, x).kind = op.kind /\ WithDone(op, x).kit = op.kit
           /\ WithDone(op, x).target = op.target /\ WithDone(op, x).manifest = op.manifest
           /\ WithDone(op, x).plan = op.plan /\ WithDone(op, x).work = op.work
           /\ WithDone(op, x).done = op.done \cup {x}
BY DEF WithDone, KitOps, Several

\* A binding has changed, or has not: the results are those of a part of the operation.
LEMMA TouchedGoesOn ==
    ASSUME NEW op, NEW S, KitOpOK(op, S), ~op.plan, op.results \subseteq Several, NEW w \in BOOLEAN
    PROVE  KitOpOK(Touched(op, w), S)
<1> DEFINE next == Touched(op, w)
<1>1. op \in KitOps
  BY DEF KitOpOK
<1>2. PICK v \in BOOLEAN : v = (op.wrote \/ w)
  OBVIOUS
<1>3. next = [op EXCEPT !.wrote = v]
  BY <1>2 DEF Touched
<1>4. /\ next \in KitOps /\ next.results = op.results /\ next.kind = op.kind
      /\ next.kit = op.kit /\ next.target = op.target /\ next.manifest = op.manifest
      /\ next.plan = op.plan /\ next.work = op.work /\ next.done = op.done
  BY <1>1, <1>3 DEF KitOps
<1> HIDE DEF next
<1>5. op.kind = "apply" => ApplyOK(next, S)
  BY <1>4 DEF KitOpOK, ApplyOK
<1>6. op.kind = "remove" => RemoveOK(next, S)
  BY <1>4 DEF KitOpOK, RemoveOK
<1>7. op.kind \notin {"apply", "remove"} => OtherOK(next, S)
  BY <1>4 DEF KitOpOK, OtherOK
<1>8. KitOpOK(next, S)
  BY <1>4, <1>5, <1>6, <1>7 DEF KitOpOK
<1> QED
  BY <1>8 DEF next

\* A failure makes up for whatever was not done, a success for nothing else.
LEMMA StillFailing ==
    ASSUME NEW results
    PROVE  /\ Failing(results \cup {"failure"})
           /\ \A result : Failing(results) => Failing(results \cup {result})
BY DEF Failing

\* The operations that may have statements of a kind.
LEMMA KindOfStatement ==
    ASSUME NEW op, NEW S, KitOpOK(op, S), NEW s \in S
    PROVE  /\ op \in KitOps /\ ~op.plan /\ op.results \subseteq Several /\ s.do \notin RemovalVerbs
           /\ s.do \in {"kitBind", "kitBound", "kitApplied"} <=> op.kind = "apply"
           /\ s.do = "kitUnbind" => op.kind \in {"remove", "delete"}
           /\ s.do \in {"kitRecord", "kitUnbindAll", "kitForget", "kitDrift", "kitAudit"}
                => op.kind \notin {"apply", "remove"}
           /\ op.kind = "remove" => s.do = "kitUnbind"
<1>1. op \in KitOps /\ (op.plan => S = {})
  BY DEF KitOpOK
<1>2. ~op.plan
  BY <1>1
<1>3. CASE op.kind = "apply"
  BY <1>1, <1>2, <1>3 DEF KitOpOK, ApplyOK, RemovalVerbs
<1>4. CASE op.kind = "remove"
  BY <1>1, <1>2, <1>4 DEF KitOpOK, RemoveOK, RemovalVerbs
<1>5. CASE op.kind \notin {"apply", "remove"}
  BY <1>1, <1>2, <1>5 DEF KitOpOK, OtherOK, RemovalVerbs
<1> QED
  BY <1>3, <1>4, <1>5

\* What is neither an application nor a removal of one.
LEMMA OtherGoesOn ==
    ASSUME NEW op, NEW S, KitOpOK(op, S), op.kind \notin {"apply", "remove"}, S # {},
           NEW T, \A s \in T : s \in S \/ (s.do = "kitUnbind" /\ op.kind = "delete"),
           NEW next \in KitOps, next.kind = op.kind, next.plan = op.plan, next.done = op.done,
           next.results \subseteq Several
    PROVE  KitOpOK(next, T)
<1>1. OtherOK(op, S) /\ op.done = {} /\ ~op.plan
  BY DEF KitOpOK, OtherOK
<1>2. OtherOK(next, T)
  BY <1>1 DEF OtherOK
<1> QED
  BY <1>1, <1>2 DEF KitOpOK

\* A statement of an application or of a removal that fails.
LEMMA FailureGoesOn ==
    ASSUME NEW op, NEW s, NEW T, KitOpOK(op, {s} \cup T), op.kind \in {"apply", "remove"}
    PROVE  KitOpOK(With(op, "failure"), T)
<1> DEFINE next == With(op, "failure")
<1>1. op \in KitOps /\ ~op.plan
  BY DEF KitOpOK
<1>2. /\ next \in KitOps /\ next.results = op.results \cup {"failure"} /\ next.kind = op.kind
      /\ next.kit = op.kit /\ next.target = op.target /\ next.manifest = op.manifest
      /\ next.plan = op.plan /\ next.work = op.work /\ next.done = op.done
  BY <1>1, ResultAdded DEF Several
<1>3. Failing(next.results)
  BY <1>2, StillFailing
<1> HIDE DEF next
<1>4. op.results \subseteq Several
  BY DEF KitOpOK, ApplyOK, RemoveOK
<1>5. next.results \subseteq Several /\ (next.done # {} => "success" \in next.results)
  BY <1>2, <1>4 DEF KitOpOK, Several
<1>6. op.kind = "apply" => ApplyOK(next, T)
  BY <1>2, <1>3, <1>5 DEF KitOpOK, ApplyOK
<1>7. op.kind = "remove" => RemoveOK(next, T)
  BY <1>2, <1>3, <1>5 DEF KitOpOK, RemoveOK
<1>8. KitOpOK(next, T)
  BY <1>1, <1>2, <1>5, <1>6, <1>7 DEF KitOpOK
<1> QED
  BY <1>8 DEF next

\* A binding that is still to be written is written in two statements.
LEMMA BindGoesOn ==
    ASSUME NEW op, NEW s, NEW T, KitOpOK(op, {s} \cup T), op.kind = "apply",
           NEW b, b.do = "kitBound", b.id = s.id, s.do \in {"kitBind", "kitApplied"}
    PROVE  KitOpOK(op, {b} \cup T)
<1>1. ApplyOK(op, {s} \cup T) /\ ~op.plan /\ op \in KitOps
  BY DEF KitOpOK
<1>2. b.id \in op.work \/ b.id = op.kit
  BY <1>1 DEF ApplyOK
<1>3. \A x \in {b} \cup T : \/ x.do = "kitBind" /\ x.id \in op.work
                            \/ x.do = "kitBound" /\ (x.id \in op.work \/ x.id = op.kit)
                            \/ x.do = "kitApplied" /\ x.id = op.kit
  BY <1>1, <1>2 DEF ApplyOK
<1>4. \A r \in op.work : \/ op.plan \/ r \in op.done \/ Failing(op.results)
                         \/ \E x \in {b} \cup T : x.do \in {"kitBind", "kitBound"} /\ x.id = r
  BY <1>1 DEF ApplyOK
<1>5. ApplyOK(op, {b} \cup T)
  BY <1>1, <1>3, <1>4 DEF ApplyOK
<1> QED
  BY <1>1, <1>5 DEF KitOpOK

\* A binding is written: its resource is done, or it is the kit's own.
LEMMA BoundGoesOn ==
    ASSUME NEW op, NEW s, NEW T, KitOpOK(op, {s} \cup T), op.kind = "apply", s.do = "kitBound"
    PROVE  /\ s.id \in Kits => KitOpOK(Touched(op, TRUE), T)
           /\ s.id \notin Kits => s.id \in Resources /\ KitOpOK(WithDone(op, s.id), T)
<1>1. ApplyOK(op, {s} \cup T) /\ ~op.plan /\ op \in KitOps
  BY DEF KitOpOK
<1>2. op.work \subseteq Extensions \cup AgentFiles
  BY <1>1, ManifestTyped DEF ApplyOK
<1>3. ASSUME s.id \in Kits PROVE KitOpOK(Touched(op, TRUE), T)
  <2>1. s.id \notin op.work
    BY <1>2, <1>3, LifecycleAssumption
  <2>2. ApplyOK(op, T)
    BY <1>1, <2>1 DEF ApplyOK
  <2>3. KitOpOK(op, T) /\ op.results \subseteq Several
    BY <1>1, <2>2 DEF KitOpOK, ApplyOK
  <2> QED
    BY <1>1, <2>3, TouchedGoesOn
<1>4. ASSUME s.id \notin Kits PROVE s.id \in Resources /\ KitOpOK(WithDone(op, s.id), T)
  <2> DEFINE next == WithDone(op, s.id)
  <2>1. s.id \in op.work
    BY <1>1, <1>4 DEF ApplyOK, KitOps
  <2>2. s.id \in Resources
    BY <1>2, <2>1 DEF Resources
  <2>3. /\ next \in KitOps /\ next.results = op.results \cup {"success"} /\ next.kind = op.kind
        /\ next.kit = op.kit /\ next.target = op.target /\ next.manifest = op.manifest
        /\ next.plan = op.plan /\ next.work = op.work /\ next.done = op.done \cup {s.id}
    BY <1>1, <2>2, DoneAdded
  <2>4. Failing(op.results) => Failing(next.results)
    BY <2>3 DEF Failing
  <2>5. next.results \subseteq Several /\ "success" \in next.results
    BY <1>1, <2>3 DEF ApplyOK, Several
  <2> HIDE DEF next
  <2>6. ApplyOK(next, T)
    BY <1>1, <2>3, <2>4, <2>5 DEF ApplyOK
  <2>7. KitOpOK(next, T)
    BY <1>1, <2>3, <2>5, <2>6 DEF KitOpOK
  <2> QED
    BY <2>2, <2>7 DEF next
<1> QED
  BY <1>3, <1>4

\* A binding is removed.
LEMMA UnboundGoesOn ==
    ASSUME NEW op, NEW s, NEW T, KitOpOK(op, {s} \cup T), op.kind = "remove"
    PROVE  KitOpOK(WithDone(op, <<s.id, s.key>>), T)
<1> DEFINE b == <<s.id, s.key>>
           next == WithDone(op, b)
<1>1. RemoveOK(op, {s} \cup T) /\ ~op.plan /\ op \in KitOps
  BY DEF KitOpOK
<1>2. b \in op.work /\ b \in Resources \cup Places
  BY <1>1 DEF RemoveOK
<1> HIDE DEF b
<1>3. /\ next \in KitOps /\ next.results = op.results \cup {"success"} /\ next.kind = op.kind
      /\ next.plan = op.plan /\ next.work = op.work /\ next.done = op.done \cup {b}
  BY <1>1, <1>2, DoneAdded
<1>4. Failing(op.results) => Failing(next.results)
  BY <1>3 DEF Failing
<1>5. next.results \subseteq Several /\ "success" \in next.results
  BY <1>1, <1>3 DEF RemoveOK, Several
<1> HIDE DEF next
<1>6. RemoveOK(next, T)
  BY <1>1, <1>2, <1>3, <1>4, <1>5 DEF RemoveOK, b
<1>7. KitOpOK(next, T)
  BY <1>1, <1>3, <1>5, <1>6 DEF KitOpOK
<1> QED
  BY <1>7 DEF next, b

\* The step of an operation of kits, but for the graph and the operation.
LEMMA KitRun ==
    ASSUME KitInv, NEW c \in Calls, ~Idle(c), kitOp[c] # None,
           UNCHANGED <<tables, made, disk, removal>>, GraphOK',
           NEW q, PlainQueue(q), todo' = Then(c, q),
           NEW op, kitOp' = [kitOp EXCEPT ![c] = op], KitOpOK(op, ToSet(q) \cup ToSet(Tail(todo[c])))
    PROVE  KitInv'
<1>1. KitOpOK(kitOp[c], ToSet(todo[c])) /\ Head(todo[c]) \in ToSet(todo[c])
  BY AtHead DEF KitInv, KitsOK
<1>2. Head(todo[c]).do \notin RemovalVerbs
  BY <1>1, KindOfStatement
<1>3. /\ TodoOK' /\ RemovalOK' /\ \A d \in Calls : d # c => todo'[d] = todo[d]
      /\ ToSet(todo'[c]) = ToSet(q) \cup ToSet(Tail(todo[c]))
  BY <1>2, PlainRun DEF KitInv
<1>4. KitsOK'
  BY <1>3, KitReplaced DEF KitInv
<1>5. TablesOK' /\ DiskOK'
  BY DEF KitInv, TablesOK, DiskOK
<1> QED
  BY <1>3, <1>4, <1>5 DEF KitInv

\* The same for a statement that leaves none behind.
LEMMA KitRest ==
    ASSUME KitInv, NEW c \in Calls, ~Idle(c), kitOp[c] # None,
           UNCHANGED <<tables, made, disk, removal>>, GraphOK', todo' = Rest(c),
           NEW op, kitOp' = [kitOp EXCEPT ![c] = op], KitOpOK(op, ToSet(Tail(todo[c])))
    PROVE  KitInv'
<1>1. KitOpOK(kitOp[c], ToSet(todo[c])) /\ Head(todo[c]) \in ToSet(todo[c])
  BY AtHead DEF KitInv, KitsOK
<1>2. Head(todo[c]).do \notin RemovalVerbs
  BY <1>1, KindOfStatement
<1>3. /\ TodoOK' /\ RemovalOK' /\ \A d \in Calls : d # c => todo'[d] = todo[d]
      /\ todo'[c] = Tail(todo[c])
  BY <1>2, PlainRest DEF KitInv
<1>4. KitsOK'
  BY <1>3, KitReplaced DEF KitInv
<1>5. TablesOK' /\ DiskOK'
  BY DEF KitInv, TablesOK, DiskOK
<1> QED
  BY <1>3, <1>4, <1>5 DEF KitInv

\* What is known of the statement at the head of an operation's queue.
LEMMA KitHead ==
    ASSUME KitInv, NEW c \in Calls, ~Idle(c), kitOp[c] # None
    PROVE  /\ KitOpOK(kitOp[c], {Head(todo[c])} \cup ToSet(Tail(todo[c])))
           /\ kitOp[c] \in KitOps /\ Fits(Head(todo[c]))
           /\ ~kitOp[c].plan /\ kitOp[c].results \subseteq Several
           /\ Head(todo[c]).do \in {"kitBind", "kitBound", "kitApplied"} <=> kitOp[c].kind = "apply"
           /\ Head(todo[c]).do = "kitUnbind" => kitOp[c].kind \in {"remove", "delete"}
           /\ Head(todo[c]).do \in {"kitRecord", "kitUnbindAll", "kitForget", "kitDrift", "kitAudit"}
                => kitOp[c].kind \notin {"apply", "remove"}
           /\ kitOp = [kitOp EXCEPT ![c] = kitOp[c]]
           /\ kitOp[c].manifest \in Manifest /\ kitOp[c].kit \in Kits
<1> DEFINE op == kitOp[c]
           s == Head(todo[c])
           S == {s} \cup ToSet(Tail(todo[c]))
<1>1. Fits(s) /\ ToSet(todo[c]) = S
  BY AtHead DEF KitInv
<1>2. KitOpOK(op, S)
  BY <1>1 DEF KitInv, KitsOK
<1>3. kitOp = [kitOp EXCEPT ![c] = op]
  BY DEF KitInv, KitsOK
<1>4. s \in S
  OBVIOUS
<1> HIDE DEF op, s, S
<1>5. /\ op \in KitOps /\ ~op.plan /\ op.results \subseteq Several
      /\ s.do \in {"kitBind", "kitBound", "kitApplied"} <=> op.kind = "apply"
      /\ s.do = "kitUnbind" => op.kind \in {"remove", "delete"}
      /\ s.do \in {"kitRecord", "kitUnbindAll", "kitForget", "kitDrift", "kitAudit"}
           => op.kind \notin {"apply", "remove"}
  BY <1>2, <1>4, KindOfStatement
<1>6. op.manifest \in Manifest /\ op.kit \in Kits
  BY <1>5 DEF KitOps
<1> QED
  BY <1>1, <1>2, <1>3, <1>5, <1>6 DEF op, s, S

\* A result put down in the operation of a caller.
LEMMA ResultsPutDown ==
    ASSUME KitInv, NEW c \in Calls, NEW x, NEW result
    PROVE  /\ Result(c, result) = [kitOp EXCEPT ![c] = With(kitOp[c], result)]
           /\ Done(c, x) = [kitOp EXCEPT ![c] = WithDone(kitOp[c], x)]
           /\ Wrote(c) = [kitOp EXCEPT ![c] = Touched(kitOp[c], TRUE)]
BY DEF Result, Done, Wrote, With, WithDone, Touched, KitInv, KitsOK

\* What has come of the resources of an application is a status of its kit.
LEMMA ReachedIsAStatus ==
    ASSUME NEW results \in SUBSET Several
    PROVE  Aggregate(results, "success") \in {"success", "partial_success", "failure"}
<1>1. results \notin {{"blocked"}, {"disabled"}, {"rolled_back"}, {"dry_run"}}
  BY DEF Several
<1>2. "rollback_failed" \notin results
  BY DEF Several
<1> QED
  BY <1>1, <1>2 DEF Aggregate

\* A kit's binding is removed: its metadata names the kit.
LEMMA BindingRemoved ==
    ASSUME GraphOK, NEW b \in Places, NEW k \in Kits, NEW t \in Paths \cup {None}, Removable(b, k, t),
           graph' = [graph EXCEPT !.binding[b] = None]
    PROVE  GraphOK' /\ AtomicStep /\ SparesStep
<1> DEFINE f == [graph.binding EXCEPT ![b] = None]
<1>1. graph \in Graphs /\ OwnAgents(graph)
  BY DEF GraphOK
<1>2. graph.binding \in [Places -> BindingRow \cup {None}]
  BY <1>1, GraphFields
<1>3. f \in [Places -> BindingRow \cup {None}] /\ \A a \in Places : a # b => f[a] = graph.binding[a]
  BY <1>2
<1>4. graph' = [graph EXCEPT !.binding = f]
  OBVIOUS
<1>5. graph.binding[b].meta # None
  <2>1. PICK u \in Paths : graph.binding[b].meta = <<k, u>>
    BY DEF Removable
  <2> QED
    BY <2>1, RowsAreThere
<1> HIDE DEF f
<1>6. graph' \in Graphs /\ graph'.resource = graph.resource /\ graph'.binding = f
  BY <1>1, <1>3, <1>4 DEF Graphs
<1>7. GraphOK'
  BY <1>1, <1>6 DEF GraphOK, OwnAgents
<1>8. AtomicStep
  BY <1>6 DEF AtomicStep
<1>9. SparesStep
  <2>1. Extensions \X Keys \subseteq Places
    BY DEF Places, Resources
  <2> QED
    BY <1>3, <1>5, <1>6, <2>1 DEF SparesStep
<1> QED
  BY <1>7, <1>8, <1>9

\* The kit is deleted: no project, no binding of an extension.
LEMMA KitForgotten ==
    ASSUME GraphOK, NEW k \in Kits,
           graph' = [graph EXCEPT !.resource[k] = None, !.binding = Without(@, {k})]
    PROVE  GraphOK' /\ AtomicStep /\ SparesStep
<1> DEFINE rows == [graph.resource EXCEPT ![k] = None]
           left == Without(graph.binding, {k})
<1>1. graph \in Graphs /\ OwnAgents(graph)
  BY DEF GraphOK
<1>2. /\ rows \in [Resources -> ResourceRow \cup {None}]
      /\ \A r \in Resources : r # k => rows[r] = graph.resource[r]
      /\ rows[k] = None
  BY <1>1, GraphFields DEF Resources
<1>3. /\ left \in [Places -> BindingRow \cup {None}]
      /\ \A b \in Places : b[1] # k => left[b] = graph.binding[b]
  BY <1>1, GraphFields DEF Without
<1>4. k \notin Projects /\ k \notin Extensions
  BY LifecycleAssumption
<1>5. Projects \subseteq Resources /\ Extensions \X Keys \subseteq Places
  BY DEF Places, Resources
<1>6. graph' = [graph EXCEPT !.resource = rows, !.binding = left]
  OBVIOUS
<1> HIDE DEF rows, left
<1>7. graph' \in Graphs /\ graph'.resource = rows /\ graph'.binding = left
  BY <1>1, <1>2, <1>3, <1>6 DEF Graphs
<1>8. OwnAgents(graph')
  <2> SUFFICES ASSUME NEW r \in Resources, graph'.resource[r] # None, graph'.resource[r].origin = "agent"
               PROVE  r \in AgentFiles
    BY DEF OwnAgents
  <2>1. graph'.resource[r] = graph.resource[r]
    BY <1>2, <1>7
  <2> QED
    BY <1>1, <2>1 DEF OwnAgents
<1>9. \A q \in Projects : graph.resource[q] # None => graph'.resource[q] # None
  BY <1>2, <1>4, <1>5, <1>7
<1>10. \A b \in Extensions \X Keys : graph.binding[b] # None => graph'.binding[b] # None
  BY <1>3, <1>4, <1>5, <1>7
<1>11. Good(graph')
  BY <1>7, <1>8, <1>9, <1>10 DEF Good, Kept
<1> QED
  BY <1>11, GoodStep

\* What the statement at the head of an operation's queue writes keeps the record.
LEMMA KitWritten ==
    ASSUME KitInv, NEW c \in Calls, ~Idle(c), kitOp[c] # None,
           graph' \in KitWrites(c, Head(todo[c]))
    PROVE  GraphOK' /\ AtomicStep /\ SparesStep
<1> DEFINE s == Head(todo[c])
           op == kitOp[c]
           b == <<s.id, s.key>>
<1>1. /\ KitOpOK(op, {s} \cup ToSet(Tail(todo[c]))) /\ op \in KitOps /\ Fits(s)
      /\ op.results \in SUBSET Several /\ op.manifest \in Manifest
  BY KitHead
<1>2. GraphOK
  BY DEF KitInv
<1>3. ASSUME NEW st, s.id \in Kits,
             graph' = [graph EXCEPT !.resource[s.id] = Resource("kit", st, op.manifest)]
      PROVE  GraphOK' /\ AtomicStep /\ SparesStep
  <2> DEFINE row == Resource("kit", st, op.manifest)
  <2>1. row \in ResourceRow /\ row.origin = "kit" /\ s.id \in Resources
    BY <1>1, <1>3, ResourceTyped DEF Resources
  <2>2. graph' = [graph EXCEPT !.resource[s.id] = row]
    BY <1>3
  <2> HIDE DEF row, s, op
  <2>3. Good(graph')
    BY <1>2, <2>1, <2>2, ResourcePut
  <2> QED
    BY <2>3, GoodStep
<1>4. CASE s.do = "kitRecord"
  <2>1. s.id \in Kits
    BY <1>1, <1>4 DEF Fits
  <2>2. graph' = [graph EXCEPT !.resource[s.id] = Resource("kit", "metadata_refresh", op.manifest)]
    BY <1>4 DEF KitWrites
  <2> QED
    BY <1>3, <2>1, <2>2
<1>5. CASE s.do = "kitApplied"
  <2>1. s.id \in Kits
    BY <1>1, <1>5 DEF Fits
  <2>2. graph' = [graph EXCEPT !.resource[s.id] = Resource("kit", Reached(c), op.manifest)]
    BY <1>5 DEF KitWrites
  <2> QED
    BY <1>3, <2>1, <2>2
<1>6. CASE s.do = "kitBound"
  <2> DEFINE row == KitBinding(s.status, s.key[1], s.key[2])
  <2>1. graph' = [graph EXCEPT !.binding[b] = row]
    BY <1>6 DEF KitWrites
  <2>2. s.id \in Resources /\ s.key \in Kits \X Paths /\ s.status \in Statuses
    BY <1>1, <1>6 DEF Fits
  <2>3. s.key[1] \in Kits /\ s.key[2] \in Paths /\ <<s.key[1], s.key[2]>> \in (Kits \X Paths) \cup {None}
    BY <2>2
  <2>4. row \in BindingRow
    BY <2>2, <2>3, BindingTyped DEF KitBinding
  <2>5. b \in Places
    BY <2>2 DEF Places, Keys
  <2> HIDE DEF row, b, s
  <2>6. Good(graph')
    BY <1>2, <2>1, <2>4, <2>5, BindingPut
  <2> QED
    BY <2>6, GoodStep
<1>7. CASE s.do = "kitUnbind"
  <2>1. s.id \in Resources /\ s.key \in Keys /\ s.kit \in Kits /\ s.target \in Paths \cup {None}
    BY <1>1, <1>7 DEF Fits
  <2>2. b \in Places
    BY <2>1 DEF Places
  <2>3. graph' = IF Removable(b, s.kit, s.target) THEN [graph EXCEPT !.binding[b] = None] ELSE graph
    BY <1>7 DEF KitWrites
  <2> HIDE DEF b, s
  <2>4. CASE Removable(b, s.kit, s.target)
    BY <1>2, <2>1, <2>2, <2>3, <2>4, BindingRemoved
  <2>5. CASE ~Removable(b, s.kit, s.target)
    <3>1. Good(graph')
      BY <1>2, <2>3, <2>5, GraphKept
    <3> QED
      BY <3>1, GoodStep
  <2> QED
    BY <2>4, <2>5
<1>8. CASE s.do = "kitForget"
  <2>1. s.id \in Kits
    BY <1>1, <1>8 DEF Fits
  <2>2. graph' = IF graph.resource[s.id] = None THEN graph
                 ELSE [graph EXCEPT !.resource[s.id] = None, !.binding = Without(@, {s.id})]
    BY <1>8 DEF KitWrites
  <2> HIDE DEF s
  <2>3. CASE graph.resource[s.id] = None
    <3>1. Good(graph')
      BY <1>2, <2>2, <2>3, GraphKept
    <3> QED
      BY <3>1, GoodStep
  <2>4. CASE graph.resource[s.id] # None
    <3>1. graph' = [graph EXCEPT !.resource[s.id] = None, !.binding = Without(@, {s.id})]
      BY <2>2, <2>4
    <3> QED
      BY <1>2, <2>1, <3>1, KitForgotten
  <2> QED
    BY <2>3, <2>4
<1>9. CASE s.do = "kitAudit"
  <2>1. PICK verdict \in {"SAFE", "SECURITY_RISK"} : graph' = Audited(<<s.id, Legacy>>, verdict)
    BY <1>9 DEF KitWrites
  <2>2. <<s.id, Legacy>> \in Places
    BY <1>1, <1>9 DEF Fits, Places, Resources, Keys
  <2> HIDE DEF s
  <2>3. Good(graph')
    BY <1>2, <2>1, <2>2, AuditedIsGood
  <2> QED
    BY <2>3, GoodStep
<1>10. CASE s.do \notin {"kitRecord", "kitApplied", "kitBound", "kitUnbind", "kitForget", "kitAudit"}
  <2>1. graph' = graph
    BY <1>10 DEF KitWrites
  <2>2. Good(graph')
    BY <1>2, <2>1, GraphKept
  <2> QED
    BY <2>2, GoodStep
<1> QED
  BY <1>4, <1>5, <1>6, <1>7, <1>8, <1>9, <1>10

\* The statements of the kits one by one: the manifest is recorded.
LEMMA KitRecordKeeps ==
    ASSUME KitInv, NEW c \in Calls, ~Idle(c), kitOp[c] # None,
           UNCHANGED <<tables, made, disk, removal>>, ExecKitRecord(c, Head(todo[c]))
    PROVE  KitInv' /\ AtomicStep /\ SparesStep
<1> DEFINE s == Head(todo[c])
           op == kitOp[c]
<1>1. /\ s.do = "kitRecord" /\ graph' \in KitWrites(c, s)
      /\ todo' = Rest(c) /\ kitOp' = kitOp
  BY DEF ExecKitRecord
<1>2. /\ KitOpOK(op, {s} \cup ToSet(Tail(todo[c]))) /\ op \in KitOps
      /\ op.kind \notin {"apply", "remove"} /\ kitOp = [kitOp EXCEPT ![c] = op]
      /\ op.results \subseteq Several
  BY <1>1, KitHead
<1>3. KitOpOK(op, ToSet(Tail(todo[c])))
  <2> HIDE DEF s, op
  <2> QED
    BY <1>2, OtherGoesOn
<1>4. GraphOK' /\ AtomicStep /\ SparesStep
  BY <1>1, KitWritten
<1> HIDE DEF s, op
<1> QED
  BY <1>1, <1>2, <1>3, <1>4, KitRest

\* A resource is looked up before its binding is written.
LEMMA KitBindKeeps ==
    ASSUME KitInv, NEW c \in Calls, ~Idle(c), kitOp[c] # None,
           UNCHANGED <<tables, made, disk, removal>>, ExecKitBind(c, Head(todo[c]))
    PROVE  KitInv' /\ AtomicStep /\ SparesStep
<1> DEFINE s == Head(todo[c])
           op == kitOp[c]
           T == ToSet(Tail(todo[c]))
           b == KitBound(s.id, s.key[1], s.key[2], "enabled")
<1>1. /\ s.do = "kitBind" /\ graph' = graph
      /\ \/ kitOp' = Result(c, "failure") /\ todo' = Rest(c)
         \/ todo' = Then(c, <<b>>) /\ kitOp' = kitOp
  BY DEF ExecKitBind
<1>2. /\ KitOpOK(op, {s} \cup T) /\ op.kind = "apply" /\ kitOp = [kitOp EXCEPT ![c] = op]
      /\ s.id \in Resources /\ s.key \in Kits \X Paths
  BY <1>1, KitHead DEF Fits
<1>3. GraphOK' /\ AtomicStep /\ SparesStep
  <2>1. Good(graph')
    BY <1>1, GraphKept DEF KitInv
  <2> QED
    BY <2>1, GoodStep
<1>4. b.do = "kitBound" /\ b.id = s.id /\ PlainQueue(<<b>>) /\ ToSet(<<b>>) = {b}
  <2>1. s.key[1] \in Kits /\ s.key[2] \in Paths /\ "enabled" \in Statuses
    BY <1>2 DEF Statuses
  <2>2. Suits(b)
    BY <1>2, <2>1, KitStatementsSuit
  <2>3. b.do = "kitBound" /\ b.id = s.id
    BY DEF KitBound
  <2> HIDE DEF b
  <2> QED
    BY <2>2, <2>3, ShortQueues DEF PlainQueue
<1>5. KitOpOK(With(op, "failure"), T) /\ KitOpOK(op, {b} \cup T)
  <2> HIDE DEF s, op, T, b
  <2> QED
    BY <1>1, <1>2, <1>4, FailureGoesOn, BindGoesOn
<1>6. Result(c, "failure") = [kitOp EXCEPT ![c] = With(op, "failure")]
  BY ResultsPutDown
<1> HIDE DEF s, op, b
<1>7. CASE kitOp' = Result(c, "failure") /\ todo' = Rest(c)
  BY <1>1, <1>3, <1>5, <1>6, <1>7, KitRest
<1>8. CASE todo' = Then(c, <<b>>) /\ kitOp' = kitOp
  BY <1>1, <1>2, <1>3, <1>4, <1>5, <1>8, KitRun
<1> QED
  BY <1>1, <1>7, <1>8

\* A binding is written, of a resource or of the kit itself.
LEMMA KitBoundKeeps ==
    ASSUME KitInv, NEW c \in Calls, ~Idle(c), kitOp[c] # None,
           UNCHANGED <<tables, made, disk, removal>>, ExecKitBound(c, Head(todo[c]))
    PROVE  KitInv' /\ AtomicStep /\ SparesStep
<1> DEFINE s == Head(todo[c])
           op == kitOp[c]
           T == ToSet(Tail(todo[c]))
<1>1. /\ s.do = "kitBound" /\ graph' \in KitWrites(c, s)
      /\ kitOp' = (IF s.id \in Kits THEN Wrote(c) ELSE Done(c, s.id)) /\ todo' = Rest(c)
  BY DEF ExecKitBound
<1>2. KitOpOK(op, {s} \cup T) /\ op.kind = "apply"
  BY <1>1, KitHead
<1>3. GraphOK' /\ AtomicStep /\ SparesStep
  BY <1>1, KitWritten
<1>4. /\ s.id \in Kits => KitOpOK(Touched(op, TRUE), T)
      /\ s.id \notin Kits => KitOpOK(WithDone(op, s.id), T)
  <2> HIDE DEF s, op, T
  <2> QED
    BY <1>1, <1>2, BoundGoesOn
<1>5. /\ Done(c, s.id) = [kitOp EXCEPT ![c] = WithDone(op, s.id)]
      /\ Wrote(c) = [kitOp EXCEPT ![c] = Touched(op, TRUE)]
  BY ResultsPutDown
<1> HIDE DEF s, op
<1>6. CASE s.id \in Kits
  BY <1>1, <1>3, <1>4, <1>5, <1>6, KitRest
<1>7. CASE s.id \notin Kits
  BY <1>1, <1>3, <1>4, <1>5, <1>7, KitRest
<1> QED
  BY <1>6, <1>7

\* The kit is recorded with what it has reached.
LEMMA KitAppliedKeeps ==
    ASSUME KitInv, NEW c \in Calls, ~Idle(c), kitOp[c] # None,
           UNCHANGED <<tables, made, disk, removal>>, ExecKitApplied(c, Head(todo[c]))
    PROVE  KitInv' /\ AtomicStep /\ SparesStep
<1> DEFINE s == Head(todo[c])
           op == kitOp[c]
           T == ToSet(Tail(todo[c]))
           b == KitBound(s.id, s.key[1], s.key[2], Reached(c))
<1>1. /\ s.do = "kitApplied" /\ graph' \in KitWrites(c, s)
      /\ todo' = Then(c, <<b>>) /\ kitOp' = kitOp
  BY DEF ExecKitApplied
<1>2. /\ KitOpOK(op, {s} \cup T) /\ op.kind = "apply" /\ kitOp = [kitOp EXCEPT ![c] = op]
      /\ s.id \in Resources /\ s.key \in Kits \X Paths /\ op.results \in SUBSET Several
  BY <1>1, KitHead DEF Fits
<1>3. Reached(c) \in Statuses
  BY <1>2, ReachedIsAStatus DEF Statuses, Reached
<1>6. GraphOK' /\ AtomicStep /\ SparesStep
  BY <1>1, KitWritten
<1>7. b.do = "kitBound" /\ b.id = s.id /\ PlainQueue(<<b>>) /\ ToSet(<<b>>) = {b}
  <2>1. s.key[1] \in Kits /\ s.key[2] \in Paths
    BY <1>2
  <2>2. Suits(b)
    BY <1>2, <1>3, <2>1, KitStatementsSuit
  <2>3. b.do = "kitBound" /\ b.id = s.id
    BY DEF KitBound
  <2> HIDE DEF b
  <2> QED
    BY <2>2, <2>3, ShortQueues DEF PlainQueue
<1>8. KitOpOK(op, {b} \cup T)
  <2> HIDE DEF s, op, T, b
  <2> QED
    BY <1>1, <1>2, <1>7, BindGoesOn
<1> HIDE DEF s, op, b
<1> QED
  BY <1>1, <1>2, <1>6, <1>7, <1>8, KitRun

\* Every binding under management is to go.
LEMMA KitUnbindAllKeeps ==
    ASSUME KitInv, NEW c \in Calls, ~Idle(c), kitOp[c] # None,
           UNCHANGED <<tables, made, disk, removal>>, ExecKitUnbindAll(c, Head(todo[c]))
    PROVE  KitInv' /\ AtomicStep /\ SparesStep
<1> DEFINE s == Head(todo[c])
           op == kitOp[c]
           T == ToSet(Tail(todo[c]))
           S == {b \in Places : Removable(b, s.id, None)}
           f == [b \in Places |-> KitUnbind(b, s.id, None)]
<1>1. PICK w : w = InSomeOrder(S)
  OBVIOUS
<1>2. PICK q : q = [i \in DOMAIN w |-> f[w[i]]]
  OBVIOUS
<1>3. S \in SUBSET Places /\ IsFiniteSet(S)
  BY FinitePlaces, FS_Subset
<1>4. IsQueue(q) /\ ToSet(q) = {f[b] : b \in S}
  <2> HIDE DEF S, f
  <2> QED
    BY <1>1, <1>2, <1>3, QueueOfEach
<1>5. DOMAIN w = DOMAIN q /\ \A i \in DOMAIN w : w[i] \in Places
  <2>1. Lists(w, S)
    <3> HIDE DEF S
    <3> QED
      BY <1>1, <1>3, InSomeOrderLists
  <2>2. w \in Seq(S)
    <3> HIDE DEF S
    <3> QED
      BY <2>1 DEF Lists
  <2> QED
    BY <1>2, <1>3, <2>2
<1>6. /\ s.do = "kitUnbindAll" /\ graph' = graph /\ kitOp' = kitOp
      /\ todo' = Then(c, [i \in DOMAIN w |-> KitUnbind(w[i], s.id, None)])
  BY <1>1 DEF ExecKitUnbindAll
<1>7. q = [i \in DOMAIN w |-> KitUnbind(w[i], s.id, None)]
  BY <1>2, <1>5
<1>8. /\ KitOpOK(op, {s} \cup T) /\ op \in KitOps /\ op.kind \notin {"apply", "remove"}
      /\ kitOp = [kitOp EXCEPT ![c] = op] /\ s.id \in Kits /\ op.results \subseteq Several
  BY <1>6, KitHead DEF Fits
<1>9. \A x \in ToSet(q) : Suits(x) /\ x.do = "kitUnbind"
  <2> SUFFICES ASSUME NEW b \in S PROVE Suits(f[b]) /\ f[b].do = "kitUnbind"
    BY <1>4
  <2>1. b \in Places /\ f[b] = KitUnbind(b, s.id, None)
    OBVIOUS
  <2>2. Suits(KitUnbind(b, s.id, None)) /\ KitUnbind(b, s.id, None).do = "kitUnbind"
    BY <1>8, KitStatementsSuit DEF KitUnbind
  <2> QED
    BY <2>1, <2>2
<1>10. PlainQueue(q)
  BY <1>4, <1>9 DEF PlainQueue
<1>11. GraphOK' /\ AtomicStep /\ SparesStep
  <2>1. Good(graph')
    BY <1>6, GraphKept DEF KitInv
  <2> QED
    BY <2>1, GoodStep
<1>12. op.kind = "delete"
  BY <1>6, <1>8 DEF KitOpOK, OtherOK
<1>13. KitOpOK(op, ToSet(q) \cup T)
  <2> HIDE DEF s, op, T
  <2> QED
    BY <1>8, <1>9, <1>12, OtherGoesOn
<1>14. todo' = Then(c, q)
  BY <1>6, <1>7
<1> HIDE DEF s, op, S, f
<1> QED
  BY <1>6, <1>8, <1>10, <1>11, <1>13, <1>14, KitRun

\* One binding is to go, if it is still the kit's.
LEMMA KitUnbindKeeps ==
    ASSUME KitInv, NEW c \in Calls, ~Idle(c), kitOp[c] # None,
           UNCHANGED <<tables, made, disk, removal>>, ExecKitUnbind(c, Head(todo[c]))
    PROVE  KitInv' /\ AtomicStep /\ SparesStep
<1> DEFINE s == Head(todo[c])
           op == kitOp[c]
           T == ToSet(Tail(todo[c]))
           b == <<s.id, s.key>>
<1>1. /\ s.do = "kitUnbind" /\ todo' = Rest(c) /\ graph' \in KitWrites(c, s)
      /\ op.kind = "delete" => kitOp' \in {kitOp, Wrote(c)}
      /\ op.kind # "delete" => kitOp' \in {Done(c, b), Result(c, "failure")}
  <2> DEFINE gone == Removable(b, s.kit, s.target)
  <2>1. /\ s.do = "kitUnbind" /\ todo' = Rest(c) /\ graph' \in KitWrites(c, s)
        /\ kitOp' = IF gone THEN IF op.kind = "delete" THEN Wrote(c) ELSE Done(c, b)
                    ELSE IF op.kind = "delete" THEN kitOp ELSE Result(c, "failure")
    BY DEF ExecKitUnbind
  <2> HIDE DEF gone, s, op, b
  <2> QED
    BY <2>1
<1>2. /\ KitOpOK(op, {s} \cup T) /\ op \in KitOps /\ op.kind \in {"remove", "delete"}
      /\ kitOp = [kitOp EXCEPT ![c] = op] /\ ~op.plan /\ op.results \subseteq Several
  BY <1>1, KitHead
<1>3. GraphOK' /\ AtomicStep /\ SparesStep
  BY <1>1, KitWritten
<1>4. /\ op.kind = "delete" => KitOpOK(op, T) /\ KitOpOK(Touched(op, TRUE), T)
      /\ op.kind = "remove" => KitOpOK(With(op, "failure"), T) /\ KitOpOK(WithDone(op, b), T)
  <2> HIDE DEF s, op, T
  <2>1. op.kind = "delete" => KitOpOK(op, T)
    BY <1>2, OtherGoesOn
  <2>2. op.kind = "delete" => KitOpOK(Touched(op, TRUE), T)
    BY <1>2, <2>1, TouchedGoesOn
  <2>3. op.kind = "remove" => KitOpOK(With(op, "failure"), T)
    BY <1>2, FailureGoesOn
  <2>4. op.kind = "remove" => KitOpOK(WithDone(op, b), T)
    BY <1>2, UnboundGoesOn
  <2> QED
    BY <2>1, <2>2, <2>3, <2>4
<1>5. /\ Result(c, "failure") = [kitOp EXCEPT ![c] = With(op, "failure")]
      /\ Done(c, b) = [kitOp EXCEPT ![c] = WithDone(op, b)]
      /\ Wrote(c) = [kitOp EXCEPT ![c] = Touched(op, TRUE)]
  BY ResultsPutDown
<1> HIDE DEF s, op, b
<1>6. CASE op.kind = "delete"
  <2>1. CASE kitOp' = kitOp
    BY <1>1, <1>2, <1>3, <1>4, <1>6, <2>1, KitRest
  <2>2. CASE kitOp' = Wrote(c)
    BY <1>1, <1>3, <1>4, <1>5, <1>6, <2>2, KitRest
  <2> QED
    BY <1>1, <1>6, <2>1, <2>2
<1>7. CASE op.kind = "remove"
  BY <1>1, <1>3, <1>4, <1>5, <1>7, KitRest
<1> QED
  BY <1>2, <1>6, <1>7

\* The kit is deleted.
LEMMA KitForgetKeeps ==
    ASSUME KitInv, NEW c \in Calls, ~Idle(c), kitOp[c] # None,
           UNCHANGED <<tables, made, disk, removal>>, ExecKitForget(c, Head(todo[c]))
    PROVE  KitInv' /\ AtomicStep /\ SparesStep
<1> DEFINE s == Head(todo[c])
           op == kitOp[c]
           T == ToSet(Tail(todo[c]))
<1>1. PICK there \in BOOLEAN :
        /\ s.do = "kitForget" /\ todo' = Rest(c) /\ graph' \in KitWrites(c, s)
        /\ kitOp' = [kitOp EXCEPT ![c].results = @ \cup {IF there THEN "success" ELSE "failure"},
                                  ![c].wrote = @ \/ there]
  <2>1. (graph.resource[s.id] # None) \in BOOLEAN
    OBVIOUS
  <2> QED
    BY <2>1 DEF ExecKitForget
<1>2. /\ KitOpOK(op, {s} \cup T) /\ op \in KitOps /\ op.kind \notin {"apply", "remove"}
      /\ op.results \subseteq Several /\ ~op.plan
  BY <1>1, KitHead
<1>3. GraphOK' /\ AtomicStep /\ SparesStep
  BY <1>1, KitWritten
<1>4. PICK result \in {"success", "failure"} : result = IF there THEN "success" ELSE "failure"
  OBVIOUS
<1>5. kitOp' = [kitOp EXCEPT ![c] = Touched(With(op, result), there)]
  BY <1>1, <1>4 DEF Touched, With, KitInv, KitsOK
<1>6. KitOpOK(Touched(With(op, result), there), T)
  <2> HIDE DEF s, op, T
  <2>1. /\ With(op, result) \in KitOps /\ With(op, result).kind = op.kind
        /\ With(op, result).plan = op.plan /\ With(op, result).done = op.done
        /\ With(op, result).results \subseteq Several
    BY <1>2, ResultAdded DEF Several
  <2>2. KitOpOK(With(op, result), T)
    BY <1>2, <2>1, OtherGoesOn
  <2> QED
    BY <1>2, <2>1, <2>2, TouchedGoesOn
<1> HIDE DEF s, op
<1> QED
  BY <1>1, <1>3, <1>5, <1>6, KitRest

\* The drift of a kit.
LEMMA KitDriftKeeps ==
    ASSUME KitInv, NEW c \in Calls, ~Idle(c), kitOp[c] # None,
           UNCHANGED <<tables, made, disk, removal>>, ExecKitDrift(c, Head(todo[c]))
    PROVE  KitInv' /\ AtomicStep /\ SparesStep
<1> DEFINE s == Head(todo[c])
           op == kitOp[c]
           T == ToSet(Tail(todo[c]))
<1>1. s.do = "kitDrift" /\ todo' = Rest(c) /\ graph' = Backfilled
  BY DEF ExecKitDrift
<1>2. PICK f, drifted :
        LET results == Preflight(Backfilled, op.manifest, f)
                       \cup (IF drifted = {} THEN {} ELSE {"failure"})
        IN  kitOp' = [kitOp EXCEPT ![c].results = IF results = {} THEN {"success"} ELSE results]
  BY DEF ExecKitDrift
<1>3. PICK results \in SUBSET Several : kitOp' = [kitOp EXCEPT ![c].results = results]
  <2>1. PICK found \in SUBSET Several :
          kitOp' = [kitOp EXCEPT ![c].results = IF found = {} THEN {"success"} ELSE found]
    <3>1. Preflight(Backfilled, op.manifest, f) \subseteq Several
      BY PreflightTyped
    <3>2. Preflight(Backfilled, op.manifest, f) \cup (IF drifted = {} THEN {} ELSE {"failure"})
            \in SUBSET Several
      BY <3>1 DEF Several
    <3> QED
      BY <1>2, <3>2
  <2>2. (IF found = {} THEN {"success"} ELSE found) \in SUBSET Several
    BY DEF Several
  <2> QED
    BY <2>1, <2>2
<1>4. /\ KitOpOK(op, {s} \cup T) /\ op \in KitOps /\ op.kind \notin {"apply", "remove"}
  BY <1>1, KitHead
<1> DEFINE next == [op EXCEPT !.results = results]
<1>5. kitOp' = [kitOp EXCEPT ![c] = next]
  BY <1>3
<1>6. KitOpOK(next, T)
  <2> HIDE DEF s, op, T
  <2>1. /\ next \in KitOps /\ next.kind = op.kind /\ next.plan = op.plan /\ next.done = op.done
        /\ next.results \subseteq Several
    BY <1>4 DEF KitOps
  <2> HIDE DEF next
  <2> QED
    BY <1>4, <2>1, OtherGoesOn
<1>7. GraphOK' /\ AtomicStep /\ SparesStep
  <2>1. Good(graph')
    BY <1>1, BackfilledIsGood DEF KitInv
  <2> QED
    BY <2>1, GoodStep
<1> HIDE DEF s, op, next
<1> QED
  BY <1>1, <1>5, <1>6, <1>7, KitRest

\* The audit of a kit.
LEMMA KitAuditKeeps ==
    ASSUME KitInv, NEW c \in Calls, ~Idle(c), kitOp[c] # None,
           UNCHANGED <<tables, made, disk, removal>>, ExecKitAudit(c, Head(todo[c]))
    PROVE  KitInv' /\ AtomicStep /\ SparesStep
<1> DEFINE s == Head(todo[c])
           op == kitOp[c]
           T == ToSet(Tail(todo[c]))
<1>1. PICK verdict \in {"SAFE", "SECURITY_RISK"}, result \in {"success", "failure"} :
        /\ s.do = "kitAudit" /\ todo' = Rest(c)
        /\ graph' = Audited(<<s.id, Legacy>>, verdict)
        /\ kitOp' = Result(c, result)
  BY DEF ExecKitAudit
<1>2. /\ KitOpOK(op, {s} \cup T) /\ op \in KitOps /\ op.kind \notin {"apply", "remove"} /\ s.id \in Kits
      /\ op.results \subseteq Several
  BY <1>1, KitHead DEF Fits
<1>3. <<s.id, Legacy>> \in Places
  BY <1>2 DEF Places, Resources, Keys
<1>4. GraphOK' /\ AtomicStep /\ SparesStep
  <2>1. Good(graph')
    <3> HIDE DEF s
    <3> QED
      BY <1>1, <1>3, AuditedIsGood DEF KitInv
  <2> QED
    BY <2>1, GoodStep
<1>5. kitOp' = [kitOp EXCEPT ![c] = With(op, result)]
  BY <1>1, ResultsPutDown
<1>6. KitOpOK(With(op, result), T)
  <2> HIDE DEF s, op, T
  <2>1. /\ With(op, result) \in KitOps /\ With(op, result).kind = op.kind
        /\ With(op, result).plan = op.plan /\ With(op, result).done = op.done
        /\ With(op, result).results \subseteq Several
    BY <1>2, ResultAdded DEF Several
  <2> QED
    BY <1>2, <2>1, OtherGoesOn
<1> HIDE DEF s, op
<1> QED
  BY <1>1, <1>4, <1>5, <1>6, KitRest

------------------------------------------------------------------------------
(* The kits: a plan ends, and the theorems                                 *)

\* An operation whose plan has been run.
Ended(op, results) == [op EXCEPT !.plan = FALSE, !.results = results]

\* What changes in it.
LEMMA PlanEnded ==
    ASSUME NEW op \in KitOps, NEW results \in SUBSET AllResults
    PROVE  /\ Ended(op, results) \in KitOps /\ Ended(op, results).results = results
           /\ Ended(op, results).kind = op.kind /\ Ended(op, results).kit = op.kit
           /\ Ended(op, results).target = op.target /\ Ended(op, results).manifest = op.manifest
           /\ ~Ended(op, results).plan /\ Ended(op, results).work = op.work
           /\ Ended(op, results).done = op.done /\ Ended(op, results).wrote = op.wrote
BY DEF Ended, KitOps, AllResults

\* A plan that fails, or one that writes a file and no binding.
LEMMA EndsThere ==
    ASSUME NEW op, KitOpOK(op, {}), op.plan,
           NEW outcome \in {"success", "failure", "rolled_back", "rollback_failed"},
           outcome # "success" \/ op.kind = "export"
    PROVE  KitOpOK(Ended(op, op.results \cup {outcome}), {})
<1> DEFINE results == op.results \cup {outcome}
           next == Ended(op, results)
<1>1. op \in KitOps /\ op.done = {} /\ ~op.wrote /\ op.kind \in {"apply", "remove", "export"}
  BY DEF KitOpOK
<1>2. results \in SUBSET AllResults
  BY <1>1 DEF KitOps, AllResults, Several
<1>3. outcome # "success" => Failing(results)
  BY DEF Failing
<1> HIDE DEF results
<1>4. /\ next \in KitOps /\ next.results = results /\ next.kind = op.kind /\ next.kit = op.kit
      /\ next.target = op.target /\ next.manifest = op.manifest /\ next.wrote = op.wrote
      /\ ~next.plan /\ next.work = op.work /\ next.done = op.done
  BY <1>1, <1>2, PlanEnded
<1> HIDE DEF next
<1>5. op.kind = "apply" => ApplyOK(next, {})
  BY <1>3, <1>4 DEF KitOpOK, ApplyOK
<1>6. op.kind = "remove" => RemoveOK(next, {})
  BY <1>3, <1>4 DEF KitOpOK, RemoveOK
<1>7. op.kind = "export" => OtherOK(next, {})
  BY <1>1, <1>4 DEF OtherOK
<1>8. KitOpOK(next, {})
  BY <1>1, <1>4, <1>5, <1>6, <1>7 DEF KitOpOK
<1> QED
  BY <1>8 DEF next, results

\* A plan that succeeds: every resource it was for has a binding to come.
LEMMA EndsInBindings ==
    ASSUME NEW op, KitOpOK(op, {}), op.plan, op.kind = "apply", NEW S,
           \A s \in S : \/ s.do = "kitBind" /\ s.id \in op.work
                        \/ s.do = "kitApplied" /\ s.id = op.kit,
           \A r \in op.work : \E s \in S : s.do = "kitBind" /\ s.id = r
    PROVE  KitOpOK(Ended(op, op.results), S)
<1> DEFINE next == Ended(op, op.results)
<1>1. op \in KitOps /\ op.done = {} /\ ApplyOK(op, {}) /\ op.results \subseteq Several
  BY DEF KitOpOK, ApplyOK
<1>2. op.results \in SUBSET AllResults
  BY <1>1 DEF AllResults
<1>3. /\ next \in KitOps /\ next.results = op.results /\ next.kind = op.kind /\ next.kit = op.kit
      /\ next.target = op.target /\ next.manifest = op.manifest
      /\ ~next.plan /\ next.work = op.work /\ next.done = op.done
  BY <1>1, <1>2, PlanEnded
<1> HIDE DEF next
<1>4. \A r \in op.work : \E s \in S : s.do \in {"kitBind", "kitBound"} /\ s.id = r
  OBVIOUS
<1>5. ApplyOK(next, S)
  BY <1>1, <1>3, <1>4 DEF ApplyOK
<1>6. KitOpOK(next, S)
  BY <1>1, <1>3, <1>5 DEF KitOpOK
<1> QED
  BY <1>6 DEF next

\* A plan that succeeds: every binding it was for is to be removed.
LEMMA EndsInRemovals ==
    ASSUME NEW op, KitOpOK(op, {}), op.plan, op.kind = "remove", NEW S,
           \A s \in S : s.do = "kitUnbind" /\ <<s.id, s.key>> \in op.work,
           \A b \in op.work : \E s \in S : s.do = "kitUnbind" /\ <<s.id, s.key>> = b
    PROVE  KitOpOK(Ended(op, op.results), S)
<1> DEFINE next == Ended(op, op.results)
<1>1. op \in KitOps /\ op.done = {} /\ RemoveOK(op, {}) /\ op.results \subseteq Several
  BY DEF KitOpOK, RemoveOK
<1>2. op.results \in SUBSET AllResults
  BY <1>1 DEF AllResults
<1>3. /\ next \in KitOps /\ next.results = op.results /\ next.kind = op.kind
      /\ ~next.plan /\ next.work = op.work /\ next.done = op.done
  BY <1>1, <1>2, PlanEnded
<1> HIDE DEF next
<1>4. RemoveOK(next, S)
  BY <1>1, <1>3 DEF RemoveOK
<1>5. KitOpOK(next, S)
  BY <1>1, <1>3, <1>4 DEF KitOpOK
<1> QED
  BY <1>5 DEF next

\* The executor has run the plan.
LEMMA PlanEndsKeeps ==
    ASSUME KitInv, NEW c \in Calls, PlanEnds(c)
    PROVE  KitInv' /\ AtomicStep /\ SparesStep
<1> DEFINE op == kitOp[c]
           work == InSomeOrder(op.work)
           binds == [i \in DOMAIN work |-> KitBind(work[i], op.kit, op.target)]
           unbinds == [i \in DOMAIN work |-> KitUnbind(work[i], op.kit, op.target)]
<1>1. /\ Idle(c) /\ op # None /\ op.plan /\ UNCHANGED <<tables, graph, made, removal>>
  BY DEF PlanEnds
<1>2. PICK outcome \in {"success", "failure", "rolled_back", "rollback_failed"} :
        /\ kitOp' = [kitOp EXCEPT ![c].plan = FALSE,
                       ![c].results = IF outcome # "success" \/ op.kind = "export"
                                      THEN @ \cup {outcome} ELSE @]
        /\ disk' = disk \/ \E x \in Contents : disk' = [disk EXCEPT ![op.target] = x]
        /\ todo' = [todo EXCEPT ![c] =
             IF outcome # "success" \/ op.kind = "export" THEN <<>>
             ELSE IF op.kind = "apply" THEN binds \o <<KitApplied(op.kit, op.target)>>
             ELSE unbinds]
  BY DEF PlanEnds
<1>3. ToSet(todo[c]) = {}
  BY <1>1, ShortQueues DEF Idle
<1>4. KitOpOK(op, {})
  BY <1>1, <1>3 DEF KitInv, KitsOK
<1>5. op \in KitOps /\ op.kind \in {"apply", "remove", "export"} /\ op.kit \in Kits
  BY <1>1, <1>4 DEF KitOpOK, KitOps
<1>6. TablesOK' /\ DiskOK'
  <2>1. TablesOK'
    BY <1>1 DEF KitInv, TablesOK
  <2>2. disk' \in [Paths -> Hash]
    BY <1>2 DEF KitInv, DiskOK, Hash
  <2> QED
    BY <1>1, <2>1, <2>2 DEF KitInv, DiskOK
<1>7. GraphOK' /\ AtomicStep /\ SparesStep
  <2>1. Good(graph')
    BY <1>1, GraphKept DEF KitInv
  <2> QED
    BY <2>1, GoodStep
<1>8. ASSUME NEW q, PlainQueue(q), todo' = [todo EXCEPT ![c] = q], NEW results,
             KitOpOK(Ended(op, results), ToSet(q)),
             kitOp' = [kitOp EXCEPT ![c] = Ended(op, results)]
      PROVE  KitInv'
  <2>1. AllFit(q)
    BY <1>8 DEF PlainQueue, AllFit, Suits
  <2>2. TodoOK' /\ RemovalOK' /\ todo'[c] = q /\ \A d \in Calls : d # c => todo'[d] = todo[d]
    BY <1>1, <1>8, <2>1, TodoReplaced, RemovalUntouched DEF KitInv
  <2>3. KitsOK'
    <3> HIDE DEF op
    <3> QED
      BY <1>8, <2>2, KitReplaced DEF KitInv
  <2> QED
    BY <1>6, <1>7, <2>2, <2>3 DEF KitInv
<1>9. kitOp = [d \in Calls |-> kitOp[d]]
  BY DEF KitInv, KitsOK
<1>10. CASE outcome # "success" \/ op.kind = "export"
  <2>1. kitOp' = [kitOp EXCEPT ![c] = Ended(op, op.results \cup {outcome})]
    BY <1>2, <1>9, <1>10 DEF Ended
  <2>2. todo' = [todo EXCEPT ![c] = <<>>]
    BY <1>2, <1>10
  <2>3. PlainQueue(<<>>) /\ ToSet(<<>>) = {}
    BY ShortQueues DEF PlainQueue
  <2>4. KitOpOK(Ended(op, op.results \cup {outcome}), ToSet(<<>>))
    <3> HIDE DEF op
    <3> QED
      BY <1>1, <1>4, <1>10, <2>3, EndsThere
  <2> QED
    BY <1>7, <1>8, <2>1, <2>2, <2>3, <2>4
<1>11. CASE ~(outcome # "success" \/ op.kind = "export")
  <2>1. kitOp' = [kitOp EXCEPT ![c] = Ended(op, op.results)]
    BY <1>2, <1>9, <1>11 DEF Ended
  <2>2. PICK w : w = work
    OBVIOUS
  <2>3. IsFiniteSet(op.work) /\ (op.kind = "apply" => op.work \subseteq Extensions \cup AgentFiles)
        /\ (op.kind = "remove" => op.work \subseteq Places)
    <3>1. CASE op.kind = "apply"
      <4>1. op.work \subseteq Extensions \cup AgentFiles
        BY <1>4, <3>1, ManifestTyped DEF KitOpOK, ApplyOK
      <4> QED
        BY <3>1, <4>1, FinitePlaces, FS_Subset
    <3>2. CASE op.kind = "remove"
      <4>1. op.work \subseteq Places
        BY <1>4, <3>2 DEF KitOpOK, RemoveOK
      <4> QED
        BY <3>2, <4>1, FinitePlaces, FS_Subset
    <3> QED
      BY <1>5, <1>11, <3>1, <3>2
  <2>4. \A i \in DOMAIN w : w[i] \in op.work
    <3>1. Lists(w, op.work)
      BY <2>2, <2>3, InSomeOrderLists
    <3> QED
      BY <3>1 DEF Lists
  <2>5. CASE op.kind = "apply"
    <3> DEFINE f == [x \in op.work |-> KitBind(x, op.kit, op.target)]
               last == KitApplied(op.kit, op.target)
    <3>1. PICK q : q = [i \in DOMAIN w |-> f[w[i]]]
      OBVIOUS
    <3>2. q = binds
      BY <2>2, <2>4, <3>1
    <3>3. IsQueue(q) /\ ToSet(q) = {f[x] : x \in op.work}
      <4> HIDE DEF f, op
      <4> QED
        BY <2>2, <2>3, <3>1, QueueOfEach DEF work
    <3>4. op.target \in Paths
      BY <1>4, <2>5 DEF KitOpOK, ApplyOK
    <3>5. \A x \in op.work : f[x] = KitBind(x, op.kit, op.target)
      OBVIOUS
    <3> HIDE DEF f
    <3>6. \A x \in op.work : Suits(f[x]) /\ f[x].do = "kitBind" /\ f[x].id = x
      <4>1. \A x \in op.work : x \in Resources
        BY <2>3, <2>5 DEF Resources
      <4>2. \A x \in op.work : Suits(KitBind(x, op.kit, op.target))
        BY <1>5, <3>4, <4>1, KitStatementsSuit
      <4>3. \A x \in op.work : LET s == KitBind(x, op.kit, op.target) IN s.do = "kitBind" /\ s.id = x
        BY DEF KitBind
      <4> QED
        BY <3>5, <4>2, <4>3
    <3>7. Suits(last) /\ last.do = "kitApplied" /\ last.id = op.kit
      BY <1>5, <3>4, KitStatementsSuit DEF KitApplied
    <3> HIDE DEF last
    <3>8. IsQueue(<<last>>) /\ ToSet(<<last>>) = {last}
      BY ShortQueues
    <3>9. IsQueue(q \o <<last>>) /\ ToSet(q \o <<last>>) = {f[x] : x \in op.work} \cup {last}
      BY <3>3, <3>8, Joined
    <3>10. PlainQueue(q \o <<last>>)
      BY <3>6, <3>7, <3>9 DEF PlainQueue
    <3>11. KitOpOK(Ended(op, op.results), ToSet(q \o <<last>>))
      <4>1. \A s \in {f[x] : x \in op.work} \cup {last} :
              \/ s.do = "kitBind" /\ s.id \in op.work
              \/ s.do = "kitApplied" /\ s.id = op.kit
        BY <3>6, <3>7
      <4>2. \A r \in op.work : \E s \in {f[x] : x \in op.work} \cup {last} : s.do = "kitBind" /\ s.id = r
        BY <3>6
      <4>3. PICK S : S = {f[x] : x \in op.work} \cup {last}
        OBVIOUS
      <4> HIDE DEF op
      <4> QED
        BY <1>1, <1>4, <2>5, <3>9, <4>1, <4>2, <4>3, EndsInBindings
    <3>12. todo' = [todo EXCEPT ![c] = q \o <<last>>]
      BY <1>2, <1>11, <2>5, <3>2 DEF last
    <3> HIDE DEF op
    <3> QED
      BY <1>7, <1>8, <2>1, <3>10, <3>11, <3>12
  <2>6. CASE op.kind = "remove"
    <3> DEFINE f == [x \in op.work |-> KitUnbind(x, op.kit, op.target)]
    <3>1. PICK q : q = [i \in DOMAIN w |-> f[w[i]]]
      OBVIOUS
    <3>2. q = unbinds
      BY <2>2, <2>4, <3>1
    <3>3. IsQueue(q) /\ ToSet(q) = {f[x] : x \in op.work}
      <4> HIDE DEF f, op
      <4> QED
        BY <2>2, <2>3, <3>1, QueueOfEach DEF work
    <3>4. op.target \in Paths \cup {None}
      BY <1>5 DEF KitOps
    <3>5. \A x \in op.work : f[x] = KitUnbind(x, op.kit, op.target)
      OBVIOUS
    <3> HIDE DEF f
    <3>6. \A x \in op.work : Suits(f[x]) /\ f[x].do = "kitUnbind" /\ <<f[x].id, f[x].key>> = x
      <4> SUFFICES ASSUME NEW x \in op.work
                   PROVE  Suits(f[x]) /\ f[x].do = "kitUnbind" /\ <<f[x].id, f[x].key>> = x
        OBVIOUS
      <4>1. x \in Places /\ x = <<x[1], x[2]>>
        BY <2>3, <2>6, PlacePair
      <4>2. Suits(KitUnbind(x, op.kit, op.target))
        BY <1>5, <3>4, <4>1, KitStatementsSuit
      <4> QED
        BY <3>5, <4>1, <4>2 DEF KitUnbind
    <3>7. PlainQueue(q)
      BY <3>3, <3>6 DEF PlainQueue
    <3>8. KitOpOK(Ended(op, op.results), ToSet(q))
      <4>1. \A s \in ToSet(q) : s.do = "kitUnbind" /\ <<s.id, s.key>> \in op.work
        BY <3>3, <3>6
      <4>2. \A b \in op.work : \E s \in ToSet(q) : s.do = "kitUnbind" /\ <<s.id, s.key>> = b
        BY <3>3, <3>6
      <4> HIDE DEF op
      <4> QED
        BY <1>1, <1>4, <2>6, <4>1, <4>2, EndsInRemovals
    <3>9. todo' = [todo EXCEPT ![c] = q]
      BY <1>2, <1>11, <2>6, <3>2
    <3> HIDE DEF op
    <3> QED
      BY <1>7, <1>8, <2>1, <3>7, <3>8, <3>9
  <2> QED
    BY <1>5, <1>11, <2>5, <2>6
<1> QED
  BY <1>10, <1>11

\* The statement at the head of an operation's queue is executed.
LEMMA ExecuteKitKeeps ==
    ASSUME KitInv, NEW c \in Calls, ExecuteKit(c)
    PROVE  KitInv' /\ AtomicStep /\ SparesStep
BY KitRecordKeeps, KitBindKeeps, KitBoundKeeps, KitAppliedKeeps, KitUnbindAllKeeps, KitUnbindKeeps,
   KitForgetKeeps, KitDriftKeeps, KitAuditKeeps DEF ExecuteKit, KitStatement

\* A statement throws: the operation goes on, or ends there as a failure.
LEMMA KitStatementFailsKeeps ==
    ASSUME KitInv, NEW c \in Calls, KitStatementFails(c)
    PROVE  KitInv' /\ AtomicStep /\ SparesStep
<1> DEFINE op == kitOp[c]
           s == Head(todo[c])
           T == ToSet(Tail(todo[c]))
           goesOn == op.kind \in {"apply", "remove"}
<1>1. ~Idle(c) /\ op # None /\ UNCHANGED <<tables, made, disk, removal>>
  BY DEF KitStatementFails
<1>2. PICK written \in BOOLEAN :
        /\ graph' \in IF written THEN KitWrites(c, s) ELSE {graph}
        /\ kitOp' = [kitOp EXCEPT
              ![c].results = IF goesOn THEN @ \cup {"failure"} ELSE {"failure"},
              ![c].wrote = @ \/ (written /\ s.do \in {"kitBound", "kitUnbind", "kitForget"})]
        /\ todo' = IF goesOn THEN Rest(c) ELSE [todo EXCEPT ![c] = <<>>]
  BY DEF KitStatementFails
<1>3. PICK w \in BOOLEAN : w = (written /\ s.do \in {"kitBound", "kitUnbind", "kitForget"})
  OBVIOUS
<1>4. KitOpOK(op, {s} \cup T) /\ op \in KitOps /\ ~op.plan /\ op.results \subseteq Several
  BY <1>1, KitHead
<1>5. GraphOK' /\ AtomicStep /\ SparesStep
  <2>1. CASE written
    BY <1>1, <1>2, <2>1, KitWritten
  <2>2. CASE ~written
    <3>1. Good(graph')
      BY <1>2, <2>2, GraphKept DEF KitInv
    <3> QED
      BY <3>1, GoodStep
  <2> QED
    BY <2>1, <2>2
<1>6. CASE goesOn
  <2>1. kitOp' = [kitOp EXCEPT ![c] = Touched(With(op, "failure"), w)] /\ todo' = Rest(c)
    BY <1>2, <1>3, <1>6 DEF With, Touched, KitInv, KitsOK
  <2>2. KitOpOK(Touched(With(op, "failure"), w), T)
    <3> HIDE DEF op, s, T
    <3>1. KitOpOK(With(op, "failure"), T)
      BY <1>4, <1>6, FailureGoesOn
    <3>2. ~With(op, "failure").plan /\ With(op, "failure").results \subseteq Several
      BY <1>4, ResultAdded DEF Several
    <3> QED
      BY <3>1, <3>2, TouchedGoesOn
  <2> HIDE DEF op
  <2> QED
    BY <1>1, <1>5, <2>1, <2>2, KitRest DEF op
<1>7. CASE ~goesOn
  <2> DEFINE next == [op EXCEPT !.results = {"failure"}, !.wrote = @ \/ w]
  <2>1. kitOp' = [kitOp EXCEPT ![c] = next] /\ todo' = [todo EXCEPT ![c] = <<>>]
    BY <1>2, <1>3, <1>7 DEF KitInv, KitsOK
  <2>2. /\ next \in KitOps /\ next.kind = op.kind /\ next.plan = op.plan /\ next.done = op.done
        /\ next.results \subseteq Several
    BY <1>4 DEF KitOps, Several
  <2>3. PlainQueue(<<>>) /\ ToSet(<<>>) = {} /\ AllFit(<<>>)
    BY ShortQueues DEF PlainQueue, AllFit
  <2> HIDE DEF op, next, s
  <2>4. KitOpOK(next, {})
    BY <1>4, <1>7, <2>2, OtherGoesOn
  <2>5. TodoOK' /\ RemovalOK' /\ todo'[c] = <<>> /\ \A d \in Calls : d # c => todo'[d] = todo[d]
    BY <1>1, <2>1, <2>3, TodoReplaced, RemovalUntouched DEF KitInv
  <2>6. KitsOK'
    BY <2>1, <2>3, <2>4, <2>5, KitReplaced DEF KitInv
  <2>7. TablesOK' /\ DiskOK'
    BY <1>1 DEF KitInv, TablesOK, DiskOK
  <2> QED
    BY <1>5, <2>5, <2>6, <2>7 DEF KitInv
<1> QED
  BY <1>6, <1>7

\* An operation is reported and forgotten.
LEMMA ReportKeeps ==
    ASSUME KitInv, NEW c \in Calls, ReportKitOp(c)
    PROVE  KitInv' /\ AtomicStep /\ SparesStep
<1>1. kitOp' = [kitOp EXCEPT ![c] = None] /\ UNCHANGED <<tables, graph, todo, made, disk, removal>>
  BY DEF ReportKitOp
<1>2. KitsOK'
  BY <1>1, KitReplaced DEF KitInv
<1>3. TablesOK' /\ GraphOK' /\ DiskOK' /\ TodoOK' /\ RemovalOK'
  BY <1>1 DEF KitInv, TablesOK, GraphOK, OwnAgents, DiskOK, TodoOK, RemovalOK
<1>4. AtomicStep /\ SparesStep
  BY <1>1 DEF AtomicStep, SparesStep
<1> QED
  BY <1>2, <1>3, <1>4 DEF KitInv

\* The process ends: no call has anything left to do.
LEMMA CrashKeeps ==
    ASSUME KitInv, KitCrash
    PROVE  KitInv' /\ AtomicStep /\ SparesStep
<1>1. /\ todo' = [c \in Calls |-> <<>>] /\ kitOp' = [c \in Calls |-> None]
      /\ UNCHANGED <<tables, graph, made, disk, removal>>
  BY DEF KitCrash
<1>2. \A c \in Calls : todo'[c] = <<>> /\ kitOp'[c] = None
  BY <1>1
<1>3. PlainQueue(<<>>) /\ AllFit(<<>>) /\ \A row : RemovalQueue(<<>>, row)
  BY ShortQueues DEF PlainQueue, AllFit, RemovalQueue
<1>4. TodoOK'
  <2>1. \A c \in Calls : AllFit(todo'[c])
    BY <1>2, <1>3
  <2>2. todo' = [c \in Calls |-> todo'[c]]
    BY <1>1
  <2> QED
    BY <2>1, <2>2 DEF TodoOK, AllFit, IsQueue, Fits, ToSet
<1>5. RemovalOK'
  <2>1. \A c \in Calls : RowOK(removal'[c]) /\ RemovalQueue(todo'[c], removal'[c])
    BY <1>1, <1>2, <1>3 DEF KitInv, RemovalOK
  <2>2. removal' = [c \in Calls |-> removal'[c]]
    BY <1>1 DEF KitInv, RemovalOK
  <2> QED
    BY <2>1, <2>2 DEF RemovalOK, RowOK, Is, Truthful, RemovalQueue, Stage
<1>6. KitsOK'
  BY <1>1, <1>2 DEF KitsOK
<1>7. TablesOK' /\ GraphOK' /\ DiskOK'
  BY <1>1 DEF KitInv, TablesOK, GraphOK, OwnAgents, DiskOK
<1>8. AtomicStep /\ SparesStep
  BY <1>1 DEF AtomicStep, SparesStep
<1> QED
  BY <1>4, <1>5, <1>6, <1>7, <1>8 DEF KitInv

\* What goes on beside the operations of kits: the other calls of the
\* repository, listings, edits of files.
LEMMA CallsKeep ==
    ASSUME KitInv, NEW c \in Calls, kitOp[c] = None, StartCall(c) \/ Execute(c) \/ StatementThrows(c),
           UNCHANGED kitOp
    PROVE  KitInv' /\ AtomicStep /\ SparesStep
<1>1. CASE StartCall(c)
  <2>1. /\ TablesOK' /\ GraphOK' /\ DiskOK' /\ TodoOK' /\ RemovalOK'
        /\ graph' = graph /\ \A d \in Calls : d # c => todo'[d] = todo[d]
    BY <1>1, StartCallTypes DEF KitInv
  <2>2. KitsOK'
    BY <2>1, KitsUntouched DEF KitInv
  <2>3. AtomicStep /\ SparesStep
    BY <2>1 DEF AtomicStep, SparesStep
  <2> QED
    BY <2>1, <2>2, <2>3 DEF KitInv
<1>2. CASE Execute(c)
  <2>1. /\ TablesOK' /\ GraphOK' /\ DiskOK' /\ TodoOK' /\ RemovalOK' /\ AtomicStep /\ SparesStep
        /\ \A d \in Calls : d # c => todo'[d] = todo[d]
    BY <1>2, ExecuteTypes DEF KitInv
  <2>2. KitsOK'
    BY <2>1, KitsUntouched DEF KitInv
  <2> QED
    BY <2>1, <2>2 DEF KitInv
<1>3. CASE StatementThrows(c)
  <2>1. todo' = [todo EXCEPT ![c] = <<>>] /\ UNCHANGED <<tables, graph, made, disk, removal>>
    BY <1>3 DEF StatementThrows
  <2>2. PlainQueue(<<>>) /\ AllFit(<<>>)
    BY ShortQueues DEF PlainQueue, AllFit
  <2>3. TodoOK' /\ RemovalOK' /\ \A d \in Calls : d # c => todo'[d] = todo[d]
    BY <2>1, <2>2, TodoReplaced, RemovalUntouched DEF KitInv
  <2>4. KitsOK'
    BY <2>3, KitsUntouched DEF KitInv
  <2>5. TablesOK' /\ GraphOK' /\ DiskOK' /\ AtomicStep /\ SparesStep
    BY <2>1 DEF KitInv, TablesOK, GraphOK, OwnAgents, DiskOK, AtomicStep, SparesStep
  <2> QED
    BY <2>3, <2>4, <2>5 DEF KitInv
<1> QED
  BY <1>1, <1>2, <1>3

\* A listing, or an edit of a file.
LEMMA BesidesKeep ==
    ASSUME KitInv, ListResources \/ \E t \in Paths : EditFile(t), UNCHANGED kitOp
    PROVE  KitInv' /\ AtomicStep /\ SparesStep
<1>1. UNCHANGED <<tables, todo, removal>> /\ Good(graph')
  <2>1. CASE ListResources
    BY <2>1, BackfilledIsGood DEF ListResources, KitInv
  <2>2. CASE \E t \in Paths : EditFile(t)
    BY <2>2, GraphKept DEF EditFile, KitInv
  <2> QED
    BY <2>1, <2>2
<1>2. DiskOK'
  <2>1. CASE ListResources
    BY <2>1 DEF ListResources, KitInv, DiskOK
  <2>2. CASE \E t \in Paths : EditFile(t)
    BY <2>2, LifecycleAssumption DEF EditFile, KitInv, DiskOK, Hash
  <2> QED
    BY <2>1, <2>2
<1>3. TablesOK' /\ TodoOK' /\ RemovalOK' /\ KitsOK'
  BY <1>1 DEF KitInv, TablesOK, TodoOK, RemovalOK, KitsOK
<1> QED
  BY <1>1, <1>2, <1>3, GoodStep DEF KitInv

\* The inductive invariant holds at the start.
LEMMA KitInvInit == Init /\ KitInit => KitInv
<1> SUFFICES ASSUME Init, KitInit PROVE KitInv
  OBVIOUS
<1>1. TablesOK
  BY DEF Init, EmptyTables, TablesOK
<1>2. GraphOK
  BY DEF Init, EmptyGraph, GraphOK, Graphs, OwnAgents
<1>3. DiskOK
  BY LifecycleAssumption DEF Init, DiskOK, Hash
<1>4. \A c \in Calls : todo[c] = <<>> /\ removal[c] = None /\ kitOp[c] = None
  BY DEF Init, KitInit
<1>5. AllFit(<<>>) /\ \A row : RemovalQueue(<<>>, row)
  BY ShortQueues DEF AllFit, RemovalQueue
<1>6. TodoOK
  BY <1>4, <1>5 DEF Init, TodoOK
<1>7. RemovalOK
  BY <1>4, <1>5 DEF Init, RemovalOK, RowOK, Is
<1>8. KitsOK
  BY <1>4 DEF KitInit, KitsOK
<1> QED
  BY <1>1, <1>2, <1>3, <1>6, <1>7, <1>8 DEF KitInv

\* A step keeps the inductive invariant, and is one of the two action properties.
LEMMA KitInvNext == KitInv /\ [KitNext]_<<lifecycleVars, kitOp>> => KitInv' /\ AtomicStep /\ SparesStep
<1> SUFFICES ASSUME KitInv, [KitNext]_<<lifecycleVars, kitOp>>
             PROVE  KitInv' /\ AtomicStep /\ SparesStep
  OBVIOUS
<1>1. ASSUME NEW c \in Calls, kitOp[c] = None, StartCall(c) \/ Execute(c) \/ StatementThrows(c),
             UNCHANGED kitOp
      PROVE  KitInv' /\ AtomicStep /\ SparesStep
  BY <1>1, CallsKeep
<1>2. ASSUME NEW c \in Calls, StartKitOp(c) \/ KitStep(c)
      PROVE  KitInv' /\ AtomicStep /\ SparesStep
  BY <1>2, StartKitOpKeeps, PlanEndsKeeps, ExecuteKitKeeps, KitStatementFailsKeeps, ReportKeeps DEF KitStep
<1>3. CASE UNCHANGED <<lifecycleVars, kitOp>>
  BY <1>3 DEF lifecycleVars, KitInv, TablesOK, GraphOK, OwnAgents, DiskOK, TodoOK, RemovalOK, KitsOK,
              AtomicStep, SparesStep
<1> QED
  BY <1>1, <1>2, <1>3, BesidesKeep, CrashKeeps DEF KitNext

\* The inductive invariant of the record and of the kits: what every row, every
\* queue and every operation under way is like.
THEOREM KitsInvariant == KitSpec => []KitInv
<1>1. KitInv /\ [KitNext]_<<lifecycleVars, kitOp>> => KitInv'
  BY KitInvNext
<1> QED
  BY <1>1, KitInvInit, PTL DEF KitSpec

\* LifecycleTypeOK.
THEOREM LifecycleTypeCorrect == KitSpec => []LifecycleTypeOK
<1>1. KitInv => LifecycleTypeOK
  BY DEF KitInv, TablesOK, GraphOK, Graphs, DiskOK, RemovalOK, RowOK, LifecycleTypeOK, Is, ResourceRow
<1> QED
  BY <1>1, KitsInvariant, PTL

\* KitReportHonest.
THEOREM KitsReportHonestly == KitSpec => []KitReportHonest
<1>1. KitInv => KitReportHonest
  <2> SUFFICES ASSUME KitInv, NEW c \in Calls, Ends(c)
               PROVE  LET op == kitOp[c] IN
                      /\ op.kind = "apply" /\ Reached(c) = "success" =>
                            \A r \in DOMAIN op.manifest : op.manifest[r].required => r \in op.done
                      /\ op.kind = "remove" /\ Reached(c) = "success" => op.done = op.work
                      /\ op.done # {} => Reached(c) \in {"success", "partial_success"}
                      /\ op.wrote => Reached(c) \in {"success", "partial_success", "failure"}
    BY DEF KitReportHonest
  <2> DEFINE op == kitOp[c]
  <2>1. ToSet(todo[c]) = {} /\ op # None /\ ~op.plan
    BY ShortQueues DEF Ends, Idle
  <2>2. KitOpOK(op, {}) /\ ~op.plan
    BY <2>1 DEF KitInv, KitsOK
  <2>3. Reached(c) = Aggregate(op.results, "success")
    BY DEF Reached
  <2> HIDE DEF op
  <2>4. ASSUME Reached(c) = "success" PROVE ~Failing(op.results)
    <3>1. SUFFICES ASSUME Failing(op.results) PROVE FALSE
      OBVIOUS
    <3>2. CASE "rollback_failed" \in op.results
      BY <2>3, <2>4, <3>2 DEF Aggregate
    <3>3. CASE op.results \cap FailureLike # {}
      BY <2>3, <2>4, <3>3 DEF Aggregate
    <3> QED
      BY <3>1, <3>2, <3>3 DEF Failing, FailureLike
  <2>5. ASSUME op.done # {} PROVE Reached(c) \in {"success", "partial_success"}
    <3>1. "success" \in op.results /\ op.results \subseteq Several
      BY <2>2, <2>5 DEF KitOpOK
    <3>2. /\ op.results # {} /\ "rollback_failed" \notin op.results
          /\ op.results \cap SuccessLike # {}
          /\ op.results \notin {{"blocked"}, {"disabled"}, {"rolled_back"}, {"dry_run"}}
      BY <3>1 DEF Several, SuccessLike
    <3> QED
      BY <2>3, <3>2 DEF Aggregate
  <2>6. op.kind = "apply" /\ Reached(c) = "success" =>
          \A r \in DOMAIN op.manifest : op.manifest[r].required => r \in op.done
    BY <2>2, <2>4 DEF KitOpOK, ApplyOK
  <2>7. op.kind = "remove" /\ Reached(c) = "success" => op.done = op.work
    BY <2>2, <2>4 DEF KitOpOK, RemoveOK
  <2>8. ASSUME op.wrote PROVE Reached(c) \in {"success", "partial_success", "failure"}
    <3>1. op.results \in SUBSET Several
      BY <2>2, <2>8 DEF KitOpOK
    <3> QED
      BY <2>3, <3>1, ReachedIsAStatus
  <2> QED
    BY <2>5, <2>6, <2>7, <2>8 DEF op
<1> QED
  BY <1>1, KitsInvariant, PTL

\* RemovalIsTold.
THEOREM RemovalsAreTold == KitSpec => RemovalIsTold
<1>1. KitInv /\ [KitNext]_<<lifecycleVars, kitOp>> =>
        AtomicStep /\ \A c \in Calls : removal'[c] # None => Truthful(removal'[c])
  <2>1. KitInv' => \A c \in Calls : removal'[c] # None => Truthful(removal'[c])
    BY DEF KitInv, RemovalOK, RowOK, Truthful
  <2> QED
    BY <2>1, KitInvNext
<1>2. KitInv /\ [KitNext]_<<lifecycleVars, kitOp>> =>
        [/\ AtomicStep
         /\ \A c \in Calls : removal'[c] # None => Truthful(removal'[c])]_lifecycleVars
  BY <1>1
<1> QED
  BY <1>2, KitsInvariant, PTL DEF KitSpec, RemovalIsTold, AtomicStep

\* KitRemovalSparesOwn.
THEOREM OwnBindingsStay == KitSpec => KitRemovalSparesOwn
<1>1. KitInv /\ [KitNext]_<<lifecycleVars, kitOp>> => [SparesStep]_lifecycleVars
  BY KitInvNext
<1> QED
  BY <1>1, KitsInvariant, PTL DEF KitSpec, KitRemovalSparesOwn, SparesStep
==============================================================================
