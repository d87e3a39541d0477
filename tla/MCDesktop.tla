------------------------------ MODULE MCDesktop ------------------------------
(* The parts of the desktop's main process side by side, for TLC. They share *)
(* no variable, so a behaviour follows one of them, chosen at the start, and *)
(* leaves the others as one of their initial states has them.               *)
EXTENDS ClientUpdate, DesktopStartup, DesktopSession, LocalOperations, StaticAudit,
        AgentInventory, LocalKits

CONSTANTS u1, u2, skill, server, plugin, agent, p1, p2, c1, c2, mcp, project, kit, ruleFile,
          path, x, y

\* What a machine with a past (Lived, below) has.
ASSUME LivedAssumption ==
    /\ skill \in Extensions /\ project \in Projects /\ kit \in Kits /\ ruleFile \in AgentFiles
    /\ path \in Paths /\ x \in Contents

VARIABLE focus

kitVars == <<lifecycleVars, kitOp>>
desktopVars == <<updateVars, startVars, sessionVars, opVars, auditVars, inventoryVars,
                 kitVars, focus>>

(* What is under study from more than one initial state; the rest has one.  *)
Focus == {"update", "startup", "session", "audit", "inventory", "kits",
          skill, server, plugin}
Studied(f) == focus = f

MCManifests ==
    {[r \in {skill} |-> Reference(None, TRUE)],
     [r \in {skill, ruleFile} |-> Reference(IF r = skill THEN None ELSE x, TRUE)],
     [r \in {skill, ruleFile} |-> Reference(None, r = skill)]}

(* A machine with a past: a skill is installed and enabled, the scan of an  *)
(* agent has found a rule in a project, and a kit of the skill is applied.  *)
LivedRow(st, p) == [Binding(st, None, p) EXCEPT !.path = "OK"]
KitRow(st) == [Binding(st, kit, None) EXCEPT !.meta = <<kit, path>>, !.path = "OK"]
Lived ==
    [tables |-> [extension    |-> [e \in Extensions |->
                     IF e = skill THEN [cached |-> TRUE, status |-> "installed"] ELSE None],
                 target       |-> [w \in Extensions \X Paths |-> IF w[1] = skill THEN "enabled" ELSE None],
                 installation |-> [w \in Configured \X Paths |-> None],
                 project      |-> [p \in Projects |-> path],
                 tool         |-> [k \in Kits |-> None]],
     graph |-> [resource |-> [r \in Resources |->
                    CASE r = skill -> Resource("scan", "enabled", None)
                      [] r = project -> Resource("scan", "scanned", None)
                      [] r = ruleFile -> Resource("agent", "scanned", None)
                      [] r = kit -> Resource("kit", "success", [q \in {skill} |-> Reference(None, TRUE)])
                      [] OTHER -> None],
                binding  |-> [b \in Places |->
                    CASE b = <<skill, path>> -> LivedRow("enabled", None)
                      [] b[1] \in {project, ruleFile} /\ b[2] = path -> LivedRow("scanned", project)
                      [] b = <<skill, <<kit, path>>>> -> KitRow("enabled")
                      [] b = <<kit, <<kit, path>>>> -> KitRow("success")
                      [] OTHER -> None],
                file     |-> [b \in Places |->
                    IF b[1] \in {skill, project, ruleFile} /\ b[2] = path
                    THEN [known |-> x, current |-> x, drifted |-> FALSE] ELSE None],
                finding  |-> [b \in Places |-> None]],
     disk |-> [t \in Paths |-> x]]

MCInit ==
    /\ focus \in Focus
    /\ IF Studied("update") THEN TRUE ELSE version = 1 /\ reportedVersion = 1
    /\ UpdateInit
    /\ IF Studied("startup") THEN TRUE ELSE deviceFile = Absent /\ databaseFile = Absent
    /\ StartInit
    /\ IF Studied("session") THEN TRUE ELSE store = NoEntries
    /\ SessionInit
    /\ OperationInit
    /\ IF focus \in Hub THEN {e \in Hub : row[e] # NoRow} \subseteq {focus} ELSE applied = {}
    /\ IF Studied("audit") THEN TRUE ELSE audited = NoText("SKILL")
    /\ AuditInit
    /\ InventoryInit
    /\ IF Studied("inventory")
       THEN /\ registered = {}
            /\ \A c \in AgentPaths : agentDisk[c] # <<"good">> => c.agent = agent /\ c.place # p2
       ELSE registered = {} /\ profiles = "valid"
    /\ KitInit
    /\ \/ Init
       \/ /\ Studied("kits")
          /\ tables = Lived.tables /\ graph = Lived.graph /\ disk = Lived.disk
          /\ todo = [c \in Calls |-> <<>>]
          /\ made = 0
          /\ removal = [c \in Calls |-> None]

\* Of three scans and changes of the disk the last waits until no scan is under way.
MCNext ==
    /\ UNCHANGED focus
    /\ \/ /\ Studied("update") /\ UpdateNext
          /\ UNCHANGED <<startVars, sessionVars, opVars, auditVars, inventoryVars, kitVars>>
       \/ /\ Studied("startup") /\ StartNext
          /\ UNCHANGED <<updateVars, sessionVars, opVars, auditVars, inventoryVars, kitVars>>
       \/ /\ Studied("session") /\ SessionNext
          /\ UNCHANGED <<updateVars, startVars, opVars, auditVars, inventoryVars, kitVars>>
       \/ /\ focus \in Hub /\ OperationNext
          /\ \A c \in OpCalls : opCall'[c] # NoOp => opCall'[c].ext = focus
          /\ UNCHANGED <<updateVars, startVars, sessionVars, auditVars, inventoryVars, kitVars>>
       \/ /\ Studied("audit") /\ AuditNext
          /\ UNCHANGED <<updateVars, startVars, sessionVars, opVars, inventoryVars, kitVars>>
       \/ /\ Studied("inventory") /\ InventoryNext
          /\ IF turns' = turns THEN TRUE
             ELSE /\ turns > 1 => \A s \in Scans : scan[s].at = "idle"
                  /\ \A c \in AgentPaths : agentDisk'[c] # agentDisk[c] => c.agent = agent /\ c.place # p2
          /\ UNCHANGED <<updateVars, startVars, sessionVars, opVars, auditVars, kitVars>>
       \/ /\ Studied("kits") /\ KitNext
          /\ UNCHANGED <<updateVars, startVars, sessionVars, opVars, auditVars, inventoryVars>>

\* Nothing tells one call, or one scan, from another.
CallSymmetry == Permutations({c1, c2})

MCSpec == MCInit /\ [][MCNext]_desktopVars

\* The state of every part is of its type.
DesktopTypeOK ==
    CASE Studied("update") -> UpdateTypeOK
      [] Studied("startup") -> StartTypeOK
      [] Studied("session") -> SessionTypeOK
      [] Studied("audit") -> AuditTypeOK
      [] Studied("inventory") -> InventoryTypeOK
      [] Studied("kits") -> LifecycleTypeOK
      [] OTHER -> OperationTypeOK
=============================================================================
