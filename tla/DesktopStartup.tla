---------------------------- MODULE DesktopStartup ----------------------------
(***************************************************************************)
(* How the desktop comes up (main.ts, services.ts, startup-recovery.ts).   *)
(* An attempt builds every service of the client, step by step; the user   *)
(* may retry at any time, so that attempts overlap, and each has a timer.  *)
(* Until one succeeds a recovery router answers the renderer.  The         *)
(* services in use send a heartbeat.                                       *)
(*                                                                         *)
(* The database is a copy in memory of the file: opening reads the file,   *)
(* every change and closing write it whole.                                *)
(***************************************************************************)
EXTENDS Naturals, FiniteSets

CONSTANTS
    MaxAttempts,    \* bound: attempts to start
    MaxChanges,     \* bound: changes the services make to the database
    Absent          \* a file that is not there

ASSUME StartupAssumption == MaxAttempts \in Nat \ {0} /\ MaxChanges \in Nat /\ Absent \notin Nat

VARIABLES
    opened,         \* the window has been loaded
    attempt,        \* startupAttempt
    status,         \* startupState.status
    active,         \* the attempt whose services are in use, 0 for none
    stage,          \* how far each attempt is
    timer,          \* attempts whose timer is set
    beating,        \* attempts whose heartbeat scheduler has a timer
    sending,        \* attempts with a heartbeat under way
    device,         \* the device identifier each attempt works with
    copy,           \* the database each attempt has in memory
    deviceFile,     \* device.json
    databaseFile,   \* local.db
    changes,        \* number of changes made
    quitting

startupState == <<opened, attempt, status, active, stage, timer, beating, sending, quitting>>
startupFiles == <<device, copy, deviceFile, databaseFile, changes>>
startVars == <<startupState, startupFiles>>

Attempts == 1..MaxAttempts
Stages == {"none", "layout", "device", "database", "services", "serving", "closed", "failed"}
Building == {"layout", "device", "database", "services"}

\* A device identifier is the attempt that made it, 0 for one of an earlier run;
\* a database is the set of the changes made to it.
Databases == SUBSET (0..MaxChanges)

StartTypeOK ==
    /\ opened \in BOOLEAN /\ quitting \in BOOLEAN
    /\ attempt \in 0..MaxAttempts /\ active \in 0..MaxAttempts
    /\ status \in {"starting", "ready", "failed"}
    /\ stage \in [Attempts -> Stages]
    /\ timer \subseteq Attempts /\ beating \subseteq Attempts /\ sending \subseteq Attempts
    /\ device \in [Attempts -> 0..MaxAttempts \cup {Absent}]
    /\ deviceFile \in 0..MaxAttempts \cup {Absent}
    /\ copy \in [Attempts -> Databases]
    /\ databaseFile \in Databases \cup {Absent}

StartInit ==
    /\ opened = FALSE /\ quitting = FALSE
    /\ attempt = 0 /\ active = 0
    /\ status = "starting"
    /\ stage = [a \in Attempts |-> "none"]
    /\ timer = {} /\ beating = {} /\ sending = {}
    /\ device = [a \in Attempts |-> Absent]
    /\ copy = [a \in Attempts |-> {}]
    /\ \/ deviceFile = Absent /\ databaseFile = Absent
       \/ deviceFile = 0 /\ databaseFile = {0}
    /\ changes = 0

-----------------------------------------------------------------------------
Enters(a, s) == stage' = [stage EXCEPT ![a] = s]

StartAttempt_Untimed == \* mutant: the timer of a retry is not set
    /\ attempt < MaxAttempts
    /\ attempt' = attempt + 1
    /\ status' = "starting"
    /\ Enters(attempt + 1, "layout")
    /\ timer' = IF attempt = 0 THEN timer \cup {1} ELSE timer

(* startDesktopServices: a new attempt takes the place of the one before,   *)
(* which goes on, and so does its timer.                                    *)
StartAttempt ==
    /\ attempt < MaxAttempts
    /\ attempt' = attempt + 1
    /\ status' = "starting"
    /\ Enters(attempt + 1, "layout")
    /\ timer' = timer \cup {attempt + 1}

LoadWindow ==
    /\ ~opened /\ ~quitting
    /\ \/ opened' = TRUE /\ StartAttempt /\ UNCHANGED quitting
       \/ quitting' = TRUE /\ UNCHANGED <<opened, attempt, status, stage, timer>>
    /\ UNCHANGED <<active, beating, sending, startupFiles>>

Retry ==
    /\ opened /\ ~quitting
    /\ StartAttempt
    /\ UNCHANGED <<opened, active, beating, sending, quitting, startupFiles>>

(* The steps of createDesktopServices that touch the disk.  Each may fail.  *)
ReadDevice(a) ==
    /\ stage[a] = "layout"
    /\ device' = [device EXCEPT ![a] = deviceFile]
    /\ Enters(a, IF deviceFile = Absent THEN "device" ELSE "database")
    /\ UNCHANGED <<opened, attempt, status, active, timer, beating, sending, quitting,
                   copy, deviceFile, databaseFile, changes>>

CreateDevice(a) ==
    /\ stage[a] = "device"
    /\ device' = [device EXCEPT ![a] = a]
    /\ deviceFile' = a
    /\ Enters(a, "database")
    /\ UNCHANGED <<opened, attempt, status, active, timer, beating, sending, quitting,
                   copy, databaseFile, changes>>

OpenDatabase(a) ==
    /\ stage[a] = "database"
    /\ copy' = [copy EXCEPT ![a] = IF databaseFile = Absent THEN {} ELSE databaseFile]
    /\ databaseFile' = copy'[a]
    /\ Enters(a, "services")
    /\ UNCHANGED <<opened, attempt, status, active, timer, beating, sending, quitting,
                   device, deviceFile, changes>>

Activate_KeepsHeartbeat(a) == \* mutant: the heartbeat of the services before goes on
    /\ active' = a
    /\ status' = "ready"
    /\ beating' = beating \cup {a}

(* activateServices: the services of an earlier attempt stop their          *)
(* heartbeat and are dropped; their database stays open.                    *)
Activate(a) ==
    /\ active' = a
    /\ status' = "ready"
    /\ beating' = (beating \ {active}) \cup {a}

Succeed(a) ==
    /\ stage[a] = "services"
    /\ IF a = attempt
       THEN /\ Activate(a)
            /\ timer' = timer \ {a}
            /\ Enters(a, "serving")
            /\ UNCHANGED databaseFile
       ELSE /\ databaseFile' = copy[a]
            /\ Enters(a, "closed")
            /\ UNCHANGED <<active, status, beating, timer>>
    /\ UNCHANGED <<opened, attempt, sending, quitting, device, copy, deviceFile, changes>>

FailAttempt(a) ==
    /\ stage[a] \in Building
    /\ Enters(a, "failed")
    /\ IF a = attempt /\ status # "ready"
       THEN status' = "failed" /\ timer' = timer \ {a}
       ELSE UNCHANGED <<status, timer>>
    /\ UNCHANGED <<opened, attempt, active, beating, sending, quitting, startupFiles>>

Timeout(a) ==
    /\ a \in timer
    /\ timer' = timer \ {a}
    /\ status' = IF a = attempt /\ status # "ready" THEN "failed" ELSE status
    /\ UNCHANGED <<opened, attempt, active, stage, beating, sending, quitting, startupFiles>>

-----------------------------------------------------------------------------
(* rebuildStartupLocalDatabase: the file is put aside unless the client is  *)
(* ready; an attempt that has read it keeps what it read.                   *)
RebuildLocalDatabase ==
    /\ opened
    /\ status # "ready"
    /\ databaseFile' = Absent
    /\ UNCHANGED <<startupState, device, copy, deviceFile, changes>>

(* A call of the renderer reaches the services in use and changes the       *)
(* record.                                                                  *)
ChangeRecord ==
    /\ active # 0
    /\ changes < MaxChanges
    /\ changes' = changes + 1
    /\ copy' = [copy EXCEPT ![active] = @ \cup {changes + 1}]
    /\ databaseFile' = copy'[active]
    /\ UNCHANGED <<startupState, device, deviceFile>>

(* DeviceHeartbeatScheduler.tick, and its end, with an answer or without.   *)
Beat(a) ==
    /\ a \in beating \ sending
    /\ sending' = sending \cup {a}
    /\ UNCHANGED <<opened, attempt, status, active, stage, timer, beating, quitting, startupFiles>>

BeatEnds(a) ==
    /\ a \in sending
    /\ sending' = sending \ {a}
    /\ UNCHANGED <<opened, attempt, status, active, stage, timer, beating, quitting, startupFiles>>

(* before-quit stops the heartbeat of the services in use.                  *)
Quit ==
    /\ opened
    /\ quitting' = TRUE
    /\ beating' = beating \ {active}
    /\ UNCHANGED <<opened, attempt, status, active, stage, timer, sending, startupFiles>>

StartNext ==
    /\ ~quitting
    /\ \/ LoadWindow \/ Retry \/ RebuildLocalDatabase \/ ChangeRecord \/ Quit
       \/ \E a \in Attempts :
            \/ ReadDevice(a) \/ CreateDevice(a) \/ OpenDatabase(a)
            \/ Succeed(a) \/ FailAttempt(a) \/ Timeout(a)
            \/ Beat(a) \/ BeatEnds(a)

(* The window loads or fails to, and a timer that is set fires.  Nothing    *)
(* makes an attempt end: a step of it may hang.                             *)
StartFairness ==
    /\ WF_startVars(LoadWindow)
    /\ \A a \in Attempts : WF_startVars(~quitting /\ Timeout(a))

StartSpec == StartInit /\ [][StartNext]_startVars /\ StartFairness

-----------------------------------------------------------------------------
(* Whatever attempts overlap, time out, fail or come late: only the         *)
(* services in use send heartbeats on a timer, a client that is ready has   *)
(* the services of its last attempt in use, and of the services that are    *)
(* not, those the client did not ask for any more were closed.              *)
ServicesInUse ==
    /\ beating \subseteq {active} \ {0}
    /\ status = "ready" => /\ active = attempt /\ active # 0
                           /\ stage[active] = "serving"
                           /\ quitting \/ active \in beating
    /\ \A a \in Attempts : stage[a] = "serving" => a <= active

(* Nobody waits for ever on a client that is starting: it becomes ready or  *)
(* says that it failed, even if every attempt hangs (startupTimeoutMs).     *)
StartupSettles == (status = "starting") ~> (status # "starting" \/ quitting)
=============================================================================
