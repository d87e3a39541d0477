----------------------------- MODULE ClientUpdate -----------------------------
(***************************************************************************)
(* How the desktop updates itself (update/client-update-service.ts).  The  *)
(* renderer asks for an update, confirms the download, and confirms the    *)
(* installation; it may cancel.  Each is a call of its own and every await *)
(* of one lets the others run: all of them write the one pending update.   *)
(* After a start, or a login, the version now running is reported.         *)
(*                                                                         *)
(* An installer is a file of its own for every download (the name carries  *)
(* the time).  It is sound when its hash, its signature and the            *)
(* certificate of the signature are those of the update it came with.      *)
(***************************************************************************)
EXTENDS Naturals

CONSTANTS
    Updates,        \* what the server can offer
    Incomplete,     \* those whose metadata lacks an id, a version or a hash
    Versions,       \* versions of the client
    UpdateCalls,    \* calls under way at a time
    MaxUpdateCalls, \* bound: calls in all
    NoUpdate

ASSUME UpdateAssumption ==
    /\ Incomplete \subseteq Updates
    /\ NoUpdate \notin Updates \cup Versions
    /\ MaxUpdateCalls \in Nat

VARIABLES
    pending,        \* ClientUpdateService.pending, NoUpdate when undefined
    updCall,        \* the calls under way
    updatesMade,    \* number of calls made
    installers,     \* the installers downloaded
    launched,       \* the installers started
    told,           \* events the server has received, with their update
    version,        \* the version of the client that runs
    reportedVersion,\* the file of the version last reported
    changesTold     \* UPDATED_FIRST_START events the server has received

updateVars == <<pending, updCall, updatesMade, installers, launched, told, version,
                reportedVersion, changesTold>>
startupVars == <<version, reportedVersion, changesTold>>

Installers == [update : Updates, sound : BOOLEAN]
States == {"available", "download_confirmed", "verified", "cancelled", "launched"}
Pending(state, u, i) == [state |-> state, update |-> u, installer |-> i]

\* pending is what the call read before its first await; from is the version
\* a report of the start found in the file.
NoCall == [at |-> "none", pending |-> NoUpdate, installer |-> NoUpdate, from |-> NoUpdate]
Asking == {"asking", "registering", "asking again"}
Downloading == {"confirmed", "ticketing", "downloading", "verifying", "verified"}
Installing == {"launch confirmed", "launching", "launched"}
UpdateStages == Asking \cup Downloading \cup Installing
    \cup {"none", "offered", "cancelling", "cancelled", "starting", "started", "told"}

UpdateTypeOK ==
    /\ pending \in [state : States, update : Updates \cup {NoUpdate}, installer : Installers \cup {NoUpdate}]
           \cup {NoUpdate}
    /\ updCall \in [UpdateCalls ->
           [at : UpdateStages,
            pending : [state : States, update : Updates \cup {NoUpdate}, installer : Installers \cup {NoUpdate}]
                \cup {NoUpdate},
            installer : Installers \cup {NoUpdate}, from : Versions \cup {NoUpdate}]]
    /\ updatesMade \in Nat
    /\ installers \subseteq Installers
    /\ launched \subseteq Installers
    /\ version \in Versions
    /\ reportedVersion \in Versions \cup {NoUpdate}

UpdateInit ==
    /\ pending = NoUpdate
    /\ updCall = [c \in UpdateCalls |-> NoCall]
    /\ updatesMade = 0
    /\ installers = {}
    /\ launched = {}
    /\ told = {}
    /\ version \in Versions
    /\ reportedVersion \in Versions \cup {NoUpdate}
    /\ changesTold = {}

-----------------------------------------------------------------------------
At(c, stage) == updCall[c].at = stage
Goto(c, stage) == updCall' = [updCall EXCEPT ![c].at = stage]
Return(c) == updCall' = [updCall EXCEPT ![c] = NoCall]
Enter(c, call) ==
    /\ At(c, "none")
    /\ updatesMade < MaxUpdateCalls
    /\ updatesMade' = updatesMade + 1
    /\ updCall' = [updCall EXCEPT ![c] = call]

(* An event of an update: it arrives and the call goes on to next, or the   *)
(* request fails and the call with it.                                      *)
Tell(c, type, u, next) ==
    \/ told' = told \cup {[type |-> type, update |-> u]} /\ Goto(c, next)
    \/ told' = told /\ Return(c)

(* A failed step is reported; whether that succeeds makes no difference.    *)
Fail(c, type, u) ==
    /\ told' \in {told, told \cup {[type |-> type, update |-> u]}}
    /\ Return(c)

-----------------------------------------------------------------------------
(* check: what the server offers replaces what is pending, whatever another *)
(* call is doing with it.  An unknown device is registered, once.           *)
BeginCheck(c) ==
    /\ Enter(c, [NoCall EXCEPT !.at = "asking"])
    /\ UNCHANGED <<pending, installers, launched, told, startupVars>>

CheckAnswered(c) ==
    /\ At(c, "asking") \/ At(c, "asking again")
    /\ \/ pending' = NoUpdate /\ Return(c)
       \/ \E u \in Updates :
            /\ pending' = Pending("available", u, NoUpdate)
            /\ updCall' = [updCall EXCEPT ![c].at = "offered", ![c].pending = pending']
       \/ pending' = pending /\ Return(c)
       \/ At(c, "asking") /\ pending' = pending /\ Goto(c, "registering")
    /\ UNCHANGED <<updatesMade, installers, launched, told, startupVars>>

RegisterDevice(c) ==
    /\ At(c, "registering")
    /\ Goto(c, "asking again") \/ Return(c)
    /\ UNCHANGED <<pending, updatesMade, installers, launched, told, startupVars>>

ReportOffer(c) ==
    /\ At(c, "offered")
    /\ Tell(c, "UPDATE_AVAILABLE", updCall[c].pending.update, "none")
    /\ UNCHANGED <<pending, updatesMade, installers, launched, startupVars>>

(* cancel: something must be pending when the call begins; what is then     *)
(* cancelled is what is pending after an await.                             *)
BeginCancel(c) ==
    /\ pending # NoUpdate
    /\ Enter(c, [NoCall EXCEPT !.at = "cancelling"])
    /\ UNCHANGED <<pending, installers, launched, told, startupVars>>

Cancel(c) ==
    /\ At(c, "cancelling")
    /\ IF pending = NoUpdate
       THEN pending' = Pending("cancelled", NoUpdate, NoUpdate) /\ Return(c)
       ELSE /\ pending' = [pending EXCEPT !.state = "cancelled"]
            /\ IF pending.update = NoUpdate THEN Return(c)
               ELSE updCall' = [updCall EXCEPT ![c].at = "cancelled", ![c].pending = pending']
    /\ UNCHANGED <<updatesMade, installers, launched, told, startupVars>>

ReportCancel(c) ==
    /\ At(c, "cancelled")
    /\ Tell(c, "USER_CANCELLED", updCall[c].pending.update, "none")
    /\ UNCHANGED <<pending, updatesMade, installers, launched, startupVars>>

-----------------------------------------------------------------------------
Required_AnyDownloaded(state) == \* mutant: installs what was only downloaded
    pending # NoUpdate /\ pending.state \in {state} \cup
        (IF state = "verified" THEN {"download_confirmed"} ELSE {})

(* requireState: what the user confirms must be pending in this state.      *)
Required(state) == pending # NoUpdate /\ pending.state = state
Confirm(c, stage) == Enter(c, [NoCall EXCEPT !.at = stage, !.pending = pending])
UpdateOf_Pending(c) == \* mutant: reports what is pending by now
    IF pending = NoUpdate THEN updCall[c].pending.update ELSE pending.update
UpdateOf(c) == updCall[c].pending.update

(* confirmDownload: the steps of a download, of the update that was pending *)
(* when it was confirmed.                                                   *)
ConfirmDownload(c) ==
    /\ Required("available")
    /\ pending.update \notin Incomplete
    /\ Confirm(c, "confirmed")
    /\ UNCHANGED <<pending, installers, launched, told, startupVars>>

ReportDownload(c) ==
    /\ At(c, "confirmed")
    /\ Tell(c, "DOWNLOAD_CONFIRMED", UpdateOf(c), "ticketing")
    /\ UNCHANGED <<pending, updatesMade, installers, launched, startupVars>>

CreateTicket(c) ==
    /\ At(c, "ticketing")
    /\ \/ Goto(c, "downloading") /\ told' = told
       \/ Fail(c, "DOWNLOAD_TICKET_FAILED", UpdateOf(c))
    /\ UNCHANGED <<pending, updatesMade, installers, launched, startupVars>>

WriteUpdateFile(c) ==
    /\ At(c, "downloading")
    /\ \/ \E sound \in BOOLEAN :
            LET i == [update |-> UpdateOf(c), sound |-> sound]
            IN  /\ installers' = installers \cup {i}
                /\ pending' = Pending("download_confirmed", UpdateOf(c), i)
                /\ updCall' = [updCall EXCEPT ![c].at = "verifying", ![c].installer = i]
                /\ told' = told
       \/ Fail(c, "DOWNLOAD_FAILED", UpdateOf(c)) /\ UNCHANGED <<pending, installers>>
    /\ UNCHANGED <<updatesMade, launched, startupVars>>

(* The hash of the file, then its signature: a check can fail of itself.    *)
Verify(c) ==
    LET i == updCall[c].installer
    IN  /\ At(c, "verifying")
        /\ \/ /\ i.sound
              /\ pending' = Pending("verified", UpdateOf(c), i)
              /\ Goto(c, "verified")
              /\ told' = told
           \/ Fail(c, "VERIFY_FAILED", UpdateOf(c)) /\ pending' = pending
        /\ UNCHANGED <<updatesMade, installers, launched, startupVars>>

ReportVerified(c) ==
    /\ At(c, "verified")
    /\ Tell(c, "VERIFIED", UpdateOf(c), "none")
    /\ UNCHANGED <<pending, updatesMade, installers, launched, startupVars>>

-----------------------------------------------------------------------------
(* confirmInstall: starts the installer that was verified when the user     *)
(* confirmed.                                                               *)
ConfirmInstall(c) ==
    /\ Required("verified")
    /\ Confirm(c, "launch confirmed")
    /\ UNCHANGED <<pending, installers, launched, told, startupVars>>

ReportLaunch(c) ==
    /\ At(c, "launch confirmed")
    /\ Tell(c, "LAUNCH_CONFIRMED", UpdateOf(c), "launching")
    /\ UNCHANGED <<pending, updatesMade, installers, launched, startupVars>>

LaunchInstaller(c) ==
    LET p == updCall[c].pending
    IN  /\ At(c, "launching")
        /\ \/ /\ launched' = launched \cup {p.installer}
              /\ pending' = [p EXCEPT !.state = "launched"]
              /\ Goto(c, "launched")
              /\ told' = told
           \/ Fail(c, "INSTALLER_LAUNCH_FAILED", p.update) /\ UNCHANGED <<pending, launched>>
        /\ UNCHANGED <<updatesMade, installers, startupVars>>

ReportLaunched(c) ==
    /\ At(c, "launched")
    /\ Tell(c, "INSTALLER_LAUNCHED", UpdateOf(c), "none")
    /\ UNCHANGED <<pending, updatesMade, installers, launched, startupVars>>

-----------------------------------------------------------------------------
(* reportStartupVersion, after a start and after every login.  A file that  *)
(* cannot be read is one without a version.                                 *)
BeginStartupReport(c) ==
    /\ Enter(c, [NoCall EXCEPT !.at = "starting"])
    /\ UNCHANGED <<pending, installers, launched, told, startupVars>>

ReadStartupState(c) ==
    /\ At(c, "starting")
    /\ \E found \in {reportedVersion, NoUpdate} :
         CASE found = NoUpdate -> Goto(c, "told")
           [] found = version -> Return(c)
           [] OTHER -> updCall' = [updCall EXCEPT ![c].at = "started", ![c].from = found]
    /\ UNCHANGED <<pending, updatesMade, installers, launched, told, startupVars>>

ReportStartup_Swallowed(c) == \* mutant: a report that fails is taken as made
    /\ At(c, "started")
    /\ changesTold' \in {changesTold, changesTold \cup {<<updCall[c].from, version>>}}
    /\ Goto(c, "told")
    /\ UNCHANGED <<pending, updatesMade, installers, launched, told, version, reportedVersion>>

ReportStartup(c) ==
    /\ At(c, "started")
    /\ \/ changesTold' = changesTold \cup {<<updCall[c].from, version>>} /\ Goto(c, "told")
       \/ changesTold' = changesTold /\ Return(c)
    /\ UNCHANGED <<pending, updatesMade, installers, launched, told, version, reportedVersion>>

WriteStartupState(c) ==
    /\ At(c, "told")
    /\ reportedVersion' \in {version, reportedVersion}
    /\ Return(c)
    /\ UNCHANGED <<pending, updatesMade, installers, launched, told, version, changesTold>>

(* The client ends, at any moment; the next that starts may be another.     *)
Restart ==
    /\ pending' = NoUpdate
    /\ updCall' = [c \in UpdateCalls |-> NoCall]
    /\ version' \in Versions
    /\ UNCHANGED <<updatesMade, installers, launched, told, reportedVersion, changesTold>>

UpdateNext ==
    \/ \E c \in UpdateCalls :
         \/ BeginCheck(c) \/ CheckAnswered(c) \/ RegisterDevice(c) \/ ReportOffer(c)
         \/ BeginCancel(c) \/ Cancel(c) \/ ReportCancel(c)
         \/ ConfirmDownload(c) \/ ReportDownload(c) \/ CreateTicket(c)
         \/ WriteUpdateFile(c) \/ Verify(c) \/ ReportVerified(c)
         \/ ConfirmInstall(c) \/ ReportLaunch(c) \/ LaunchInstaller(c) \/ ReportLaunched(c)
         \/ BeginStartupReport(c) \/ ReadStartupState(c) \/ ReportStartup(c) \/ WriteStartupState(c)
    \/ Restart

UpdateSpec == UpdateInit /\ [][UpdateNext]_updateVars

-----------------------------------------------------------------------------
(* An installer is started only if it passed every check against the update *)
(* it was downloaded for, whatever was checked, cancelled or downloaded in  *)
(* between (confirmInstall, and the order of the writes of pending).        *)
LaunchedWasVerified == \A i \in launched : i.sound

(* What the server is told of an update did happen to that update: an       *)
(* installer of it was found sound, or was started, even when another       *)
(* update has become the pending one meanwhile.                             *)
UpdateEventsAreTrue ==
    /\ \A u \in Updates : [type |-> "VERIFIED", update |-> u] \in told
           => [update |-> u, sound |-> TRUE] \in installers
    /\ \A u \in Updates : [type |-> "INSTALLER_LAUNCHED", update |-> u] \in told
           => \E i \in launched : i.update = u

(* The file of the version last reported moves from one version to another  *)
(* only after the server has been told of that very change, whatever        *)
(* crashes and reports at once come between, or after the file could not be *)
(* read and the version was recorded as the first.                          *)
VersionChangeIsTold ==
    [][reportedVersion' # reportedVersion /\ reportedVersion # NoUpdate
         => \/ <<reportedVersion, reportedVersion'>> \in changesTold
            \/ \E c \in UpdateCalls : At(c, "told") /\ updCall[c].from = NoUpdate]_updateVars
=============================================================================
