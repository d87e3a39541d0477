---------------------------- MODULE DesktopProofs ----------------------------
(* The main process of the desktop, for any number of updates, attempts, users,  *)
(* extensions and calls at once: an installer that is started has been verified,  *)
(* and what the server is told of an update is true; one set of services is in    *)
(* use; after a sign-out no request carries a token; the local database claims    *)
(* what a plan has put in place, and what is held back stays off.  At the end the *)
(* parts side by side, as MCDesktop has them.                                     *)
EXTENDS MCDesktop, RecordsProofs, TLAPS

------------------------------------------------------------------------------
(* The update of the client                                                  *)

\* The types of the update that is pending and of a call.
Pendings == [state : States, update : Updates \cup {NoUpdate}, installer : Installers \cup {NoUpdate}]
UpdCalls == [at : UpdateStages, pending : Pendings \cup {NoUpdate},
          installer : Installers \cup {NoUpdate}, from : Versions \cup {NoUpdate}]


\* What was found sound: one of the installers on the disk, of the update it stands beside.
Verified(u, i, files) == i \in files /\ i.sound /\ i.update = u

\* Only what the server offered is kept as available, and only a sound installer as verified.
PendingOK(p, files) ==
    p # NoUpdate =>
        /\ p.state = "available" => p.update \in Updates
        /\ p.state = "verified" => Verified(p.update, p.installer, files)

\* What a call holds of the update that was pending when it was confirmed.
UpdateCallOK(call, files, started) ==
    /\ call.at \in Downloading => call.pending.update \in Updates
    /\ call.at = "verifying" => call.installer \in files /\ call.installer.update = call.pending.update
    /\ call.at = "verified" => Verified(call.pending.update, call.installer, files)
    /\ call.at \in Installing => /\ call.pending # NoUpdate
                                 /\ Verified(call.pending.update, call.pending.installer, files)
    /\ call.at = "launched" => call.pending.installer \in started

\* The inductive invariant.
UpdateInv ==
    /\ updCall \in [UpdateCalls -> UpdCalls]
    /\ pending \in Pendings \cup {NoUpdate}
    /\ updatesMade \in Nat
    /\ installers \subseteq Installers
    /\ launched \subseteq Installers
    /\ version \in Versions
    /\ reportedVersion \in Versions \cup {NoUpdate}
    /\ PendingOK(pending, installers)
    /\ \A c \in UpdateCalls : UpdateCallOK(updCall[c], installers, launched)

\* It carries the types.
LEMMA UpdateInvTypes == UpdateInv => UpdateTypeOK
BY DEF UpdateInv, UpdateTypeOK, UpdCalls, Pendings

\* A call that has not begun, or is over, holds nothing.
LEMMA NoUpdateCallType == NoCall \in UpdCalls /\ UpdateCallOK(NoCall, installers, launched)
BY DEF NoCall, UpdCalls, UpdateStages, UpdateCallOK, Downloading, Installing

\* The step of one call leaves the others as they were.
LEMMA UpdateCallStep ==
    ASSUME UpdateInv, NEW c \in UpdateCalls, NEW call \in UpdCalls,
           updCall' = [updCall EXCEPT ![c] = call],
           UpdateCallOK(call, installers', launched'),
           pending' \in Pendings \cup {NoUpdate}, PendingOK(pending', installers'),
           updatesMade' \in Nat,
           installers \subseteq installers', installers' \subseteq Installers,
           launched \subseteq launched', launched' \subseteq Installers,
           version' \in Versions, reportedVersion' \in Versions \cup {NoUpdate}
    PROVE  UpdateInv'
<1>1. updCall' \in [UpdateCalls -> UpdCalls]
  BY DEF UpdateInv
<1>2. \A d \in UpdateCalls : updCall'[d] = updCall[d] \/ updCall'[d] = call
  BY DEF UpdateInv
<1>3. \A d \in UpdateCalls : UpdateCallOK(updCall[d], installers', launched')
  BY DEF UpdateInv, UpdateCallOK, Verified
<1>4. \A d \in UpdateCalls : UpdateCallOK(updCall'[d], installers', launched')
  BY <1>2, <1>3
<1> QED
  BY <1>1, <1>4 DEF UpdateInv

\* A call goes on, to another goal of a download or of an installation only from one.
LEMMA UpdateGotoStep ==
    ASSUME UpdateInv, NEW c \in UpdateCalls, NEW goal \in UpdateStages, Goto(c, goal),
           goal \in Downloading => updCall[c].at \in Downloading,
           goal \in Installing => updCall[c].at \in Installing,
           goal \notin {"verifying", "verified", "launched"},
           UNCHANGED <<pending, updatesMade, installers, launched, version>>,
           reportedVersion' \in Versions \cup {NoUpdate}
    PROVE  UpdateInv'
<1> DEFINE call == [updCall[c] EXCEPT !.at = goal]
<1>1. /\ call \in UpdCalls /\ call.at = goal
      /\ call.pending = updCall[c].pending /\ call.installer = updCall[c].installer
  BY DEF UpdateInv, UpdCalls
<1>2. updCall' = [updCall EXCEPT ![c] = call]
  BY DEF Goto
<1>3. UpdateCallOK(call, installers, launched)
  BY <1>1 DEF UpdateInv, UpdateCallOK
<1> HIDE DEF call
<1> QED
  BY <1>1, <1>2, <1>3, UpdateCallStep DEF UpdateInv

\* A call returns, or fails.
LEMMA UpdateReturnStep ==
    ASSUME UpdateInv, NEW c \in UpdateCalls, Return(c),
           pending' \in {pending, NoUpdate}
               \/ (pending' \in Pendings /\ pending'.state \notin {"available", "verified"}),
           UNCHANGED <<updatesMade, installers, launched, version>>,
           reportedVersion' \in Versions \cup {NoUpdate}
    PROVE  UpdateInv'
BY NoUpdateCallType, UpdateCallStep DEF Return, UpdateInv, PendingOK

\* A call begins.
LEMMA UpdateEnterStep ==
    ASSUME UpdateInv, NEW c \in UpdateCalls, NEW call \in UpdCalls, Enter(c, call),
           UpdateCallOK(call, installers, launched),
           UNCHANGED <<pending, installers, launched, startupVars>>
    PROVE  UpdateInv'
BY UpdateCallStep DEF Enter, UpdateInv, startupVars

\* Every step keeps the invariant.
LEMMA UpdateInvStep == UpdateInv /\ [UpdateNext]_updateVars => UpdateInv'
<1> SUFFICES ASSUME UpdateInv, [UpdateNext]_updateVars PROVE UpdateInv'
  OBVIOUS
<1> USE UpdateAssumption
<1> USE DEF UpdateStages, Asking, Downloading, Installing
<1>1. ASSUME NEW c \in UpdateCalls,
             BeginCheck(c) \/ BeginCancel(c) \/ ConfirmDownload(c) \/ ConfirmInstall(c) \/ BeginStartupReport(c)
      PROVE  UpdateInv'
  <2>1. ASSUME NEW goal \in {"asking", "cancelling", "starting"}, NEW call, call = [NoCall EXCEPT !.at = goal]
        PROVE  call \in UpdCalls /\ UpdateCallOK(call, installers, launched)
    BY <2>1 DEF NoCall, UpdCalls, UpdateCallOK
  <2>2. ASSUME NEW goal \in {"confirmed", "launch confirmed"}, NEW call,
               call = [NoCall EXCEPT !.at = goal, !.pending = pending]
        PROVE  call \in UpdCalls /\ call.at = goal /\ call.pending = pending
    BY <2>2 DEF NoCall, UpdCalls, UpdateInv
  <2>3. CASE BeginCheck(c) \/ BeginCancel(c) \/ BeginStartupReport(c)
    BY <2>1, <2>3, UpdateEnterStep DEF BeginCheck, BeginCancel, BeginStartupReport
  <2>4. CASE ConfirmDownload(c)
    <3> DEFINE call == [NoCall EXCEPT !.at = "confirmed", !.pending = pending]
    <3>1. call \in UpdCalls /\ call.at = "confirmed" /\ call.pending = pending
      BY <2>2
    <3>2. UpdateCallOK(call, installers, launched)
      BY <2>4, <3>1 DEF ConfirmDownload, Required, UpdateCallOK, UpdateInv, PendingOK
    <3>3. Enter(c, call) /\ UNCHANGED <<pending, installers, launched, startupVars>>
      BY <2>4 DEF ConfirmDownload, Confirm
    <3> HIDE DEF call
    <3> QED
      BY <3>1, <3>2, <3>3, UpdateEnterStep
  <2>5. CASE ConfirmInstall(c)
    <3> DEFINE call == [NoCall EXCEPT !.at = "launch confirmed", !.pending = pending]
    <3>1. call \in UpdCalls /\ call.at = "launch confirmed" /\ call.pending = pending
      BY <2>2
    <3>2. UpdateCallOK(call, installers, launched)
      BY <2>5, <3>1 DEF ConfirmInstall, Required, UpdateCallOK, UpdateInv, PendingOK
    <3>3. Enter(c, call) /\ UNCHANGED <<pending, installers, launched, startupVars>>
      BY <2>5 DEF ConfirmInstall, Confirm
    <3> HIDE DEF call
    <3> QED
      BY <3>1, <3>2, <3>3, UpdateEnterStep
  <2> QED
    BY <1>1, <2>3, <2>4, <2>5
<1>2. ASSUME NEW c \in UpdateCalls, CheckAnswered(c) PROVE UpdateInv'
  <2>1. ASSUME NEW u \in Updates, pending' = Pending("available", u, NoUpdate),
               updCall' = [updCall EXCEPT ![c].at = "offered", ![c].pending = pending']
        PROVE  UpdateInv'
    <3> DEFINE call == [updCall[c] EXCEPT !.at = "offered", !.pending = pending']
    <3>1. pending' \in Pendings /\ PendingOK(pending', installers)
      BY <2>1 DEF Pending, Pendings, States, PendingOK
    <3>2. call \in UpdCalls /\ UpdateCallOK(call, installers, launched)
      BY <3>1 DEF UpdateInv, UpdCalls, UpdateCallOK
    <3>3. updCall' = [updCall EXCEPT ![c] = call]
      BY <2>1
    <3> HIDE DEF call
    <3> QED
      BY <1>2, <3>1, <3>2, <3>3, UpdateCallStep DEF CheckAnswered, UpdateInv, startupVars
  <2> QED
    BY <1>2, <2>1, UpdateGotoStep, UpdateReturnStep DEF CheckAnswered, startupVars, UpdateInv
<1>3. ASSUME NEW c \in UpdateCalls,
             \/ RegisterDevice(c) \/ ReportOffer(c) \/ ReportCancel(c) \/ ReportDownload(c)
             \/ ReportVerified(c) \/ ReportLaunch(c) \/ ReportLaunched(c)
      PROVE  UpdateInv'
  BY <1>3, UpdateGotoStep, UpdateReturnStep
     DEF RegisterDevice, ReportOffer, ReportCancel, ReportDownload, ReportVerified, ReportLaunch,
         ReportLaunched, Tell, At, startupVars, UpdateInv
<1>4. ASSUME NEW c \in UpdateCalls, Cancel(c) PROVE UpdateInv'
  <2>1. pending' \in Pendings /\ pending'.state = "cancelled"
    BY <1>4 DEF Cancel, Pending, Pendings, States, UpdateInv
  <2>2. CASE Return(c)
    BY <1>4, <2>1, <2>2, UpdateReturnStep DEF Cancel, startupVars, UpdateInv
  <2>3. CASE updCall' = [updCall EXCEPT ![c].at = "cancelled", ![c].pending = pending']
    <3> DEFINE call == [updCall[c] EXCEPT !.at = "cancelled", !.pending = pending']
    <3>1. call \in UpdCalls /\ UpdateCallOK(call, installers, launched)
      BY <2>1 DEF UpdateInv, UpdCalls, UpdateCallOK
    <3>2. updCall' = [updCall EXCEPT ![c] = call]
      BY <2>3
    <3>3. PendingOK(pending', installers)
      BY <2>1 DEF PendingOK
    <3> HIDE DEF call
    <3> QED
      BY <1>4, <2>1, <3>1, <3>2, <3>3, UpdateCallStep DEF Cancel, startupVars, UpdateInv
  <2> QED
    BY <1>4, <2>2, <2>3 DEF Cancel
<1>5. ASSUME NEW c \in UpdateCalls, CreateTicket(c) PROVE UpdateInv'
  BY <1>5, UpdateGotoStep, UpdateReturnStep DEF CreateTicket, Fail, At, startupVars, UpdateInv
<1>6. ASSUME NEW c \in UpdateCalls, WriteUpdateFile(c) PROVE UpdateInv'
  <2>1. UpdateOf(c) = updCall[c].pending.update /\ UpdateOf(c) \in Updates
    BY <1>6 DEF WriteUpdateFile, At, UpdateOf, UpdateInv, UpdateCallOK
  <2>2. ASSUME NEW sound \in BOOLEAN, NEW i, i = [update |-> UpdateOf(c), sound |-> sound],
               installers' = installers \cup {i},
               pending' = Pending("download_confirmed", UpdateOf(c), i),
               updCall' = [updCall EXCEPT ![c].at = "verifying", ![c].installer = i]
        PROVE  UpdateInv'
    <3> DEFINE call == [updCall[c] EXCEPT !.at = "verifying", !.installer = i]
    <3>1. i \in Installers /\ i.update = UpdateOf(c)
      BY <2>1, <2>2 DEF Installers
    <3>2. pending' \in Pendings /\ PendingOK(pending', installers')
      BY <2>1, <2>2, <3>1 DEF Pending, Pendings, States, PendingOK
    <3>3. call \in UpdCalls /\ call.at = "verifying" /\ call.installer = i /\ call.pending = updCall[c].pending
      BY <3>1 DEF UpdateInv, UpdCalls
    <3>4. updCall' = [updCall EXCEPT ![c] = call]
      BY <2>2
    <3>5. UpdateCallOK(call, installers', launched')
      BY <2>1, <2>2, <3>1, <3>3 DEF UpdateCallOK
    <3>6. /\ UNCHANGED <<updatesMade, launched, version, reportedVersion>>
          /\ installers \subseteq installers' /\ installers' \subseteq Installers
          /\ launched \subseteq Installers /\ launched \subseteq launched'
          /\ updatesMade \in Nat /\ version \in Versions /\ reportedVersion \in Versions \cup {NoUpdate}
      BY <1>6, <2>2, <3>1 DEF WriteUpdateFile, startupVars, UpdateInv
    <3> HIDE DEF call
    <3> QED
      BY <3>2, <3>3, <3>4, <3>5, <3>6, UpdateCallStep
  <2>3. CASE Return(c) /\ UNCHANGED <<pending, installers>>
    BY <1>6, <2>3, UpdateReturnStep DEF WriteUpdateFile, startupVars, UpdateInv
  <2> QED
    BY <1>6, <2>2, <2>3 DEF WriteUpdateFile, Fail
<1>7. ASSUME NEW c \in UpdateCalls, Verify(c) PROVE UpdateInv'
  <2>1. CASE /\ updCall[c].installer.sound
             /\ Goto(c, "verified")
             /\ pending' = Pending("verified", UpdateOf(c), updCall[c].installer)
    <3> DEFINE call == [updCall[c] EXCEPT !.at = "verified"]
    <3>1. /\ UpdateOf(c) \in Updates
          /\ Verified(UpdateOf(c), updCall[c].installer, installers)
          /\ updCall[c].installer \in Installers
      BY <1>7, <2>1 DEF Verify, At, UpdateOf, UpdateInv, UpdateCallOK, Verified
    <3>2. pending' \in Pendings /\ PendingOK(pending', installers)
      BY <2>1, <3>1 DEF Pending, Pendings, States, PendingOK
    <3>3. /\ call \in UpdCalls /\ call.at = "verified"
          /\ call.installer = updCall[c].installer /\ call.pending.update = UpdateOf(c)
      BY DEF UpdateInv, UpdCalls, UpdateOf
    <3>4. updCall' = [updCall EXCEPT ![c] = call]
      BY <2>1 DEF Goto
    <3>5. UpdateCallOK(call, installers, launched)
      BY <3>1, <3>3 DEF UpdateCallOK
    <3> HIDE DEF call
    <3> QED
      BY <1>7, <3>2, <3>3, <3>4, <3>5, UpdateCallStep DEF Verify, startupVars, UpdateInv
  <2>2. CASE Return(c) /\ pending' = pending
    BY <1>7, <2>2, UpdateReturnStep DEF Verify, startupVars, UpdateInv
  <2> QED
    BY <1>7, <2>1, <2>2 DEF Verify, Fail
<1>8. ASSUME NEW c \in UpdateCalls, LaunchInstaller(c) PROVE UpdateInv'
  <2> DEFINE p == updCall[c].pending
  <2>1. /\ p \in Pendings
        /\ Verified(p.update, p.installer, installers)
        /\ p.installer \in Installers
    BY <1>8 DEF LaunchInstaller, At, UpdateInv, UpdateCallOK, UpdCalls, Verified
  <2>2. CASE /\ launched' = launched \cup {p.installer}
             /\ pending' = [p EXCEPT !.state = "launched"]
             /\ Goto(c, "launched")
    <3> DEFINE call == [updCall[c] EXCEPT !.at = "launched"]
    <3>1. pending' \in Pendings /\ PendingOK(pending', installers)
      BY <2>1, <2>2 DEF Pendings, States, PendingOK
    <3>2. call \in UpdCalls /\ call.at = "launched" /\ call.pending = p
      BY DEF UpdateInv, UpdCalls
    <3>3. updCall' = [updCall EXCEPT ![c] = call]
      BY <2>2 DEF Goto
    <3>4. p # NoUpdate
      BY <1>8 DEF LaunchInstaller, At, UpdateInv, UpdateCallOK
    <3>5. UpdateCallOK(call, installers, launched')
      BY <2>1, <2>2, <3>2, <3>4 DEF UpdateCallOK
    <3> HIDE DEF call, p
    <3> QED
      BY <1>8, <2>1, <2>2, <3>1, <3>2, <3>3, <3>5, UpdateCallStep DEF LaunchInstaller, startupVars, UpdateInv
  <2>3. CASE Return(c) /\ UNCHANGED <<pending, launched>>
    BY <1>8, <2>3, UpdateReturnStep DEF LaunchInstaller, startupVars, UpdateInv
  <2> QED
    BY <1>8, <2>2, <2>3 DEF LaunchInstaller, Fail
<1>9. ASSUME NEW c \in UpdateCalls, ReadStartupState(c) PROVE UpdateInv'
  <2>1. ASSUME NEW found \in {reportedVersion, NoUpdate},
               updCall' = [updCall EXCEPT ![c].at = "started", ![c].from = found]
        PROVE  UpdateInv'
    <3> DEFINE call == [updCall[c] EXCEPT !.at = "started", !.from = found]
    <3>1. call \in UpdCalls /\ UpdateCallOK(call, installers, launched)
      BY DEF UpdateInv, UpdCalls, UpdateCallOK
    <3>2. updCall' = [updCall EXCEPT ![c] = call]
      BY <2>1
    <3> HIDE DEF call
    <3> QED
      BY <1>9, <3>1, <3>2, UpdateCallStep DEF ReadStartupState, startupVars, UpdateInv
  <2> QED
    BY <1>9, <2>1, UpdateGotoStep, UpdateReturnStep DEF ReadStartupState, startupVars, UpdateInv
<1>10. ASSUME NEW c \in UpdateCalls, ReportStartup(c) PROVE UpdateInv'
  BY <1>10, UpdateGotoStep, UpdateReturnStep DEF ReportStartup, startupVars, UpdateInv
<1>11. ASSUME NEW c \in UpdateCalls, WriteStartupState(c) PROVE UpdateInv'
  BY <1>11, UpdateReturnStep DEF WriteStartupState, UpdateInv
<1>12. CASE Restart
  <2>1. \A c \in UpdateCalls : updCall'[c] = NoCall
    BY <1>12 DEF Restart
  <2>2. updCall' \in [UpdateCalls -> UpdCalls]
    BY <1>12, NoUpdateCallType DEF Restart
  <2>3. PendingOK(NoUpdate, installers)
    BY DEF PendingOK
  <2> QED
    BY <1>12, <2>1, <2>2, <2>3, NoUpdateCallType DEF Restart, UpdateInv
<1>13. CASE UNCHANGED updateVars
  BY <1>13 DEF updateVars, startupVars, UpdateInv
<1> QED
  BY <1>1, <1>2, <1>3, <1>4, <1>5, <1>6, <1>7, <1>8, <1>9, <1>10, <1>11, <1>12, <1>13 DEF UpdateNext

\* At first nothing is pending and no call has begun.
LEMMA UpdateInvInit == UpdateInit => UpdateInv
BY UpdateAssumption, NoUpdateCallType DEF UpdateInit, UpdateInv, PendingOK

\* The invariant of the updater: besides the types, what a download and an installation need of
\* what was confirmed, however the calls overlap.
THEOREM UpdateInvariant == UpdateSpec => []UpdateInv
BY UpdateInvInit, UpdateInvStep, PTL DEF UpdateSpec

------------------------------------------------------------------------------
(* What is launched and what is told                                       *)

\* Only a sound installer is started, and the events told of an update stay true.
LEMMA LaunchStep ==
    UpdateInv /\ LaunchedWasVerified /\ [UpdateNext]_updateVars => LaunchedWasVerified'
<1> SUFFICES ASSUME UpdateInv, LaunchedWasVerified, [UpdateNext]_updateVars PROVE LaunchedWasVerified'
  OBVIOUS
<1>1. ASSUME NEW c \in UpdateCalls, LaunchInstaller(c) PROVE LaunchedWasVerified'
  BY <1>1 DEF LaunchInstaller, At, UpdateInv, UpdateCallOK, Verified, Installing, LaunchedWasVerified
<1>2. CASE launched' = launched
  BY <1>2 DEF LaunchedWasVerified
<1> QED
  BY <1>1, <1>2
     DEF UpdateNext, updateVars, BeginCheck, CheckAnswered, RegisterDevice, ReportOffer, BeginCancel, Cancel,
         ReportCancel, ConfirmDownload, ReportDownload, CreateTicket, WriteUpdateFile, Verify,
         ReportVerified, ConfirmInstall, ReportLaunch, ReportLaunched, BeginStartupReport,
         ReadStartupState, ReportStartup, WriteStartupState, Restart

\* However downloads, cancellations, checks and restarts overlap, no installer is started that
\* did not pass every check against its update (confirmInstall).
THEOREM OnlyVerifiedIsLaunched == UpdateSpec => []LaunchedWasVerified
<1>1. UpdateInit => LaunchedWasVerified
  BY DEF UpdateInit, LaunchedWasVerified
<1> QED
  BY <1>1, UpdateInvariant, LaunchStep, PTL DEF UpdateSpec

\* An event of another type is neither of the two that UpdateEventsAreTrue is about.
LEMMA OtherEvent ==
    ASSUME NEW type, type \notin {"VERIFIED", "INSTALLER_LAUNCHED"}, NEW u, NEW before,
           NEW after \in {before, before \cup {[type |-> type, update |-> u]}},
           NEW v, NEW kind \in {"VERIFIED", "INSTALLER_LAUNCHED"},
           [type |-> kind, update |-> v] \in after
    PROVE  [type |-> kind, update |-> v] \in before
<1>1. [type |-> kind, update |-> v] # [type |-> type, update |-> u]
  <2>1. [type |-> kind, update |-> v].type # [type |-> type, update |-> u].type
    OBVIOUS
  <2> QED
    BY <2>1
<1> QED
  BY <1>1

\* The server may be told of an event, and of nothing else.
Says(type, u) == told' \in {told, told \cup {[type |-> type, update |-> u]}}

\* Telling the server of an update adds that event, or none.
LEMMA TellSays ==
    /\ \A c, type, u, next : Tell(c, type, u, next) => Says(type, u)
    /\ \A c, type, u : Fail(c, type, u) => Says(type, u)
BY DEF Tell, Fail, Says

\* Every event a step adds is true when it is told.
LEMMA EventsStep ==
    UpdateInv /\ UpdateEventsAreTrue /\ [UpdateNext]_updateVars => UpdateEventsAreTrue'
<1> SUFFICES ASSUME UpdateInv, UpdateEventsAreTrue, [UpdateNext]_updateVars PROVE UpdateEventsAreTrue'
  OBVIOUS
<1> USE DEF Asking, Downloading, Installing
\* An event of another type disturbs nothing.
<1>1. ASSUME installers \subseteq installers', launched \subseteq launched',
             \A u \in Updates, type \in {"VERIFIED", "INSTALLER_LAUNCHED"} :
                 [type |-> type, update |-> u] \in told' => [type |-> type, update |-> u] \in told
      PROVE  UpdateEventsAreTrue'
  BY <1>1 DEF UpdateEventsAreTrue
<1>2. ASSUME NEW c \in UpdateCalls, ReportVerified(c) PROVE UpdateEventsAreTrue'
  <2> DEFINE u == UpdateOf(c)
  <2>1. updCall[c].installer \in installers /\ updCall[c].installer = [update |-> u, sound |-> TRUE]
    BY <1>2 DEF ReportVerified, At, UpdateOf, UpdateInv, UpdateCallOK, Verified, Installers
  <2>2. told' \in {told, told \cup {[type |-> "VERIFIED", update |-> u]}}
        /\ UNCHANGED <<installers, launched>>
    BY <1>2 DEF ReportVerified, Tell
  <2>3. ASSUME NEW v \in Updates, [type |-> "VERIFIED", update |-> v] \in told'
        PROVE  [update |-> v, sound |-> TRUE] \in installers'
    <3>1. [type |-> "VERIFIED", update |-> v] \in told \/ u = v
      BY <2>2, <2>3
    <3> HIDE DEF u
    <3> QED BY <2>1, <2>2, <3>1 DEF UpdateEventsAreTrue
  <2>4. ASSUME NEW v \in Updates, [type |-> "INSTALLER_LAUNCHED", update |-> v] \in told'
        PROVE  [type |-> "INSTALLER_LAUNCHED", update |-> v] \in told
    <3> HIDE DEF u
    <3> QED BY <2>2, <2>4
  <2> QED
    BY <2>2, <2>3, <2>4 DEF UpdateEventsAreTrue
<1>3. ASSUME NEW c \in UpdateCalls, ReportLaunched(c) PROVE UpdateEventsAreTrue'
  <2> DEFINE u == UpdateOf(c)
  <2>1. updCall[c].pending.installer \in launched /\ updCall[c].pending.installer.update = u
    BY <1>3 DEF ReportLaunched, At, UpdateOf, UpdateInv, UpdateCallOK, Verified
  <2>2. told' \in {told, told \cup {[type |-> "INSTALLER_LAUNCHED", update |-> u]}}
        /\ UNCHANGED <<installers, launched>>
    BY <1>3 DEF ReportLaunched, Tell
  <2>3. ASSUME NEW v \in Updates, [type |-> "INSTALLER_LAUNCHED", update |-> v] \in told'
        PROVE  \E i \in launched' : i.update = v
    <3>1. [type |-> "INSTALLER_LAUNCHED", update |-> v] \in told \/ u = v
      BY <2>2, <2>3
    <3> HIDE DEF u
    <3> QED BY <2>1, <2>2, <3>1 DEF UpdateEventsAreTrue
  <2>4. ASSUME NEW v \in Updates, [type |-> "VERIFIED", update |-> v] \in told'
        PROVE  [type |-> "VERIFIED", update |-> v] \in told
    <3> HIDE DEF u
    <3> QED BY <2>2, <2>4
  <2> QED
    BY <2>2, <2>3, <2>4 DEF UpdateEventsAreTrue
<1>4. ASSUME NEW type, NEW u, Says(type, u), type \notin {"VERIFIED", "INSTALLER_LAUNCHED"},
             installers \subseteq installers', launched \subseteq launched'
      PROVE  UpdateEventsAreTrue'
  BY <1>1, <1>4, OtherEvent DEF Says
<1>5. ASSUME NEW c \in UpdateCalls,
             \/ ReportOffer(c) \/ ReportCancel(c) \/ ReportDownload(c) \/ ReportLaunch(c)
             \/ CreateTicket(c) \/ WriteUpdateFile(c) \/ Verify(c) \/ LaunchInstaller(c)
      PROVE  UpdateEventsAreTrue'
  <2>1. CASE ReportOffer(c)
    BY <1>1, <1>4, TellSays, <2>1 DEF ReportOffer
  <2>2. CASE ReportCancel(c)
    BY <1>1, <1>4, TellSays, <2>2 DEF ReportCancel
  <2>3. CASE ReportDownload(c)
    BY <1>1, <1>4, TellSays, <2>3 DEF ReportDownload
  <2>4. CASE ReportLaunch(c)
    BY <1>1, <1>4, TellSays, <2>4 DEF ReportLaunch
  <2>5. CASE CreateTicket(c)
    BY <1>1, <1>4, TellSays, <2>5 DEF CreateTicket
  <2>6. CASE WriteUpdateFile(c)
    BY <1>1, <1>4, TellSays, <2>6 DEF WriteUpdateFile
  <2>7. CASE Verify(c)
    BY <1>1, <1>4, TellSays, <2>7 DEF Verify
  <2>8. CASE LaunchInstaller(c)
    BY <1>1, <1>4, TellSays, <2>8 DEF LaunchInstaller
  <2> QED
    BY <1>5, <2>1, <2>2, <2>3, <2>4, <2>5, <2>6, <2>7, <2>8
<1>6. CASE UNCHANGED <<installers, launched, told>>
  BY <1>1, <1>6
<1> QED
  BY <1>2, <1>3, <1>4, <1>5, <1>6
     DEF UpdateNext, updateVars, BeginCheck, CheckAnswered, RegisterDevice, BeginCancel, Cancel,
         ConfirmDownload, ConfirmInstall, BeginStartupReport, ReadStartupState, ReportStartup,
         WriteStartupState, Restart

\* What the server is told of an update did happen to that update, though another one may be
\* pending by then.
THEOREM EventsAreTrue == UpdateSpec => []UpdateEventsAreTrue
<1>1. UpdateInit => UpdateEventsAreTrue
  BY DEF UpdateInit, UpdateEventsAreTrue
<1> QED
  BY <1>1, UpdateInvariant, EventsStep, PTL DEF UpdateSpec

------------------------------------------------------------------------------
(* The version last reported                                               *)

\* A report of the start has read nothing yet, or what it has read is in the file still, unless
\* another report has brought the file up to date; and one about to write has been received.
ReportInv ==
    \A c \in UpdateCalls :
        /\ At(c, "starting") => updCall[c].from = NoUpdate
        /\ updCall[c].at \in {"started", "told"} /\ updCall[c].from # NoUpdate
               => reportedVersion \in {updCall[c].from, version}
        /\ At(c, "told") /\ updCall[c].from # NoUpdate => <<updCall[c].from, version>> \in changesTold

\* Every step keeps it.
LEMMA ReportStep == UpdateInv /\ ReportInv /\ [UpdateNext]_updateVars => ReportInv'
<1> SUFFICES ASSUME UpdateInv, ReportInv, [UpdateNext]_updateVars PROVE ReportInv'
  OBVIOUS
<1> USE UpdateAssumption
<1>0. updCall \in [UpdateCalls -> UpdCalls]
  BY DEF UpdateInv
\* A step of a call that neither reads the file of the version nor reports.
<1>1. ASSUME NEW c \in UpdateCalls, NEW call, updCall' = [updCall EXCEPT ![c] = call],
             call.at \notin {"starting", "started", "told"}, UNCHANGED startupVars
      PROVE  ReportInv'
  BY <1>0, <1>1 DEF ReportInv, At, startupVars
<1>2. ASSUME NEW c \in UpdateCalls, UNCHANGED startupVars,
             \/ \E goal : goal \notin {"starting", "started", "told"} /\ Goto(c, goal)
             \/ Return(c)
             \/ \E call : call.at \notin {"starting", "started", "told"} /\ Enter(c, call)
      PROVE  ReportInv'
  <2>1. ASSUME NEW goal, goal \notin {"starting", "started", "told"}, Goto(c, goal)
        PROVE  ReportInv'
    <3>1. [updCall[c] EXCEPT !.at = goal].at = goal
      BY <1>0 DEF UpdCalls
    <3> QED
      BY <1>1, <1>2, <2>1, <3>1 DEF Goto
  <2>2. CASE Return(c)
    BY <1>1, <1>2, <2>2 DEF Return, NoCall
  <2>3. ASSUME NEW call, call.at \notin {"starting", "started", "told"}, Enter(c, call)
        PROVE  ReportInv'
    BY <1>1, <1>2, <2>3 DEF Enter
  <2> QED
    BY <1>2, <2>1, <2>2, <2>3
<1>3. ASSUME NEW c \in UpdateCalls,
             \/ BeginCheck(c) \/ CheckAnswered(c) \/ RegisterDevice(c) \/ ReportOffer(c)
             \/ BeginCancel(c) \/ Cancel(c) \/ ReportCancel(c)
             \/ ConfirmDownload(c) \/ ReportDownload(c) \/ CreateTicket(c)
             \/ WriteUpdateFile(c) \/ Verify(c) \/ ReportVerified(c)
             \/ ConfirmInstall(c) \/ ReportLaunch(c) \/ LaunchInstaller(c) \/ ReportLaunched(c)
      PROVE  ReportInv'
  <2>1. CASE BeginCheck(c) \/ BeginCancel(c)
    BY <1>2, <2>1 DEF BeginCheck, BeginCancel, NoCall
  <2>2. CASE ConfirmDownload(c) \/ ConfirmInstall(c)
    BY <1>2, <2>2 DEF ConfirmDownload, ConfirmInstall, Confirm, NoCall
  <2>3. CASE \/ ReportOffer(c) \/ ReportCancel(c) \/ ReportDownload(c)
             \/ ReportVerified(c) \/ ReportLaunch(c) \/ ReportLaunched(c)
    BY <1>2, <2>3
       DEF ReportOffer, ReportCancel, ReportDownload, ReportVerified, ReportLaunch, ReportLaunched, Tell
  <2>4. CASE RegisterDevice(c) \/ CreateTicket(c) \/ Verify(c) \/ LaunchInstaller(c)
    BY <1>2, <2>4 DEF RegisterDevice, CreateTicket, Verify, LaunchInstaller, Fail
  <2>5. CASE CheckAnswered(c)
    <3>1. ASSUME updCall' = [updCall EXCEPT ![c].at = "offered", ![c].pending = pending'] PROVE ReportInv'
      <4> DEFINE call == [updCall[c] EXCEPT !.at = "offered", !.pending = pending']
      <4>1. call.at = "offered"
        BY <1>0 DEF UpdCalls
      <4>2. updCall' = [updCall EXCEPT ![c] = call]
        BY <3>1
      <4> HIDE DEF call
      <4> QED
        BY <1>1, <2>5, <4>1, <4>2 DEF CheckAnswered
    <3> QED
      BY <1>2, <2>5, <3>1 DEF CheckAnswered
  <2>6. CASE Cancel(c)
    <3>1. ASSUME updCall' = [updCall EXCEPT ![c].at = "cancelled", ![c].pending = pending'] PROVE ReportInv'
      <4> DEFINE call == [updCall[c] EXCEPT !.at = "cancelled", !.pending = pending']
      <4>1. call.at = "cancelled"
        BY <1>0 DEF UpdCalls
      <4>2. updCall' = [updCall EXCEPT ![c] = call]
        BY <3>1
      <4> HIDE DEF call
      <4> QED
        BY <1>1, <2>6, <4>1, <4>2 DEF Cancel
    <3> QED
      BY <1>2, <2>6, <3>1 DEF Cancel
  <2>7. CASE WriteUpdateFile(c)
    <3>1. ASSUME NEW i, updCall' = [updCall EXCEPT ![c].at = "verifying", ![c].installer = i] PROVE ReportInv'
      <4> DEFINE call == [updCall[c] EXCEPT !.at = "verifying", !.installer = i]
      <4>1. call.at = "verifying"
        BY <1>0 DEF UpdCalls
      <4>2. updCall' = [updCall EXCEPT ![c] = call]
        BY <3>1
      <4> HIDE DEF call
      <4> QED
        BY <1>1, <2>7, <4>1, <4>2 DEF WriteUpdateFile
    <3> QED
      BY <1>2, <2>7, <3>1 DEF WriteUpdateFile, Fail
  <2> QED
    BY <1>3, <2>1, <2>2, <2>3, <2>4, <2>5, <2>6, <2>7
<1>4. ASSUME NEW c \in UpdateCalls, BeginStartupReport(c) PROVE ReportInv'
  BY <1>0, <1>4 DEF BeginStartupReport, Enter, NoCall, startupVars, ReportInv, At
<1>5. ASSUME NEW c \in UpdateCalls, ReadStartupState(c) PROVE ReportInv'
  <2>1. UNCHANGED startupVars /\ updCall[c].from = NoUpdate
    BY <1>5 DEF ReadStartupState, startupVars, ReportInv
  <2>2. CASE Goto(c, "told")
    BY <1>0, <2>1, <2>2 DEF Goto, startupVars, ReportInv, At, UpdCalls
  <2>3. CASE Return(c)
    BY <1>0, <2>1, <2>3 DEF Return, NoCall, startupVars, ReportInv, At
  <2>4. CASE updCall' = [updCall EXCEPT ![c].at = "started", ![c].from = reportedVersion]
    BY <1>0, <2>1, <2>4 DEF startupVars, ReportInv, At, UpdCalls
  <2> QED
    BY <1>5, <2>2, <2>3, <2>4 DEF ReadStartupState
<1>6. ASSUME NEW c \in UpdateCalls, ReportStartup(c) PROVE ReportInv'
  <2>1. CASE changesTold' = changesTold \cup {<<updCall[c].from, version>>} /\ Goto(c, "told")
    BY <1>0, <1>6, <2>1 DEF ReportStartup, Goto, ReportInv, At, UpdCalls
  <2>2. CASE changesTold' = changesTold /\ Return(c)
    BY <1>0, <1>6, <2>2 DEF ReportStartup, Return, NoCall, ReportInv, At
  <2> QED
    BY <1>6, <2>1, <2>2 DEF ReportStartup
<1>7. ASSUME NEW c \in UpdateCalls, WriteStartupState(c) PROVE ReportInv'
  BY <1>0, <1>7 DEF WriteStartupState, Return, NoCall, ReportInv, At
<1>8. CASE Restart
  BY <1>8 DEF Restart, NoCall, ReportInv, At
<1>9. CASE UNCHANGED updateVars
  BY <1>9 DEF updateVars, startupVars, ReportInv, At
<1> QED
  BY <1>3, <1>4, <1>5, <1>6, <1>7, <1>8, <1>9 DEF UpdateNext

\* The file moves from a version to the one that runs only after the server has been told.
LEMMA ChangeStep ==
    ASSUME UpdateInv, ReportInv, [UpdateNext]_updateVars,
           reportedVersion' # reportedVersion, reportedVersion # NoUpdate
    PROVE  \/ <<reportedVersion, reportedVersion'>> \in changesTold
           \/ \E c \in UpdateCalls : At(c, "told") /\ updCall[c].from = NoUpdate
<1>1. PICK c \in UpdateCalls : WriteStartupState(c)
  BY DEF UpdateNext, updateVars, startupVars, BeginCheck, CheckAnswered, RegisterDevice, ReportOffer,
         BeginCancel, Cancel, ReportCancel, ConfirmDownload, ReportDownload, CreateTicket,
         WriteUpdateFile, Verify, ReportVerified, ConfirmInstall, ReportLaunch, LaunchInstaller,
         ReportLaunched, BeginStartupReport, ReadStartupState, ReportStartup, Restart
<1>2. At(c, "told") /\ reportedVersion' = version
  BY <1>1 DEF WriteStartupState
<1> QED
  BY <1>2 DEF ReportInv, At

\* Whatever reports overlap and wherever the client ends, the version recorded as reported
\* moves from one to another only once the server knows of that change (reportStartupVersion).
THEOREM ChangeIsTold == UpdateSpec => VersionChangeIsTold
<1>1. UpdateInit => ReportInv
  BY DEF UpdateInit, ReportInv, NoCall, At
<1>2. UpdateSpec => []ReportInv
  BY <1>1, UpdateInvariant, ReportStep, PTL DEF UpdateSpec
<1>3. ASSUME UpdateInv, ReportInv, [UpdateNext]_updateVars
      PROVE  [reportedVersion' # reportedVersion /\ reportedVersion # NoUpdate
                => \/ <<reportedVersion, reportedVersion'>> \in changesTold
                   \/ \E c \in UpdateCalls : At(c, "told") /\ updCall[c].from = NoUpdate]_updateVars
  BY <1>3, ChangeStep
<1> QED
  BY <1>2, <1>3, UpdateInvariant, PTL DEF UpdateSpec, VersionChangeIsTold

------------------------------------------------------------------------------
(* The attempts to start its services                                         *)

\* The types the steps keep.
StartTypes == StartTypeOK /\ changes \in 0..MaxChanges
\* An attempt is begun in turn, and the services in use are those of one that was: nothing but
\* their success brings an attempt into use.
InTurn ==
    /\ active <= attempt
    /\ \A a \in Attempts : stage[a] # "none" => a <= attempt
    /\ active # 0 => stage[active] = "serving"
\* The inductive invariant.
StartInv == StartTypes /\ InTurn /\ ServicesInUse

\* At first no attempt has begun.
LEMMA StartInvInit == StartInit => StartInv
<1> SUFFICES ASSUME StartInit PROVE StartInv
  OBVIOUS
<1> USE StartupAssumption
<1>1. {} \in Databases /\ {0} \in Databases
  BY DEF Databases
<1>2. /\ device \in [Attempts -> 0..MaxAttempts \cup {Absent}] /\ deviceFile \in 0..MaxAttempts \cup {Absent}
      /\ copy \in [Attempts -> Databases] /\ databaseFile \in Databases \cup {Absent}
  BY <1>1 DEF StartInit
<1>2a. opened \in BOOLEAN /\ quitting \in BOOLEAN
  BY DEF StartInit
<1>3. /\ changes \in 0..MaxChanges
      /\ attempt \in 0..MaxAttempts /\ active \in 0..MaxAttempts
      /\ status = "starting" /\ timer = {} /\ beating = {} /\ sending = {}
  BY DEF StartInit
<1>3a. stage \in [Attempts -> Stages]
  BY DEF StartInit, Stages
<1>4. StartTypes
  BY <1>2, <1>2a, <1>3, <1>3a DEF StartTypes, StartTypeOK
<1>5. InTurn /\ ServicesInUse
  BY DEF StartInit, InTurn, ServicesInUse, Attempts
<1> QED
  BY <1>4, <1>5 DEF StartInv

\* Every step keeps the types.
LEMMA StartTypesStep == StartInv /\ [StartNext]_startVars => StartTypes'
<1> SUFFICES ASSUME StartInv, [StartNext]_startVars PROVE StartTypes'
  OBVIOUS
<1> USE StartupAssumption DEF StartInv, StartTypes, StartTypeOK, Attempts, startupState, startupFiles, Enters, Stages, Building
<1>1. CASE LoadWindow
  <2>0. UNCHANGED <<active, beating, sending, startupFiles>>
    BY <1>1 DEF LoadWindow
  <2>1. CASE opened' = TRUE /\ StartAttempt /\ UNCHANGED quitting
    BY <2>0, <2>1 DEF StartAttempt
  <2>2. CASE quitting' = TRUE /\ UNCHANGED <<opened, attempt, status, stage, timer>>
    BY <2>0, <2>2
  <2> QED
    BY <1>1, <2>1, <2>2 DEF LoadWindow
<1>2. CASE Retry
  BY <1>2 DEF Retry, StartAttempt
<1>3. CASE RebuildLocalDatabase
  BY <1>3 DEF RebuildLocalDatabase
<1>4. CASE ChangeRecord
  <2>1. changes' \in 0..MaxChanges /\ changes + 1 \in 0..MaxChanges
    BY <1>4 DEF ChangeRecord
  <2>2. copy' \in [Attempts -> Databases] /\ databaseFile' \in Databases \cup {Absent}
    BY <1>4, <2>1 DEF ChangeRecord, Databases
  <2> QED
    BY <1>4, <2>1, <2>2 DEF ChangeRecord
<1>5. CASE Quit
  BY <1>5 DEF Quit
<1>6. ASSUME NEW a \in Attempts, ReadDevice(a) PROVE StartTypes'
  BY <1>6 DEF ReadDevice
<1>7. ASSUME NEW a \in Attempts, CreateDevice(a) PROVE StartTypes'
  BY <1>7 DEF CreateDevice
<1>8. ASSUME NEW a \in Attempts, OpenDatabase(a) PROVE StartTypes'
  <2>1. copy' \in [Attempts -> Databases] /\ databaseFile' \in Databases \cup {Absent}
    BY <1>8 DEF OpenDatabase, Databases
  <2> QED
    BY <1>8, <2>1 DEF OpenDatabase
<1>9. ASSUME NEW a \in Attempts, Succeed(a) PROVE StartTypes'
  <2>0. stage[a] = "services" /\ UNCHANGED <<opened, attempt, sending, quitting, device, copy, deviceFile, changes>>
    BY <1>9 DEF Succeed
  <2>1. CASE a = attempt
    <3>1. /\ Activate(a) /\ timer' = timer \ {a} /\ Enters(a, "serving") /\ UNCHANGED databaseFile
      BY <1>9, <2>1 DEF Succeed
    <3> QED
      BY <2>0, <2>1, <3>1 DEF Activate
  <2>2. CASE a # attempt
    <3>1. /\ databaseFile' = copy[a] /\ Enters(a, "closed") /\ UNCHANGED <<active, status, beating, timer>>
      BY <1>9, <2>2 DEF Succeed
    <3> QED
      BY <2>0, <2>2, <3>1
  <2> QED
    BY <2>1, <2>2
<1>10. ASSUME NEW a \in Attempts, FailAttempt(a) PROVE StartTypes'
  BY <1>10 DEF FailAttempt
<1>11. ASSUME NEW a \in Attempts, Timeout(a) PROVE StartTypes'
  BY <1>11 DEF Timeout
<1>12. ASSUME NEW a \in Attempts, Beat(a) PROVE StartTypes'
  BY <1>12 DEF Beat
<1>13. ASSUME NEW a \in Attempts, BeatEnds(a) PROVE StartTypes'
  BY <1>13 DEF BeatEnds
<1>14. CASE UNCHANGED startVars
  BY <1>14 DEF startVars
<1> QED
  BY <1>1, <1>2, <1>3, <1>4, <1>5, <1>6, <1>7, <1>8, <1>9, <1>10, <1>11, <1>12, <1>13, <1>14 DEF StartNext

\* Only the newest attempt is brought into use, and only when its services are up.
LEMMA InTurnStep == StartInv /\ [StartNext]_startVars => (InTurn /\ ServicesInUse)'
<1> SUFFICES ASSUME StartInv, [StartNext]_startVars PROVE (InTurn /\ ServicesInUse)'
  OBVIOUS
<1> USE StartupAssumption DEF StartInv, StartTypes, StartTypeOK, InTurn, ServicesInUse, Attempts, startupState, Enters, Building
<1>1. CASE LoadWindow
  <2>0. UNCHANGED <<active, beating, sending, startupFiles>>
    BY <1>1 DEF LoadWindow
  <2>1. CASE opened' = TRUE /\ StartAttempt /\ UNCHANGED quitting
    BY <2>0, <2>1 DEF StartAttempt
  <2>2. CASE quitting' = TRUE /\ UNCHANGED <<opened, attempt, status, stage, timer>>
    BY <2>0, <2>2
  <2> QED
    BY <1>1, <2>1, <2>2 DEF LoadWindow
<1>2. CASE Retry
  BY <1>2 DEF Retry, StartAttempt
<1>3. CASE RebuildLocalDatabase
  BY <1>3 DEF RebuildLocalDatabase
<1>4. CASE ChangeRecord
  BY <1>4 DEF ChangeRecord
<1>5. CASE Quit
  BY <1>5 DEF Quit
<1>6. ASSUME NEW a \in Attempts, ReadDevice(a) PROVE (InTurn /\ ServicesInUse)'
  BY <1>6 DEF ReadDevice
<1>7. ASSUME NEW a \in Attempts, CreateDevice(a) PROVE (InTurn /\ ServicesInUse)'
  BY <1>7 DEF CreateDevice
<1>8. ASSUME NEW a \in Attempts, OpenDatabase(a) PROVE (InTurn /\ ServicesInUse)'
  BY <1>8 DEF OpenDatabase
<1>9. ASSUME NEW a \in Attempts, Succeed(a) PROVE (InTurn /\ ServicesInUse)'
  <2>0. stage[a] = "services" /\ UNCHANGED <<opened, attempt, sending, quitting, device, copy, deviceFile, changes>>
    BY <1>9 DEF Succeed
  <2>1. CASE a = attempt
    <3>1. /\ Activate(a) /\ timer' = timer \ {a} /\ Enters(a, "serving") /\ UNCHANGED databaseFile
      BY <1>9, <2>1 DEF Succeed
    <3> QED
      BY <2>0, <2>1, <3>1 DEF Activate
  <2>2. CASE a # attempt
    <3>1. /\ databaseFile' = copy[a] /\ Enters(a, "closed") /\ UNCHANGED <<active, status, beating, timer>>
      BY <1>9, <2>2 DEF Succeed
    <3> QED
      BY <2>0, <2>2, <3>1
  <2> QED
    BY <2>1, <2>2
<1>10. ASSUME NEW a \in Attempts, FailAttempt(a) PROVE (InTurn /\ ServicesInUse)'
  BY <1>10 DEF FailAttempt
<1>11. ASSUME NEW a \in Attempts, Timeout(a) PROVE (InTurn /\ ServicesInUse)'
  BY <1>11 DEF Timeout
<1>12. ASSUME NEW a \in Attempts, Beat(a) PROVE (InTurn /\ ServicesInUse)'
  BY <1>12 DEF Beat
<1>13. ASSUME NEW a \in Attempts, BeatEnds(a) PROVE (InTurn /\ ServicesInUse)'
  BY <1>13 DEF BeatEnds
<1>14. CASE UNCHANGED startVars
  BY <1>14 DEF startVars
<1> QED
  BY <1>1, <1>2, <1>3, <1>4, <1>5, <1>6, <1>7, <1>8, <1>9, <1>10, <1>11, <1>12, <1>13, <1>14 DEF StartNext

\* Every step keeps the invariant.
LEMMA StartInvStep == StartInv /\ [StartNext]_startVars => StartInv'
BY StartTypesStep, InTurnStep DEF StartInv

\* Type correctness of the start-up: its attempts, files and heartbeats.
THEOREM StartTypeCorrect == StartSpec => []StartTypeOK
<1>1. StartInv => StartTypeOK
  BY DEF StartInv, StartTypes
<1> QED
  BY <1>1, StartInvInit, StartInvStep, PTL DEF StartSpec

\* Of the services in use there is one set, those of an attempt that succeeded in its turn, however
\* late other attempts succeed or fail (StartupManager).
THEOREM OneSetOfServices == StartSpec => []ServicesInUse
<1>1. StartInv => ServicesInUse
  BY DEF StartInv
<1> QED
  BY <1>1, StartInvInit, StartInvStep, PTL DEF StartSpec

------------------------------------------------------------------------------
(* The session. What keeps a token out is its flag: it is set by the end of a *)
(* sign-in only, and a sign-in that has not ended yet says that somebody is   *)
(* signing in again.                                                          *)

\* The record of a call has its three fields.
Shape(call) == call \in [todo : {call.todo}, at : {call.at}, read : {call.read}]

\* A call is about to write a token, or has written it and not returned.
TakesToken(call) ==
    /\ call.todo # <<>> /\ Head(call.todo).do = "set" /\ Head(call.todo).key = "session.token"
    /\ call.at \in {"read", "written"}

SessionInv ==
    /\ DOMAIN sesCall = SessionCalls /\ sesCall = [c \in SessionCalls |-> sesCall[c]]
    /\ \A c \in SessionCalls : Shape(sesCall[c])
    /\ \A c \in SessionCalls : TakesToken(sesCall[c]) => ~signedOut
    /\ signedOut => ~sessionActive

\* A call goes on to something else: it is not at a token that it has read the file for.
LEMMA ContinueStep ==
    ASSUME SessionInv, NEW c \in SessionCalls, NEW program, Continue(c, program),
           signedOut' => signedOut \/ \A d \in SessionCalls \ {c} : ~TakesToken(sesCall[d]),
           signedOut' => ~sessionActive'
    PROVE  SessionInv'
<1> DEFINE call == [NoCallUnderWay EXCEPT !.todo = program]
<1>1. Shape(call) /\ call.at = "ready"
  BY DEF Shape, NoCallUnderWay
<1>2. sesCall' = [sesCall EXCEPT ![c] = call]
  BY DEF Continue
<1> HIDE DEF call
<1>3. \A d \in SessionCalls : sesCall'[d] = IF d = c THEN call ELSE sesCall[d]
  BY <1>2 DEF SessionInv
<1>4. DOMAIN sesCall' = SessionCalls /\ sesCall' = [d \in SessionCalls |-> sesCall'[d]]
  BY <1>2 DEF SessionInv
<1>5. ~TakesToken(call)
  BY <1>1 DEF TakesToken
<1> QED
  BY <1>1, <1>3, <1>4, <1>5 DEF SessionInv

\* A call has read a file, or written one.
LEMMA HeldStep ==
    ASSUME SessionInv, NEW c \in SessionCalls, NEW at, NEW file, Held(c, at, file),
           sesCall[c].todo # <<>>,
           First(c).do = "set" /\ First(c).key = "session.token" /\ at \in {"read", "written"}
               => ~signedOut',
           signedOut' => signedOut, sessionActive' = sessionActive
    PROVE  SessionInv'
<1> DEFINE call == [sesCall[c] EXCEPT !.at = at, !.read = file]
<1>1. Shape(call) /\ call.at = at /\ call.todo = sesCall[c].todo
  <2>1. sesCall[c] \in [todo : {sesCall[c].todo}, at : {sesCall[c].at}, read : {sesCall[c].read}]
    BY DEF Shape, SessionInv
  <2>2. call.at = at /\ call.todo = sesCall[c].todo /\ call.read = file
    BY <2>1
  <2>3. call \in [todo : {sesCall[c].todo}, at : {at}, read : {file}]
    BY <2>1
  <2> HIDE DEF call
  <2> QED
    BY <2>2, <2>3 DEF Shape
<1>2. sesCall' = [sesCall EXCEPT ![c] = call]
  BY DEF Held
<1> HIDE DEF call
<1>3. \A d \in SessionCalls : sesCall'[d] = IF d = c THEN call ELSE sesCall[d]
  BY <1>2 DEF SessionInv
<1>4. DOMAIN sesCall' = SessionCalls /\ sesCall' = [d \in SessionCalls |-> sesCall'[d]]
  BY <1>2 DEF SessionInv
<1>5. TakesToken(call) => ~signedOut'
  BY <1>1 DEF TakesToken, First
<1> QED
  BY <1>1, <1>3, <1>4, <1>5 DEF SessionInv

\* Every step keeps the invariant.
LEMMA SessionStep == SessionInv /\ [SessionNext]_sessionVars => SessionInv'
<1> SUFFICES ASSUME SessionInv, [SessionNext]_sessionVars PROVE SessionInv'
  OBVIOUS
<1>1. ASSUME NEW c \in SessionCalls, CallSession(c) PROVE SessionInv'
  BY <1>1, ContinueStep DEF CallSession, sessionFiles, SessionInv
<1>2. ASSUME NEW c \in SessionCalls, Answered(c) PROVE SessionInv'
  BY <1>2, ContinueStep DEF Answered, Go, Throw, sessionFiles, SessionInv
<1>3. ASSUME NEW c \in SessionCalls, ReadRememberedLogin(c) PROVE SessionInv'
  BY <1>3, ContinueStep DEF ReadRememberedLogin, Throw, sessionFiles, SessionInv
<1>4. ASSUME NEW c \in SessionCalls, ReadStore(c) PROVE SessionInv'
  <2>1. sesCall[c].todo # <<>> /\ UNCHANGED sessionActive
    BY <1>4 DEF ReadStore, Doing, sessionFiles
  <2>2. CASE Throw(c) /\ signedOut' = signedOut
    BY <2>1, <2>2, ContinueStep DEF Throw, SessionInv
  <2>3. CASE Held(c, "read", store)
             /\ signedOut' = (signedOut /\ ~(First(c).do = "set" /\ First(c).key = "session.token"))
    BY <2>1, <2>3, HeldStep
  <2> QED
    BY <1>4, <2>2, <2>3 DEF ReadStore
<1>5. ASSUME NEW c \in SessionCalls, WriteStore(c) PROVE SessionInv'
  <2>1. /\ sesCall[c].todo # <<>> /\ sesCall[c].at = "read"
        /\ UNCHANGED <<sessionActive, signedOut>>
    BY <1>5 DEF WriteStore, Doing
  <2>2. First(c).do = "set" /\ First(c).key = "session.token" => ~signedOut
    BY <2>1 DEF SessionInv, TakesToken, First
  <2>3. CASE Held(c, "written", Missing)
    BY <2>1, <2>2, <2>3, HeldStep
  <2>4. CASE Throw(c)
    BY <2>1, <2>4, ContinueStep DEF Throw, SessionInv
  <2> QED
    BY <1>5, <2>3, <2>4 DEF WriteStore
<1>6. ASSUME NEW c \in SessionCalls, FinishStore(c) PROVE SessionInv'
  <2>1. /\ sesCall[c].todo # <<>> /\ sesCall[c].at = "written"
        /\ First(c).do \in {"set", "delete"}
    BY <1>6 DEF FinishStore, Doing
  <2>2. CASE First(c).key = "session.token" /\ First(c).do = "set"
    <3>1. ~signedOut
      BY <2>1, <2>2 DEF SessionInv, TakesToken, First
    <3>2. ~signedOut'
      BY <1>6, <2>2, <3>1 DEF FinishStore
    <3> QED
      BY <1>6, <3>2, ContinueStep DEF FinishStore, Go
  <2>3. CASE First(c).key = "session.token" /\ First(c).do = "delete"
    <3>1. ~sessionActive'
      BY <1>6, <2>3 DEF FinishStore
    <3>2. signedOut' => signedOut
            \/ ~\E d \in SessionCalls : SigningIn(d) /\ First(d).key = "session.token"
      BY <1>6, <2>3 DEF FinishStore
    <3>3. \A d \in SessionCalls : TakesToken(sesCall[d])
            => SigningIn(d) /\ First(d).key = "session.token"
      BY DEF TakesToken, SigningIn, Doing, First
    <3> QED
      BY <1>6, <3>1, <3>2, <3>3, ContinueStep DEF FinishStore, Go
  <2>4. CASE First(c).key # "session.token"
    <3>1. sessionActive' = sessionActive /\ Go(c)
      BY <1>6, <2>4 DEF FinishStore
    <3>2. signedOut' => signedOut
      BY <1>6, <2>4 DEF FinishStore
    <3>3. signedOut' => ~sessionActive'
      BY <3>1, <3>2 DEF SessionInv
    <3> QED
      BY <3>1, <3>2, <3>3, ContinueStep DEF Go
  <2> QED
    BY <2>1, <2>2, <2>3, <2>4
<1>7. ASSUME NEW c \in SessionCalls, ClearStartupSession(c) PROVE SessionInv'
  <2>1. sesCall[c].todo # <<>> /\ First(c).do = "clear" /\ UNCHANGED <<sessionActive, signedOut>>
    BY <1>7 DEF ClearStartupSession, Doing
  <2>2. CASE Go(c)
    BY <2>1, <2>2, ContinueStep DEF Go, SessionInv
  <2>3. CASE Held(c, "read", store)
    BY <2>1, <2>3, HeldStep
  <2> QED
    BY <1>7, <2>2, <2>3 DEF ClearStartupSession
<1>8. ASSUME NEW c \in SessionCalls, SaveSettings(c) PROVE SessionInv'
  <2>1. sesCall[c].todo # <<>> /\ First(c).do = "save" /\ UNCHANGED <<sessionActive, signedOut>>
    BY <1>8 DEF SaveSettings, Doing
  <2>2. CASE Go(c)
    BY <2>1, <2>2, ContinueStep DEF Go, SessionInv
  <2>3. CASE Held(c, "read", settings)
    BY <2>1, <2>3, HeldStep
  <2> QED
    BY <1>8, <2>2, <2>3 DEF SaveSettings
<1>9. CASE RestartClient
  BY <1>9 DEF RestartClient, SessionInv, Shape, NoCallUnderWay, TakesToken
<1>10. CASE UNCHANGED sessionVars
  BY <1>10 DEF sessionVars, SessionInv
<1> QED
  BY <1>1, <1>2, <1>3, <1>4, <1>5, <1>6, <1>7, <1>8, <1>9, <1>10 DEF SessionNext

\* While a call writes a token somebody is signing in, and after a sign-out the flag of the
\* session is down.
THEOREM SessionInvariant == SessionSpec => []SessionInv
<1>1. SessionInit => SessionInv
  BY DEF SessionInit, SessionInv, Shape, NoCallUnderWay, TakesToken
<1> QED
  BY <1>1, SessionStep, PTL DEF SessionSpec

\* After a sign-out or a start no request carries a token until somebody signs in, whatever
\* changes of the file of secrets overlap (runtimeSessionActive).
THEOREM NoTokenSignedOut == SessionSpec => []SignedOutStaysOut
<1>1. SessionInv => SignedOutStaysOut
  BY DEF SessionInv, SignedOutStaysOut, Token
<1> QED
  BY <1>1, SessionInvariant, PTL

------------------------------------------------------------------------------
(* The types of the session                                                   *)

\* What a call can have to do: a file is changed at a key it has.
Items == [do : {"set", "delete", "login", "register", "logout", "change-password", "auto-login",
                "clear", "save"},
          key : SecretKeys \cup {"none", "baseURL", "theme"}, user : Users \cup {Missing}]
Keyed(item) == item \in Items /\ (item.do \in {"set", "delete"} => item.key \in SecretKeys)
Program(list) == list \in Seq({item \in Items : Keyed(item)})

\* What a call has read is the file that it is about to write.
ReadsItsFile(call) ==
    call.at = "read" =>
        /\ call.todo # <<>>
        /\ Head(call.todo).do \in {"set", "delete", "clear"} => call.read \in SecretEntries
        /\ Head(call.todo).do = "save" => call.read \in Settings
CallTyped(call) ==
    /\ call \in [todo : {call.todo}, at : {"ready", "read", "written"},
                 read : {Missing} \cup SecretEntries \cup Settings]
    /\ Program(call.todo) /\ ReadsItsFile(call)

\* The inductive invariant of the types.
SessionTypes ==
    /\ store \in SecretEntries \cup {Corrupted}
    /\ sessionActive \in BOOLEAN /\ signedOut \in BOOLEAN
    /\ settings \in Settings /\ baseURL \in Urls
    /\ sesMade \in 0..MaxSessionCalls
    /\ sesCall = [c \in SessionCalls |-> sesCall[c]]
    /\ \A c \in SessionCalls : CallTyped(sesCall[c])

\* The files, the flag and the number of calls keep their types.
SessionFilesTyped ==
    /\ store \in SecretEntries \cup {Corrupted}
    /\ sessionActive \in BOOLEAN /\ signedOut \in BOOLEAN
    /\ settings \in Settings /\ baseURL \in Urls
    /\ sesMade \in 0..MaxSessionCalls

\* A call goes on to a program.
LEMMA ContinueTyped ==
    ASSUME SessionTypes, NEW c \in SessionCalls, NEW program, Program(program), Continue(c, program),
           SessionFilesTyped'
    PROVE  SessionTypes'
<1> DEFINE call == [NoCallUnderWay EXCEPT !.todo = program]
<1>1. call = [todo |-> program, at |-> "ready", read |-> Missing]
  BY DEF NoCallUnderWay
<1>2. CallTyped(call)
  BY <1>1 DEF CallTyped, ReadsItsFile
<1>3. sesCall' = [sesCall EXCEPT ![c] = call]
  BY DEF Continue
<1> HIDE DEF call
<1>4. sesCall' = [d \in SessionCalls |-> IF d = c THEN call ELSE sesCall[d]]
  BY <1>3 DEF SessionTypes
<1> QED
  BY <1>2, <1>4 DEF SessionTypes, SessionFilesTyped

\* A call holds what it has read.
LEMMA HeldTyped ==
    ASSUME SessionTypes, NEW c \in SessionCalls, NEW at \in {"read", "written"},
           NEW file \in {Missing} \cup SecretEntries \cup Settings, Held(c, at, file),
           at = "read" =>
               /\ sesCall[c].todo # <<>>
               /\ First(c).do \in {"set", "delete", "clear"} => file \in SecretEntries
               /\ First(c).do = "save" => file \in Settings,
           SessionFilesTyped'
    PROVE  SessionTypes'
<1> DEFINE call == [sesCall[c] EXCEPT !.at = at, !.read = file]
<1>1. CallTyped(sesCall[c])
  BY DEF SessionTypes
<1>2. call.todo = sesCall[c].todo /\ call.at = at /\ call.read = file
  BY <1>1 DEF CallTyped
<1>3. call \in [todo : {sesCall[c].todo}, at : {at}, read : {file}]
  BY <1>1 DEF CallTyped
<1>4. sesCall' = [sesCall EXCEPT ![c] = call]
  BY DEF Held
<1> HIDE DEF call
<1>5. CallTyped(call)
  BY <1>1, <1>2, <1>3 DEF CallTyped, ReadsItsFile, First
<1>6. sesCall' = [d \in SessionCalls |-> IF d = c THEN call ELSE sesCall[d]]
  BY <1>4 DEF SessionTypes
<1> QED
  BY <1>5, <1>6 DEF SessionTypes, SessionFilesTyped

\* What a call does next, and what is left then.
LEMMA ProgramGoesOn ==
    ASSUME NEW program, Program(program)
    PROVE  /\ Program(<<>>)
           /\ program # <<>> => Keyed(Head(program)) /\ Program(Tail(program))
BY DEF Program

\* Each call of the renderer is a program.
LEMMA ProgramsTyped ==
    /\ \A program \in Programs : Program(program)
    /\ \A u \in Users \cup {Missing} : Program(SignIn(u, <<>>))
<1> DEFINE items == {item \in Items : Keyed(item)}
<1>1. \A k \in SecretKeys, u \in Users \cup {Missing} : Set(k, u) \in items /\ Delete(k) \in items
  BY DEF Set, Delete, Items, Keyed
<1>2. \A request \in {"login", "register", "logout", "change-password", "auto-login"}, u \in Users \cup {Missing} :
        Request(request, u) \in items
  BY DEF Request, Items, Keyed
<1>3. \A field \in {"baseURL", "theme"} : Save(field) \in items
  BY DEF Save, Items, Keyed
<1>4. [do |-> "clear", key |-> "session.token", user |-> Missing] \in items
  BY DEF Items, Keyed, SecretKeys
<1>5. {"session.token", "auth.remembered-login", "mcp.variable"} = SecretKeys
  BY DEF SecretKeys
<1> HIDE DEF items
<1>6. \A u \in Users \cup {Missing}, after \in Seq(items) : SignIn(u, after) \in Seq(items)
  <2> SUFFICES ASSUME NEW u \in Users \cup {Missing}, NEW after \in Seq(items)
               PROVE  SignIn(u, after) \in Seq(items)
    OBVIOUS
  <2>1. Request("login", u) \in items /\ Set("session.token", u) \in items /\ Request("register", u) \in items
    BY <1>1, <1>2, <1>5
  <2>2. <<Request("login", u), Set("session.token", u), Request("register", u)>> \in Seq(items)
    BY <2>1
  <2> QED
    BY <2>2 DEF SignIn
<1>7. \A u \in Users, remember \in BOOLEAN : Remember(u, remember) \in Seq(items)
  BY <1>1, <1>5 DEF Remember
<1>8. \A a \in items : <<a>> \in Seq(items)
  OBVIOUS
<1>9. \A a \in items, b \in items, d \in items : <<a, b>> \in Seq(items) /\ <<a, b, d>> \in Seq(items)
  OBVIOUS
<1>10. \A program \in Programs : program \in Seq(items)
  <2> SUFFICES ASSUME NEW program \in Programs PROVE program \in Seq(items)
    OBVIOUS
  <2>1. CASE \E u \in Users, remember \in BOOLEAN : program = SignIn(u, Remember(u, remember))
    BY <1>6, <1>7, <2>1
  <2>2. CASE \E u \in Users : program = <<Set("mcp.variable", u)>>
    BY <1>1, <1>5, <1>8, <2>2
  <2>3. CASE program \in {<<Request("auto-login", Missing)>>, <<Delete("auth.remembered-login")>>,
                          <<[do |-> "clear", key |-> "session.token", user |-> Missing]>>,
                          <<Save("baseURL")>>, <<Save("theme")>>}
    <3>1. /\ Request("auto-login", Missing) \in items /\ Delete("auth.remembered-login") \in items
          /\ Save("baseURL") \in items /\ Save("theme") \in items
      BY <1>1, <1>2, <1>3, <1>5
    <3> QED
      BY <1>4, <1>8, <2>3, <3>1
  <2>4. CASE program \in {<<Request("logout", Missing), Delete("session.token")>>,
                          <<Request("change-password", Missing), Delete("session.token"),
                            Delete("auth.remembered-login")>>}
    <3>1. /\ Request("logout", Missing) \in items /\ Request("change-password", Missing) \in items
          /\ Delete("session.token") \in items /\ Delete("auth.remembered-login") \in items
      BY <1>1, <1>2, <1>5
    <3> QED
      BY <1>9, <2>4, <3>1
  <2> QED
    BY <2>1, <2>2, <2>3, <2>4 DEF Programs
<1>11. \A u \in Users \cup {Missing} : SignIn(u, <<>>) \in Seq(items)
  <2>1. <<>> \in Seq(items)
    OBVIOUS
  <2> QED
    BY <1>6, <2>1
<1> QED
  BY <1>10, <1>11 DEF items, Program

\* Every step keeps the types.
LEMMA SessionTypesStep == SessionTypes /\ [SessionNext]_sessionVars => SessionTypes'
<1> SUFFICES ASSUME SessionTypes, [SessionNext]_sessionVars PROVE SessionTypes'
  OBVIOUS
<1> USE SessionAssumption
<1>a. SessionFilesTyped
  BY DEF SessionTypes, SessionFilesTyped
<1>b. \A c \in SessionCalls : /\ CallTyped(sesCall[c]) /\ Program(<<>>)
                              /\ sesCall[c].todo # <<>> => Keyed(First(c)) /\ Program(Tail(sesCall[c].todo))
  BY ProgramGoesOn DEF SessionTypes, CallTyped, First
<1>c. ASSUME NEW c \in SessionCalls, sesCall[c].todo # <<>>, Go(c) \/ Throw(c), SessionFilesTyped'
      PROVE  SessionTypes'
  BY <1>b, <1>c, ContinueTyped DEF Go, Throw
<1>1. ASSUME NEW c \in SessionCalls, CallSession(c) PROVE SessionTypes'
  <2>1. SessionFilesTyped'
    BY <1>a, <1>1 DEF CallSession, SessionFilesTyped, sessionFiles
  <2> QED
    BY <1>1, <2>1, ContinueTyped, ProgramsTyped DEF CallSession
<1>2. ASSUME NEW c \in SessionCalls, Answered(c) PROVE SessionTypes'
  <2>1. SessionFilesTyped'
    BY <1>a, <1>2 DEF Answered, SessionFilesTyped, sessionFiles
  <2>2. sesCall[c].todo # <<>> /\ (Go(c) \/ Throw(c))
    BY <1>2 DEF Answered, Doing
  <2> QED
    BY <1>c, <2>1, <2>2
<1>3. ASSUME NEW c \in SessionCalls, ReadRememberedLogin(c) PROVE SessionTypes'
  <2>1. SessionFilesTyped'
    BY <1>a, <1>3 DEF ReadRememberedLogin, SessionFilesTyped, sessionFiles
  <2>2. CASE Throw(c)
    BY <1>c, <1>3, <2>1, <2>2 DEF ReadRememberedLogin, Doing
  <2>3. CASE store # Corrupted /\ Continue(c, SignIn(store["auth.remembered-login"], <<>>))
    <3>1. store["auth.remembered-login"] \in Users \cup {Missing}
      BY <1>a, <2>3 DEF SessionFilesTyped, SecretEntries, SecretKeys
    <3> QED
      BY <2>1, <2>3, <3>1, ContinueTyped, ProgramsTyped
  <2> QED
    BY <1>3, <2>2, <2>3 DEF ReadRememberedLogin
<1>4. ASSUME NEW c \in SessionCalls, ReadStore(c) PROVE SessionTypes'
  <2>1. SessionFilesTyped' /\ sesCall[c].todo # <<>> /\ First(c).do \in {"set", "delete"}
    BY <1>a, <1>4 DEF ReadStore, Doing, SessionFilesTyped, sessionFiles
  <2>2. CASE Throw(c)
    BY <1>c, <2>1, <2>2
  <2>3. CASE store # Corrupted /\ Held(c, "read", store)
    BY <1>a, <2>1, <2>3, HeldTyped DEF SessionFilesTyped
  <2> QED
    BY <1>4, <2>2, <2>3 DEF ReadStore
<1>5. ASSUME NEW c \in SessionCalls, WriteStore(c) PROVE SessionTypes'
  <2>1. /\ sesCall[c].todo # <<>> /\ First(c).do \in {"set", "delete"} /\ sesCall[c].at = "read"
        /\ UNCHANGED <<sessionActive, settings, baseURL, sesMade, signedOut>>
    BY <1>5 DEF WriteStore, Doing
  <2>2. CASE Throw(c) /\ store' = store
    BY <1>a, <1>c, <2>1, <2>2 DEF SessionFilesTyped
  <2>3. CASE /\ store' = [sesCall[c].read EXCEPT ![First(c).key] = First(c).user]
             /\ Held(c, "written", Missing)
    <3>1. sesCall[c].read \in SecretEntries
      BY <1>b, <2>1 DEF CallTyped, ReadsItsFile, First
    <3>2. First(c).key \in SecretKeys /\ First(c).user \in Users \cup {Missing}
      BY <1>b, <2>1 DEF Keyed, Items
    <3>3. store' \in SecretEntries
      BY <2>3, <3>1, <3>2 DEF SecretEntries
    <3> QED
      BY <1>a, <2>1, <2>3, <3>3, HeldTyped DEF SessionFilesTyped
  <2> QED
    BY <1>5, <2>2, <2>3 DEF WriteStore
<1>6. ASSUME NEW c \in SessionCalls, FinishStore(c) PROVE SessionTypes'
  <2>1. UNCHANGED <<store, settings, baseURL, sesMade>> /\ sesCall[c].todo # <<>> /\ Go(c)
    BY <1>6 DEF FinishStore, Doing
  <2>2. sessionActive' \in BOOLEAN
    <3>1. CASE First(c).key = "session.token"
      BY <1>6, <3>1 DEF FinishStore
    <3>2. CASE First(c).key # "session.token"
      BY <1>a, <1>6, <3>2 DEF FinishStore, SessionFilesTyped
    <3> QED
      BY <3>1, <3>2
  <2>3. signedOut' \in BOOLEAN
    BY <1>6 DEF FinishStore
  <2>4. SessionFilesTyped'
    BY <1>a, <2>1, <2>2, <2>3 DEF SessionFilesTyped
  <2> QED
    BY <1>c, <2>1, <2>4
<1>7. ASSUME NEW c \in SessionCalls, ClearStartupSession(c) PROVE SessionTypes'
  <2>1. /\ sesCall[c].todo # <<>> /\ First(c).do = "clear"
        /\ UNCHANGED <<sessionActive, settings, baseURL, sesMade, signedOut>>
    BY <1>7 DEF ClearStartupSession, Doing
  <2>2. CASE store # Corrupted /\ store' = store /\ Held(c, "read", store)
    BY <1>a, <2>1, <2>2, HeldTyped DEF SessionFilesTyped
  <2>3. CASE Go(c) /\ (store' = store \/ store' = NoEntries)
    <3>1. NoEntries \in SecretEntries
      BY DEF NoEntries, SecretEntries
    <3> QED
      BY <1>a, <1>c, <2>1, <2>3, <3>1 DEF SessionFilesTyped
  <2>4. CASE /\ sesCall[c].at = "read" /\ Go(c)
             /\ store' = [sesCall[c].read EXCEPT !["session.token"] = Missing]
    <3>1. sesCall[c].read \in SecretEntries
      BY <1>b, <2>1, <2>4 DEF CallTyped, ReadsItsFile, First
    <3>2. store' \in SecretEntries
      BY <2>4, <3>1 DEF SecretEntries
    <3> QED
      BY <1>a, <1>c, <2>1, <2>4, <3>2 DEF SessionFilesTyped
  <2> QED
    BY <1>7, <2>2, <2>3, <2>4 DEF ClearStartupSession, Doing
<1>8. ASSUME NEW c \in SessionCalls, SaveSettings(c) PROVE SessionTypes'
  <2>1. /\ sesCall[c].todo # <<>> /\ First(c).do = "save"
        /\ UNCHANGED <<store, sessionActive, sesMade, signedOut>>
    BY <1>8 DEF SaveSettings, Doing
  <2>2. CASE Held(c, "read", settings) /\ UNCHANGED <<settings, baseURL>>
    BY <1>a, <2>1, <2>2, HeldTyped DEF SessionFilesTyped
  <2>3. CASE Go(c) /\ settings' \in Settings /\ baseURL' = settings'.baseURL
    <3>1. baseURL' \in Urls
      BY <2>3 DEF Settings
    <3> QED
      BY <1>a, <1>c, <2>1, <2>3, <3>1 DEF SessionFilesTyped
  <2> QED
    BY <1>8, <2>2, <2>3 DEF SaveSettings
<1>9. CASE RestartClient
  <2>1. CallTyped(NoCallUnderWay)
    BY ProgramGoesOn DEF CallTyped, NoCallUnderWay, ReadsItsFile, Program
  <2>2. settings.baseURL \in Urls
    BY DEF SessionTypes, Settings
  <2>3. sesCall' = [c \in SessionCalls |-> NoCallUnderWay]
    BY <1>9 DEF RestartClient
  <2>4. \A c \in SessionCalls : sesCall'[c] = NoCallUnderWay
    BY <2>3
  <2>5. SessionFilesTyped'
    BY <1>a, <1>9, <2>2 DEF RestartClient, SessionFilesTyped
  <2> QED
    BY <2>1, <2>3, <2>4, <2>5 DEF SessionTypes, SessionFilesTyped
<1>10. CASE UNCHANGED sessionVars
  BY <1>10 DEF sessionVars, SessionTypes
<1> QED
  BY <1>1, <1>2, <1>3, <1>4, <1>5, <1>6, <1>7, <1>8, <1>9, <1>10 DEF SessionNext

\* At first nothing is under way.
LEMMA SessionTypesInit == SessionInit => SessionTypes
<1> SUFFICES ASSUME SessionInit PROVE SessionTypes
  OBVIOUS
<1>1. CallTyped(NoCallUnderWay)
  BY DEF CallTyped, NoCallUnderWay, ReadsItsFile, Program
<1>2. \A c \in SessionCalls : sesCall[c] = NoCallUnderWay
  BY DEF SessionInit
<1>3. store \in SecretEntries \cup {Corrupted}
  BY DEF SessionInit, NoEntries, SecretEntries, SecretKeys
<1>4. settings \in Settings /\ baseURL \in Urls
  BY DEF SessionInit, Settings, Urls
<1>5. sesCall = [c \in SessionCalls |-> sesCall[c]]
  BY DEF SessionInit
<1>6. sesMade = 0 /\ sesMade \in 0..MaxSessionCalls
  BY SessionAssumption DEF SessionInit
<1>7. sessionActive = FALSE /\ signedOut = TRUE
  BY DEF SessionInit
<1> QED
  BY <1>1, <1>2, <1>3, <1>4, <1>5, <1>6, <1>7 DEF SessionTypes

\* The types carry the type invariant.
LEMMA SessionTyped == SessionTypes => SessionTypeOK
BY DEF SessionTypes, CallTyped, SessionTypeOK

------------------------------------------------------------------------------
(* Operations on extensions                                                    *)

\* The operations of the main process.
OpNames == {"none", "skill.install", "mcp.configure", "mcp.connection-test", "cleanup"} \cup PluginOps
\* A call of one of them.
OpRecords == [op : OpNames, ext : Hub \cup {NoPackage}, version : PackageVersions \cup {NoPackage},
              dry : BOOLEAN, at : OpStages, tested : {"none", "reachable", "unreachable"}]
\* A row of the local database.
OpRows == [status : {"none", "enabled", "connected", "connection_test_failed", "installed", "configured", "updated",
                   "downloaded", "disabled", "uninstalled", "manual_uninstalled", "cleaned"},
         version : PackageVersions \cup {NoPackage},
         auth : {"none", "AUTHORIZED", "SECURITY_DELISTED"}, drift : {"none", "DRIFTED"}]

\* The policy has let the call through: it is past the question, and is not one it lets through always.
Judged(op, at) ==
    /\ op \notin {"none", "cleanup", "mcp.connection-test"}
    /\ at \notin {"ready", "blocked"}
    /\ at = "definition" => op = "mcp.configure"

\* What a call does next is what a plan of it has already put in place.
Settled(op, at) ==
    \/ at = "record" /\ op # "cleanup"
    \/ at = "undo"
    \/ at = "test" /\ op # "mcp.connection-test"

\* What a call has behind it where it stands.
OpCallOK(k, done, clear) ==
    /\ k.op = "none" => k = NoOp
    /\ k.op # "none" => k.ext \in Hub /\ k.version \in PackageVersions
    /\ k.op = "mcp.configure" => k.ext \in Servers
    /\ k.op = "mcp.connection-test" \/ k.at \in {"record", "undo", "test"} => ~k.dry
    /\ Settled(k.op, k.at) => <<k.ext, k.version>> \in done
    /\ Judged(k.op, k.at) => clear \/ k.op \in CleanupOps

\* Every call has that behind it.
OpCallsOK == 
    /\ opCall \in [OpCalls -> OpRecords]
    /\ \A c \in OpCalls : OpCallOK(opCall[c], applied, c \in cleared)
\* The types of what the calls work on.
MachineOK ==
    /\ row \in [Hub -> OpRows]
    /\ entry \in [Hub -> PackageVersions \cup {NoPackage}]
    /\ central \in [Skills -> PackageVersions \cup {NoPackage}]
    /\ secrets \subseteq Servers
    /\ opMade \in 0..MaxOpCalls
\* The inductive invariant.
OpInv == OpCallsOK /\ MachineOK /\ RecordFollowsPlan

\* What the policy lets through is not held back, unless it takes something away.
LEMMA AllowedNotHeld ==
    ASSUME MachineOK, NEW e \in Hub, NEW op \in {"skill.install", "mcp.configure"} \cup PluginOps,
           op \notin CleanupOps, PolicyAllows(e, op, "none")
    PROVE  ~HeldBack(row[e])
<1> DEFINE r == ResourceOf(e)
<1>1. Definition(op).hash /\ ~Definition(op).shrink
  BY DEF Definition, PluginOps, StaticOps, CleanupOps, ConfigCleanups, OfflineWrites, Probes,
         ConfigWrites, ExecutableWrites, ExecutableDisables, MetadataWrites, Write
<1>2. Blocks(op, r) = {}
  BY DEF PolicyAllows, Decision
<1>3. r.type \in ServerTypes /\ r.auth = row[e].auth /\ r.drift = row[e].drift
  BY DEF ResourceOf, TypeOf, ServerTypes
<1> HIDE DEF r
<1>4. ShouldBlockForAuth(op, r)
  BY <1>1, <1>3 DEF ShouldBlockForAuth
<1>5. row[e].auth \notin ShrinkAuth
  <2>1. "security-delisted" \notin Blocks(op, r) /\ "authorization-shrink" \notin Blocks(op, r)
    BY <1>2
  <2>2. r.auth \notin ShrinkAuth
    BY <1>4, <2>1 DEF Blocks
  <2> QED
    BY <1>3, <2>2
<1>6. row[e].drift \notin BlockingDrift
  <2>1. "hash-or-drift" \notin Blocks(op, r)
    BY <1>2
  <2>2. ~HashOrDrift(r)
    BY <1>1, <2>1 DEF Blocks
  <2> QED
    BY <1>3, <2>2 DEF HashOrDrift
<1> QED
  BY <1>5, <1>6 DEF HeldBack

\* What a step does to the calls that are clear.
CallsClear == cleared' = {c \in OpCalls : /\ opCall'[c] # NoOp
                                          /\ c \in cleared \/ ~HeldBack(row'[opCall'[c].ext])}

\* A call goes where it has what it needs, and the others keep what they have.
LEMMA OpCallStep ==
    ASSUME OpCallsOK, CallsClear, applied \subseteq applied', NEW c \in OpCalls, NEW k \in OpRecords,
           opCall' = [opCall EXCEPT ![c] = k],
           OpCallOK(k, applied', c \in cleared \/ ~HeldBack(row'[k.ext]))
    PROVE  OpCallsOK'
<1>1. opCall' \in [OpCalls -> OpRecords] /\ opCall'[c] = k /\ \A d \in OpCalls \ {c} : opCall'[d] = opCall[d]
  BY DEF OpCallsOK
<1>2. OpCallOK(opCall'[c], applied', c \in cleared')
  <2>1. k # NoOp => (c \in cleared' <=> c \in cleared \/ ~HeldBack(row'[k.ext]))
    BY <1>1 DEF CallsClear
  <2>2. k = NoOp => ~Judged(k.op, k.at)
    BY DEF NoOp, Judged
  <2> QED
    BY <1>1, <2>1, <2>2 DEF OpCallOK
<1>3. ASSUME NEW d \in OpCalls \ {c} PROVE OpCallOK(opCall'[d], applied', d \in cleared')
  <2>1. OpCallOK(opCall[d], applied, d \in cleared) /\ opCall'[d] = opCall[d]
    BY <1>1, <1>3 DEF OpCallsOK
  <2>2. opCall[d] # NoOp /\ d \in cleared => d \in cleared'
    BY <2>1 DEF CallsClear
  <2>3. opCall[d] = NoOp => ~Judged(opCall[d].op, opCall[d].at)
    BY DEF NoOp, Judged
  <2> QED
    BY <2>1, <2>2, <2>3 DEF OpCallOK
<1> QED
  BY <1>1, <1>2, <1>3 DEF OpCallsOK

\* No operation needs anything.
LEMMA IdleOp == NoOp \in OpRecords /\ \A done, clear : OpCallOK(NoOp, done, clear)
BY DEF NoOp, OpRecords, OpNames, OpStages, OpCallOK, Settled, Judged

\* An operation that ends needs nothing.
LEMMA OpEndStep ==
    ASSUME OpCallsOK, CallsClear, applied \subseteq applied', NEW c \in OpCalls, OpEnd(c)
    PROVE  OpCallsOK'
BY OpCallStep, IdleOp DEF OpEnd

\* An operation goes to its next stage.
LEMMA OpGotoStep ==
    ASSUME OpCallsOK, CallsClear, applied \subseteq applied', NEW c \in OpCalls, NEW goal \in OpStages,
           OpGoto(c, goal), opCall[c].op # "none",
           goal \in {"record", "undo", "test"} => ~opCall[c].dry,
           Settled(opCall[c].op, goal) => <<opCall[c].ext, opCall[c].version>> \in applied',
           Judged(opCall[c].op, goal) => \/ Judged(opCall[c].op, opCall[c].at)
                                         \/ ~HeldBack(row'[opCall[c].ext])
                                         \/ opCall[c].op \in CleanupOps
    PROVE  OpCallsOK'
<1>1. opCall[c] \in OpRecords /\ OpCallOK(opCall[c], applied, c \in cleared)
  BY DEF OpCallsOK
<1> DEFINE k == [opCall[c] EXCEPT !.at = goal]
<1>2. /\ k \in OpRecords /\ k.at = goal /\ k.op = opCall[c].op /\ k.ext = opCall[c].ext
      /\ k.version = opCall[c].version /\ k.dry = opCall[c].dry
  BY <1>1 DEF OpRecords
<1>3. opCall' = [opCall EXCEPT ![c] = k]
  BY DEF OpGoto
<1> HIDE DEF k
<1>4. OpCallOK(k, applied', c \in cleared \/ ~HeldBack(row'[k.ext]))
  BY <1>1, <1>2 DEF OpCallOK
<1> QED
  BY <1>2, <1>3, <1>4, OpCallStep

\* An operation begins, asking the policy first, or with what needs no answer.
LEMMA OpBeginStep ==
    ASSUME OpCallsOK, CallsClear, applied \subseteq applied', NEW c \in OpCalls,
           NEW op \in OpNames \ {"none"}, NEW e \in Hub, NEW dry \in BOOLEAN, NEW goal \in OpStages,
           OpBegin(c, op, e, dry, goal), goal \notin {"record", "undo", "test"},
           op = "mcp.connection-test" => ~dry, op = "mcp.configure" => e \in Servers,
           Judged(op, goal) => ~HeldBack(row'[e]) \/ op \in CleanupOps
    PROVE  OpCallsOK'
<1>1. PICK v \in PackageVersions :
         opCall' = [opCall EXCEPT ![c] = [NoOp EXCEPT !.op = op, !.ext = e, !.version = v,
                                                      !.dry = dry, !.at = goal]]
  BY DEF OpBegin
<1> DEFINE k == [NoOp EXCEPT !.op = op, !.ext = e, !.version = v, !.dry = dry, !.at = goal]
<1>2. /\ k \in OpRecords /\ k.at = goal /\ k.op = op /\ k.ext = e /\ k.version = v /\ k.dry = dry
  BY DEF OpRecords, NoOp
<1>3. opCall' = [opCall EXCEPT ![c] = k]
  BY <1>1
<1> HIDE DEF k
<1>4. OpCallOK(k, applied', c \in cleared \/ ~HeldBack(row'[k.ext]))
  BY <1>2 DEF OpCallOK, Settled
<1> QED
  BY <1>2, <1>3, <1>4, OpCallStep

\* What BlockedStaysOff says of a step.
StaysOff ==
    \A c \in OpCalls : opCall'[c] # opCall[c] =>
        /\ LET e == opCall[c].ext
           IN  opCall[c] # NoOp /\ entry'[e] # entry[e] /\ entry'[e] # NoPackage
                  => c \in cleared \/ opCall[c].op \in CleanupOps
        /\ opCall[c].dry => UNCHANGED <<machine, row>>
\* What every step does: it keeps the invariant, and what is held back off.
OpKept == OpInv' /\ StaysOff

\* A step that changes nothing on the machine keeps what is held back off.
LEMMA OpStillStep ==
    ASSUME OpInv, OpCallsOK', UNCHANGED <<row, machine>>, applied \subseteq applied', opMade' \in 0..MaxOpCalls
    PROVE  OpKept
<1>1. MachineOK'
  BY DEF OpInv, MachineOK, machine
<1>2. RecordFollowsPlan'
  BY DEF OpInv, RecordFollowsPlan
<1>3. StaysOff
  BY DEF StaysOff, machine
<1> QED
  BY <1>1, <1>2, <1>3 DEF OpKept, OpInv

\* A step that a call begins, ends or waits with.
LEMMA OpAskStep ==
    ASSUME OpInv, CallsClear, NEW c \in OpCalls, opCall[c].op # "none", NEW goal \in OpStages, Ask(c, goal),
           goal \notin {"record", "undo", "test"},
           Judged(opCall[c].op, goal) => Judged(opCall[c].op, opCall[c].at),
           UNCHANGED <<row, machine, opMade, applied>>
    PROVE  OpKept
<1>1. OpCallsOK'
  BY OpEndStep, OpGotoStep DEF OpInv, Ask, Settled
<1> QED
  BY <1>1, OpStillStep DEF OpInv, MachineOK

\* Who stands at a stage of an operation is at that operation.
LEMMA Underway ==
    ASSUME OpCallsOK, NEW c \in OpCalls, opCall[c].at # "ready" 
    PROVE  opCall[c].op # "none"
<1>1. NoOp.at = "ready"
  BY DEF NoOp
<1> QED
  BY <1>1 DEF OpCallsOK, OpCallOK

\* The stages that only wait for a server, or for a download.
LEMMA WaitingSteps ==
    ASSUME OpInv, CallsClear, NEW c \in OpCalls,
           \/ ReportBlocked(c) \/ ExtensionDetail(c) \/ DownloadTicket(c) \/ DownloadToTemp(c)
           \/ VerifyDownload(c) \/ McpDefinition(c)
    PROVE  OpKept
<1>1. CASE ReportBlocked(c)
  BY <1>1, OpEndStep, OpStillStep DEF ReportBlocked, OpInv, MachineOK
<1>2. CASE ~ReportBlocked(c)
  <2>1. opCall[c].op # "none" /\ UNCHANGED <<row, machine, opMade, applied>>
    BY <1>2, Underway DEF OpInv, ExtensionDetail, DownloadTicket, DownloadToTemp, VerifyDownload, McpDefinition, OpAt
  <2>2. PICK goal \in {"install", "ticket", "fetch", "verify", "apply", "variables"} : Ask(c, goal)
    BY <1>2 DEF ExtensionDetail, DownloadTicket, DownloadToTemp, VerifyDownload, McpDefinition
  <2>3. Judged(opCall[c].op, goal) => Judged(opCall[c].op, opCall[c].at)
    BY <1>2 DEF Judged, ExtensionDetail, DownloadTicket, DownloadToTemp, VerifyDownload, McpDefinition, OpAt
  <2>4. goal \in OpStages
    BY DEF OpStages
  <2> QED
    BY <2>1, <2>2, <2>3, <2>4, OpAskStep
<1> QED
  BY <1>1, <1>2

\* Operations begin.
LEMMA BeginSteps ==
    ASSUME OpInv, CallsClear, NEW c \in OpCalls,
           \/ ExtensionInstall(c) \/ McpConfigure(c) \/ PluginPrepare(c) \/ LocalCleanup(c)
           \/ \E e \in Servers : /\ OpBegin(c, "mcp.connection-test", e, FALSE, "definition")
                                 /\ UNCHANGED <<row, machine, applied>>
    PROVE  OpKept
<1>1. UNCHANGED <<row, machine, applied>>
  BY DEF ExtensionInstall, McpConfigure, PluginPrepare, LocalCleanup
<1>2. opMade' \in 0..MaxOpCalls
  <2>1. opMade < MaxOpCalls /\ opMade' = opMade + 1
    BY DEF ExtensionInstall, McpConfigure, PluginPrepare, LocalCleanup, OpBegin
  <2> QED
    BY <2>1, OperationAssumption DEF OpInv, MachineOK
<1>3. PICK op \in OpNames \ {"none"}, e \in Hub, dry \in BOOLEAN, goal \in {"detail", "blocked", "definition", "remove"} :
         /\ OpBegin(c, op, e, dry, goal) /\ (op = "mcp.connection-test" => ~dry) /\ (op = "mcp.configure" => e \in Servers)
         /\ Judged(op, goal) => op \in {"skill.install", "mcp.configure"} /\ PolicyAllows(e, op, "none")
  <2>1. CASE ExtensionInstall(c)
    BY <2>1 DEF ExtensionInstall, OpNames, Hub, Judged
  <2>2. CASE McpConfigure(c)
    BY <2>2 DEF McpConfigure, OpNames, Hub, Judged
  <2>3. CASE PluginPrepare(c)
    BY <2>3 DEF PluginPrepare, PluginOps, OpNames, Hub, Judged
  <2>4. CASE LocalCleanup(c)
    BY <2>4 DEF LocalCleanup, OpNames, Judged
  <2>5. CASE \E e \in Servers : OpBegin(c, "mcp.connection-test", e, FALSE, "definition")
    BY <2>5 DEF OpNames, Hub, Judged
  <2> QED
    BY <2>1, <2>2, <2>3, <2>4, <2>5
<1>4. Judged(op, goal) => ~HeldBack(row'[e]) \/ op \in CleanupOps
  BY <1>1, <1>3, AllowedNotHeld DEF OpInv
<1>5. goal \in OpStages /\ goal \notin {"record", "undo", "test"}
  BY DEF OpStages
<1>6. OpCallsOK'
  BY <1>1, <1>3, <1>4, <1>5, OpBeginStep DEF OpInv
<1> QED
  BY <1>1, <1>2, <1>6, OpStillStep

\* The steps that change the machine or the record; each goes on, or ends its call.
LEMMA OpChangeStep ==
    ASSUME OpInv, CallsClear, NEW c \in OpCalls, opCall[c].op # "none", applied \subseteq applied', UNCHANGED opMade,
           NEW goal \in {"enable", "write", "test", "undo", "record"},
           OpGoto(c, goal) \/ opCall' = [opCall EXCEPT ![c].at = goal, ![c].tested = "reachable"]
             \/ opCall' = [opCall EXCEPT ![c].at = goal, ![c].tested = "unreachable"] \/ OpEnd(c),
           ~OpEnd(c) => /\ goal \in {"record", "undo", "test"} => ~opCall[c].dry
                        /\ Settled(opCall[c].op, goal) => <<opCall[c].ext, opCall[c].version>> \in applied'
                        /\ Judged(opCall[c].op, opCall[c].at) \/ opCall[c].op \in {"cleanup", "mcp.connection-test"}
    PROVE  OpCallsOK' /\ \A d \in OpCalls \ {c} : opCall'[d] = opCall[d]
<1>1. CASE OpEnd(c)
  BY <1>1, OpEndStep DEF OpInv, OpEnd, OpCallsOK
<1>2. CASE ~OpEnd(c)
  <2>1. opCall[c] \in OpRecords /\ OpCallOK(opCall[c], applied, c \in cleared)
    BY DEF OpInv, OpCallsOK
  <2>2. PICK k : k \in {[opCall[c] EXCEPT !.at = goal], [opCall[c] EXCEPT !.at = goal, !.tested = "reachable"],
                        [opCall[c] EXCEPT !.at = goal, !.tested = "unreachable"]}
                 /\ opCall' = [opCall EXCEPT ![c] = k]
    BY <1>2 DEF OpGoto
  <2>3. /\ k \in OpRecords /\ k.at = goal /\ k.op = opCall[c].op /\ k.ext = opCall[c].ext
        /\ k.version = opCall[c].version /\ k.dry = opCall[c].dry
    BY <2>1, <2>2 DEF OpRecords, OpStages
  <2>4. OpCallOK(k, applied', c \in cleared \/ ~HeldBack(row'[k.ext]))
    BY <1>2, <2>1, <2>3 DEF OpCallOK, Judged
  <2> QED
    BY <2>2, <2>3, <2>4, OpCallStep DEF OpInv, OpCallsOK
<1> QED
  BY <1>1, <1>2

\* One call has moved, and done nothing that it should not.
LEMMA OneOp ==
    ASSUME NEW c \in OpCalls, \A d \in OpCalls \ {c} : opCall'[d] = opCall[d],
           LET e == opCall[c].ext IN
             opCall[c] # NoOp /\ entry'[e] # entry[e] /\ entry'[e] # NoPackage
                => c \in cleared \/ opCall[c].op \in CleanupOps,
           opCall[c].dry => UNCHANGED <<machine, row>>
    PROVE  StaysOff
BY DEF StaysOff

\* A skill is put in its central store and enabled.
LEMMA InstallSteps ==
    ASSUME OpInv, CallsClear, NEW c \in OpCalls, InstallSkill(c) \/ EnableSkill(c)
    PROVE  OpKept
<1>1. opCall[c] \in OpRecords /\ OpCallOK(opCall[c], applied, c \in cleared) /\ opCall[c].op = "skill.install"
  BY DEF OpInv, OpCallsOK, InstallSkill, EnableSkill, OpAt
<1>2. Judged("skill.install", "install") /\ Judged("skill.install", "enable") /\ ~Settled("skill.install", "enable")
  BY DEF Judged, Settled
<1>3. CASE InstallSkill(c)
  <2>1. OpCallsOK' /\ \A d \in OpCalls \ {c} : opCall'[d] = opCall[d]
    BY <1>1, <1>2, <1>3, OpChangeStep DEF InstallSkill, OpAt
  <2>2. MachineOK'
    BY <1>1, <1>3 DEF InstallSkill, OpInv, MachineOK, OpRecords, OpCallOK
  <2>3. RecordFollowsPlan'
    BY <1>3 DEF InstallSkill, OpInv, RecordFollowsPlan
  <2>4. StaysOff
    BY <2>1, <1>3, OneOp DEF InstallSkill, machine
  <2> QED
    BY <2>1, <2>2, <2>3, <2>4 DEF OpKept, OpInv
<1>4. CASE EnableSkill(c)
  <2>1. OpCallsOK' /\ \A d \in OpCalls \ {c} : opCall'[d] = opCall[d]
    BY <1>1, <1>2, <1>4, OpChangeStep DEF EnableSkill, OpAt
  <2>2. MachineOK'
    BY <1>1, <1>4 DEF EnableSkill, OpInv, MachineOK, OpRecords, OpCallOK
  <2>3. RecordFollowsPlan'
    BY <1>4 DEF EnableSkill, OpInv, RecordFollowsPlan
  <2>4. StaysOff
    BY <1>1, <1>2, <2>1, <1>4, OneOp DEF EnableSkill, OpAt, machine, OpCallOK
  <2> QED
    BY <2>1, <2>2, <2>3, <2>4 DEF OpKept, OpInv
<1> QED
  BY <1>3, <1>4

\* What a plan has put in place is recorded.
LEMMA RecordSteps ==
    ASSUME OpInv, CallsClear, NEW c \in OpCalls, RecordSkill(c) \/ RecordMcp(c) \/ RecordPlugin(c)
    PROVE  OpKept
<1>1. /\ opCall[c].at = "record" /\ opCall[c].op \in {"skill.install", "mcp.configure"} \cup PluginOps
      /\ OpEnd(c) /\ UNCHANGED <<machine, opMade, applied>>
  BY DEF RecordSkill, RecordMcp, RecordPlugin, OpAt
<1> DEFINE k == opCall[c]
<1>2. PICK label \in {"enabled", "connection_test_failed", "connected", "disabled", "updated", "uninstalled",
                      "manual_uninstalled", "downloaded", "installed", "configured"} :
          row' = [row EXCEPT ![k.ext] = RecordOf(label, k.version)]
  BY DEF RecordSkill, RecordMcp, RecordPlugin, PluginStatus
<1>3. k.ext \in Hub /\ k.version \in PackageVersions /\ <<k.ext, k.version>> \in applied /\ ~k.dry
  BY <1>1 DEF OpInv, OpCallsOK, OpCallOK, PluginOps, Settled
<1> HIDE DEF k
<1>4. OpCallsOK' /\ \A d \in OpCalls \ {c} : opCall'[d] = opCall[d]
  BY <1>1, OpEndStep DEF OpInv, OpEnd, OpCallsOK
<1>5. MachineOK'
  BY <1>1, <1>2, <1>3 DEF OpInv, MachineOK, machine, OpRows, RecordOf
<1>6. RecordFollowsPlan'
  BY <1>1, <1>2, <1>3 DEF OpInv, MachineOK, RecordFollowsPlan, RecordOf
<1>7. StaysOff
  BY <1>1, <1>3, <1>4, OneOp DEF machine, k
<1> QED
  BY <1>4, <1>5, <1>6, <1>7 DEF OpKept, OpInv

\* A cleanup takes an entry away and marks the row.
LEMMA CleanupSteps ==
    ASSUME OpInv, CallsClear, NEW c \in OpCalls, CleanupTarget(c) \/ RecordCleanup(c)
    PROVE  OpKept
<1>1. opCall[c] \in OpRecords /\ OpCallOK(opCall[c], applied, c \in cleared) /\ opCall[c].op = "cleanup"
  BY DEF OpInv, OpCallsOK, CleanupTarget, RecordCleanup, OpAt
<1>2. ~Settled("cleanup", "record") 
  BY DEF Settled
<1>3. CASE CleanupTarget(c)
  <2>1. OpCallsOK' /\ \A d \in OpCalls \ {c} : opCall'[d] = opCall[d]
    BY <1>1, <1>2, <1>3, OpChangeStep DEF CleanupTarget, OpAt
  <2>2. MachineOK'
    BY <1>1, <1>3 DEF CleanupTarget, OpInv, MachineOK
  <2>3. RecordFollowsPlan'
    BY <1>3 DEF CleanupTarget, OpInv, RecordFollowsPlan
  <2>4. StaysOff
    <3>1. entry' # entry => ~opCall[c].dry /\ entry' = [entry EXCEPT ![opCall[c].ext] = NoPackage]
      BY <1>3 DEF CleanupTarget
    <3>2. entry'[opCall[c].ext] # entry[opCall[c].ext] => entry'[opCall[c].ext] = NoPackage
      BY <3>1, <1>1 DEF OpInv, MachineOK, OpCallOK
    <3> QED
      BY <2>1, <3>1, <3>2, <1>3, OneOp DEF CleanupTarget, machine
  <2> QED
    BY <2>1, <2>2, <2>3, <2>4 DEF OpKept, OpInv
<1>4. CASE RecordCleanup(c)
  <2>1. OpCallsOK' /\ \A d \in OpCalls \ {c} : opCall'[d] = opCall[d]
    BY <1>4, OpEndStep DEF RecordCleanup, OpInv, OpEnd, OpCallsOK
  <2>2. row[opCall[c].ext] \in OpRows /\ opCall[c].ext \in Hub
    BY <1>1 DEF OpCallOK, OpInv, MachineOK
  <2>3. PICK r \in OpRows : row' = [row EXCEPT ![opCall[c].ext] = r] /\ r.status \in {"none", "cleaned"}
    <3>1. [row[opCall[c].ext] EXCEPT !.status = "cleaned"] \in OpRows
      BY <2>2 DEF OpRows
    <3>2. NoRow \in OpRows
      BY DEF NoRow, OpRows
    <3> QED
      BY <1>4, <2>2, <3>1, <3>2 DEF RecordCleanup, MarkRowCleaned, NoRow, OpRows
  <2>4. MachineOK'
    BY <1>4, <2>2, <2>3 DEF RecordCleanup, machine, OpInv, MachineOK
  <2>5. RecordFollowsPlan'
    BY <1>4, <2>2, <2>3 DEF RecordCleanup, OpInv, MachineOK, RecordFollowsPlan
  <2>6. StaysOff
    <3>1. ~opCall[c].dry /\ entry' = entry
      BY <1>1, <1>4 DEF RecordCleanup, OpAt, OpCallOK, machine
    <3> QED
      BY <2>1, <3>1, OneOp
  <2> QED
    BY <2>1, <2>4, <2>5, <2>6 DEF OpKept, OpInv
<1> QED
  BY <1>3, <1>4

\* A server is configured; a configuration that does not connect is undone.
LEMMA ConfigSteps ==
    ASSUME OpInv, CallsClear, NEW c \in OpCalls, RenderVariables(c) \/ WriteConfig(c) \/ UndoConfig(c)
    PROVE  OpKept
<1>1. opCall[c] \in OpRecords /\ OpCallOK(opCall[c], applied, c \in cleared) /\ opCall[c].op = "mcp.configure"
  BY DEF OpInv, OpCallsOK, RenderVariables, WriteConfig, UndoConfig, OpAt
<1>2. /\ opCall[c].ext \in Hub /\ opCall[c].version \in PackageVersions
      /\ \A at \in {"variables", "write", "undo"} : Judged("mcp.configure", at)
      /\ ~Settled("mcp.configure", "write")
  BY <1>1 DEF Judged, Settled, OpCallOK
<1>2a. opCall[c].ext \in Servers
  BY <1>1 DEF OpCallOK
<1>3. CASE RenderVariables(c)
  <2>1. OpCallsOK' /\ \A d \in OpCalls \ {c} : opCall'[d] = opCall[d]
    BY <1>1, <1>2, <1>3, OpChangeStep DEF RenderVariables, OpAt
  <2>2. MachineOK'
    BY <1>2a, <1>3 DEF RenderVariables, OpInv, MachineOK
  <2>3. RecordFollowsPlan'
    BY <1>3 DEF RenderVariables, OpInv, RecordFollowsPlan
  <2>4. StaysOff
    BY <2>1, <1>3, OneOp DEF RenderVariables, machine
  <2> QED
    BY <2>1, <2>2, <2>3, <2>4 DEF OpKept, OpInv
<1>4. CASE WriteConfig(c)
  <2>1. OpCallsOK' /\ \A d \in OpCalls \ {c} : opCall'[d] = opCall[d]
    BY <1>1, <1>2, <1>4, OpChangeStep DEF WriteConfig, OpAt
  <2>2. MachineOK'
    BY <1>2, <1>4 DEF WriteConfig, OpInv, MachineOK
  <2>3. RecordFollowsPlan'
    BY <1>4 DEF WriteConfig, OpInv, RecordFollowsPlan
  <2>4. StaysOff
    BY <1>1, <1>2, <2>1, <1>4, OneOp DEF WriteConfig, OpAt, machine, OpCallOK
  <2> QED
    BY <2>1, <2>2, <2>3, <2>4 DEF OpKept, OpInv
<1>5. CASE UndoConfig(c)
  <2>1. OpCallsOK' /\ \A d \in OpCalls \ {c} : opCall'[d] = opCall[d]
    BY <1>1, <1>2, <1>5, OpChangeStep DEF UndoConfig, OpAt, OpCallOK, Settled
  <2>2. MachineOK'
    BY <1>2, <1>5 DEF UndoConfig, OpInv, MachineOK
  <2>3. RecordFollowsPlan'
    BY <1>5 DEF UndoConfig, OpInv, RecordFollowsPlan
  <2>4. StaysOff
    <3>1. ~opCall[c].dry
      BY <1>1, <1>5 DEF OpCallOK, UndoConfig, OpAt
    <3>2. entry'[opCall[c].ext] # entry[opCall[c].ext] => entry'[opCall[c].ext] = NoPackage
      BY <1>2, <1>5 DEF UndoConfig, OpInv, MachineOK
    <3> QED
      BY <2>1, <3>1, <3>2, OneOp
  <2> QED
    BY <2>1, <2>2, <2>3, <2>4 DEF OpKept, OpInv
<1> QED
  BY <1>3, <1>4, <1>5

\* A connection is tested, on its own or after a configuration.
LEMMA ConnectionTestSteps ==
    ASSUME OpInv, CallsClear, NEW c \in OpCalls, RunConnectionTest(c) \/ McpConnectionTest(c)
    PROVE  OpKept
<1>1. opCall[c] \in OpRecords /\ OpCallOK(opCall[c], applied, c \in cleared)
  BY DEF OpInv, OpCallsOK
<1>2. CASE RunConnectionTest(c)
  <2>1. opCall[c].at = "test" /\ opCall[c].op # "none" /\ UNCHANGED <<row, machine, opMade, applied>>
    BY <1>2, Underway DEF RunConnectionTest, OpInv
  <2>2. opCall[c].op # "mcp.connection-test" => Settled(opCall[c].op, "test") /\ ~opCall[c].dry
    BY <1>1, <2>1 DEF Settled, OpCallOK
  <2>3. Judged(opCall[c].op, "test") \/ opCall[c].op \in {"cleanup", "mcp.connection-test"}
    BY <2>1 DEF Judged
  <2>4. OpCallsOK' /\ \A d \in OpCalls \ {c} : opCall'[d] = opCall[d]
    <3>1. CASE OpEnd(c)
      BY <3>1, OpEndStep, <2>1 DEF OpInv, OpEnd, OpCallsOK
    <3>2. CASE ~OpEnd(c)
      <4>1. PICK result \in {<<"record", "reachable">>, <<"undo", "unreachable">>} :
               opCall' = [opCall EXCEPT ![c].at = result[1], ![c].tested = result[2]]
        BY <1>2, <3>2 DEF RunConnectionTest
      <4>2. opCall[c].op # "mcp.connection-test"
        BY <1>2, <3>2 DEF RunConnectionTest
      <4>3. result[1] \in {"record", "undo"} /\ result[2] \in {"reachable", "unreachable"}
        BY <4>1
      <4>4. <<opCall[c].ext, opCall[c].version>> \in applied'
        BY <1>1, <2>1, <2>2, <4>2 DEF OpCallOK
      <4> QED
        BY <2>1, <2>2, <2>3, <4>1, <4>2, <4>3, <4>4, OpChangeStep
    <3> QED
      BY <3>1, <3>2
  <2> QED
    BY <2>1, <2>4, OpStillStep DEF OpInv, MachineOK
<1>3. CASE McpConnectionTest(c)
  <2>1. CASE \E e \in Servers : /\ OpBegin(c, "mcp.connection-test", e, FALSE, "definition")
                               /\ UNCHANGED <<row, machine, applied>>
    BY <2>1, BeginSteps
  <2>2. CASE /\ OpAt(c, {"mcp.connection-test"}, "definition")
             /\ OpEnd(c) \/ \E goal \in {"test", "blocked"} : OpGoto(c, goal)
             /\ UNCHANGED <<row, machine, opMade, applied>>
    <3>1. UNCHANGED <<row, machine, opMade, applied>> /\ opCall[c].op = "mcp.connection-test"
      BY <2>2 DEF OpAt
    <3>2. CASE OpEnd(c)
      BY <3>1, <3>2, OpEndStep, OpStillStep DEF OpInv, MachineOK
    <3>3. CASE \E goal \in {"test", "blocked"} : OpGoto(c, goal)
      <4>1. OpCallsOK'
        BY <1>1, <3>1, <3>3, OpGotoStep DEF OpInv, OpStages, Settled, Judged, OpCallOK
      <4> QED
        BY <3>1, <4>1, OpStillStep DEF OpInv, MachineOK
    <3> QED
      BY <2>2, <3>2, <3>3
  <2> QED
    BY <1>3, <2>1, <2>2 DEF McpConnectionTest
<1> QED
  BY <1>2, <1>3

\* The plan of a plugin operation is fetched, judged and applied.
LEMMA PluginSteps ==
    ASSUME OpInv, CallsClear, NEW c \in OpCalls, PluginDefinition(c) \/ ApplyPluginPlan(c)
    PROVE  OpKept
<1>1. opCall[c] \in OpRecords /\ OpCallOK(opCall[c], applied, c \in cleared) /\ opCall[c].op \in PluginOps
  BY DEF OpInv, OpCallsOK, PluginDefinition, ApplyPluginPlan, OpAt
<1>2. /\ opCall[c].ext \in Hub /\ opCall[c].version \in PackageVersions
      /\ Judged(opCall[c].op, "apply") /\ opCall[c].op # "none"
  BY <1>1 DEF Judged, OpCallOK, PluginOps
<1>3. CASE PluginDefinition(c)
  <2>1. UNCHANGED <<row, machine, opMade, applied>>
    BY <1>3 DEF PluginDefinition
  <2>2. CASE OpEnd(c)
    BY <2>1, <2>2, OpEndStep, OpStillStep DEF OpInv, MachineOK
  <2>3. CASE ~OpEnd(c)
    <3>1. PICK goal \in {"apply", "ticket", "blocked"} :
             OpGoto(c, goal) /\ (goal # "blocked" => PolicyAllows(opCall[c].ext, opCall[c].op, "none"))
      BY <1>3, <2>3 DEF PluginDefinition
    <3>2. goal # "blocked" => ~HeldBack(row'[opCall[c].ext]) \/ opCall[c].op \in CleanupOps
      BY <1>1, <1>2, <2>1, <3>1, AllowedNotHeld DEF OpInv
    <3>3. Judged(opCall[c].op, goal) => ~HeldBack(row'[opCall[c].ext]) \/ opCall[c].op \in CleanupOps
      BY <3>2 DEF Judged
    <3>4. OpCallsOK'
      BY <1>2, <2>1, <3>1, <3>3, OpGotoStep DEF OpInv, OpStages, Settled
    <3> QED
      BY <2>1, <3>4, OpStillStep DEF OpInv, MachineOK
  <2> QED
    BY <2>2, <2>3
<1>4. CASE ApplyPluginPlan(c)
  <2>1. OpCallsOK' /\ \A d \in OpCalls \ {c} : opCall'[d] = opCall[d]
    BY <1>1, <1>2, <1>4, OpChangeStep DEF ApplyPluginPlan, OpAt
  <2>2. MachineOK'
    <3>1. entry' \in [Hub -> PackageVersions \cup {NoPackage}]
      BY <1>2, <1>4 DEF ApplyPluginPlan, PluginPlan, OpInv, MachineOK
    <3> QED
      BY <1>4, <3>1 DEF ApplyPluginPlan, OpInv, MachineOK
  <2>3. RecordFollowsPlan'
    BY <1>4 DEF ApplyPluginPlan, OpInv, RecordFollowsPlan
  <2>4. StaysOff
    <3>1. c \in cleared \/ opCall[c].op \in CleanupOps
      BY <1>1, <1>2, <1>4 DEF ApplyPluginPlan, OpAt, OpCallOK
    <3>2. opCall[c].dry => UNCHANGED <<row, machine>>
      BY <1>4 DEF ApplyPluginPlan, machine
    <3> QED
      BY <2>1, <3>1, <3>2, OneOp
  <2> QED
    BY <2>1, <2>2, <2>3, <2>4 DEF OpKept, OpInv
<1> QED
  BY <1>3, <1>4

\* Meanwhile a row is delisted, or found to have drifted.
LEMMA RowChangesStep ==
    ASSUME OpInv, CallsClear, RowChanges
    PROVE  OpKept
<1>1. PICK e \in Hub, j \in Judgements : row[e] # NoRow /\ row' = [row EXCEPT ![e].auth = j[1], ![e].drift = j[2]]
  BY DEF RowChanges
<1>2. UNCHANGED <<machine, opCall, opMade, applied>>
  BY DEF RowChanges
<1> DEFINE r == [row[e] EXCEPT !.auth = j[1], !.drift = j[2]]
<1>3. row[e] \in OpRows /\ j[1] \in {"AUTHORIZED", "SECURITY_DELISTED"} /\ j[2] \in {"none", "DRIFTED"}
  BY DEF OpInv, MachineOK, Judgements
<1>4. r \in OpRows /\ r.status = row[e].status /\ r.version = row[e].version /\ row' = [row EXCEPT ![e] = r]
  BY <1>1, <1>3 DEF OpRows
<1> HIDE DEF r
<1>5. MachineOK'
  BY <1>2, <1>4 DEF machine, OpInv, MachineOK
<1>6. RecordFollowsPlan'
  BY <1>2, <1>4 DEF OpInv, MachineOK, RecordFollowsPlan
<1>7. OpCallsOK'
  <2>1. ASSUME NEW d \in OpCalls PROVE OpCallOK(opCall'[d], applied', d \in cleared')
    <3>1. OpCallOK(opCall[d], applied, d \in cleared) /\ opCall'[d] = opCall[d] /\ applied' = applied
      BY <1>2 DEF OpInv, OpCallsOK
    <3>2. opCall[d] # NoOp /\ d \in cleared => d \in cleared'
      BY <3>1 DEF CallsClear
    <3>3. opCall[d] = NoOp => ~Judged(opCall[d].op, opCall[d].at)
      BY DEF NoOp, Judged
    <3> QED
      BY <3>1, <3>2, <3>3 DEF OpCallOK
  <2> QED
    BY <1>2, <2>1 DEF OpInv, OpCallsOK
<1>8. StaysOff
  BY <1>2 DEF StaysOff
<1> QED
  BY <1>5, <1>6, <1>7, <1>8 DEF OpKept, OpInv

\* At first no call is under way, and what is installed is recorded.
LEMMA OperationInvInit == OperationInit => OpInv
<1> SUFFICES ASSUME OperationInit PROVE OpInv
  OBVIOUS
<1>1. PICK had \in {{}} \cup {{e} : e \in Hub}, v \in PackageVersions :
         /\ row = [e \in Hub |-> IF e \in had THEN RecordOf("enabled", v) ELSE NoRow]
         /\ central = [e \in Skills |-> IF e \in had THEN v ELSE NoPackage]
         /\ entry = [e \in Hub |-> IF e \in had THEN v ELSE NoPackage]
         /\ secrets = Servers \cap had
         /\ applied = had \X {v}
  BY DEF OperationInit
<1>2. OpCallsOK
  BY IdleOp DEF OperationInit, OpCallsOK
<1>3. NoRow \in OpRows /\ NoRow.status = "none"
  BY DEF NoRow, OpRows
<1>4. RecordOf("enabled", v) \in OpRows /\ RecordOf("enabled", v).version = v
  BY DEF RecordOf, OpRows
<1>5. MachineOK
  BY <1>1, <1>3, <1>4, OperationAssumption DEF OperationInit, MachineOK
<1>6. RecordFollowsPlan
  BY <1>1, <1>3, <1>4 DEF RecordFollowsPlan
<1> QED
  BY <1>2, <1>5, <1>6 DEF OpInv

\* Every step of every operation keeps the invariant.
LEMMA OperationInvStep == OpInv /\ OperationNext => OpKept
<1> SUFFICES ASSUME OpInv, OperationNext PROVE OpKept
  OBVIOUS
<1>1. CallsClear /\ OperationStep
  BY DEF OperationNext, CallsClear
<1>2. ASSUME NEW c \in OpCalls,
             \/ ReportBlocked(c)
             \/ ExtensionInstall(c) \/ ExtensionDetail(c) \/ DownloadTicket(c) \/ DownloadToTemp(c)
             \/ VerifyDownload(c) \/ InstallSkill(c) \/ EnableSkill(c) \/ RecordSkill(c)
             \/ McpConfigure(c) \/ McpDefinition(c) \/ RenderVariables(c) \/ WriteConfig(c)
             \/ RunConnectionTest(c) \/ UndoConfig(c) \/ RecordMcp(c) \/ McpConnectionTest(c)
             \/ PluginPrepare(c) \/ PluginDefinition(c) \/ ApplyPluginPlan(c) \/ RecordPlugin(c)
             \/ LocalCleanup(c) \/ CleanupTarget(c) \/ RecordCleanup(c)
      PROVE  OpKept
  BY <1>1, <1>2, WaitingSteps, BeginSteps, InstallSteps, RecordSteps, CleanupSteps, ConfigSteps,
     ConnectionTestSteps, PluginSteps
<1> QED
  BY <1>1, <1>2, RowChangesStep DEF OperationStep

\* A step that changes nothing keeps it.
LEMMA OperationInvStutter == OpInv /\ UNCHANGED opVars => OpInv'
BY DEF OpInv, OpCallsOK, MachineOK, RecordFollowsPlan, opVars, machine

\* The invariant holds throughout.
LEMMA OperationInvariant == OperationSpec => []OpInv
<1>1. OpInv /\ [OperationNext]_opVars => OpInv'
  BY OperationInvStep, OperationInvStutter DEF OpKept
<1> QED
  BY <1>1, OperationInvInit, PTL DEF OperationSpec

\* Type correctness of the operations on extensions and of what they work on.
THEOREM OperationTypesCorrect == OperationSpec => []OperationTypeOK
<1>1. OpInv => OperationTypeOK
  BY DEF OpInv, MachineOK, OpCallsOK, OperationTypeOK, OpRecords, OpRows
<1> QED
  BY <1>1, OperationInvariant, PTL

\* The local database never claims a version of an extension that no plan has put in place, however
\* calls interleave, fail and are cleaned up after (recordInstalledSkill, recordMcp, recordPlugin).
THEOREM RecordsFollowPlans == OperationSpec => []RecordFollowsPlan
<1>1. OpInv => RecordFollowsPlan
  BY DEF OpInv
<1> QED
  BY <1>1, OperationInvariant, PTL

\* No call made and carried through while an extension is held back puts it onto the machine, and
\* a dry run changes nothing (assertPhase3IpcPolicyAllowed before, dryRun at the later awaits).
THEOREM HeldBackStaysOff == OperationSpec => BlockedStaysOff
<1>1. OpInv /\ [OperationNext]_opVars => [StaysOff]_opVars
  BY OperationInvStep DEF OpKept
<1>2. OperationSpec => [][StaysOff]_opVars
  BY <1>1, OperationInvariant, PTL DEF OperationSpec
<1> QED
  BY <1>2 DEF BlockedStaysOff, StaysOff

------------------------------------------------------------------------------
(* The main process: its parts side by side, as the runs have them            *)

\* A machine with a past is one the record and the kits may have left.
LEMMA LivedIsAPast ==
    ASSUME tables = Lived.tables, graph = Lived.graph, disk = Lived.disk,
           todo = [c \in Calls |-> <<>>], made = 0, removal = [c \in Calls |-> None], KitInit
    PROVE  KitInv
<1> USE LivedAssumption, LifecycleAssumption
<1>1. TablesOK
  BY DEF Lived, TablesOK, Statuses
<1>2. \A s \in {"enabled", "scanned", "success"} :
        /\ \A p \in Projects \cup {None} : LivedRow(s, p) \in BindingRow
        /\ KitRow(s) \in BindingRow
  <2>1. <<kit, path>> \in Kits \X Paths /\ {"enabled", "scanned", "success"} \subseteq Statuses
    BY DEF Statuses
  <2>2. \A s \in Statuses, p \in Projects \cup {None} : LivedRow(s, p) \in BindingRow
    <3> SUFFICES ASSUME NEW s \in Statuses, NEW p \in Projects \cup {None} PROVE LivedRow(s, p) \in BindingRow
      OBVIOUS
    <3> DEFINE found == Binding(s, None, p)
    <3>1. found \in BindingRow
      BY BindingTyped
    <3> HIDE DEF found
    <3>2. [found EXCEPT !.path = "OK"] \in BindingRow
      BY <3>1 DEF BindingRow
    <3> QED
      BY <3>2 DEF LivedRow, found
  <2>3. \A s \in Statuses : KitRow(s) \in BindingRow
    BY <2>1, BindingTyped DEF KitRow
  <2> QED
    BY <2>1, <2>2, <2>3
<1>3. GraphOK
  <2>1. graph.binding \in [Places -> BindingRow \cup {None}]
    BY <1>2 DEF Lived
  <2>2. graph.file \in [Places -> FileRow \cup {None}]
    <3>1. [known |-> x, current |-> x, drifted |-> FALSE] \in FileRow
      BY DEF FileRow, Hash
    <3> QED
      BY <3>1 DEF Lived
  <2>3. graph.finding \in [Places -> {"SAFE", "SECURITY_RISK", None}]
    BY DEF Lived
  <2>4. \A r \in Resources : graph.resource[r] \in ResourceRow \cup {None}
                            /\ (graph.resource[r] # None /\ graph.resource[r].origin = "agent" => r = ruleFile)
    <3>1. [q \in {skill} |-> Reference(None, TRUE)] \in KitManifests
      <4>1. {skill} \in SUBSET (Extensions \cup AgentFiles)
        OBVIOUS
      <4>2. [q \in {skill} |-> Reference(None, TRUE)] \in [{skill} -> [hash : Hash, required : BOOLEAN]]
        BY DEF Reference, Hash
      <4> QED
        BY <4>1, <4>2 DEF KitManifests
    <3>2. \A origin \in {"scan", "agent", "kit"}, s \in Statuses, m \in KitManifests \cup {None} :
            Resource(origin, s, m) \in ResourceRow /\ Resource(origin, s, m).origin = origin
      BY ResourceTyped DEF Manifest
    <3>3. {"enabled", "scanned", "success"} \subseteq Statuses
      BY DEF Statuses
    <3> QED
      BY <3>1, <3>2, <3>3 DEF Lived
  <2>5. graph.resource \in [Resources -> ResourceRow \cup {None}]
    BY <2>4 DEF Lived
  <2>6. graph = [resource |-> graph.resource, binding |-> graph.binding, file |-> graph.file,
                 finding |-> graph.finding]
    BY DEF Lived
  <2>7. graph \in Graphs
    BY <2>1, <2>2, <2>3, <2>5, <2>6 DEF Graphs
  <2> QED
    BY <2>4, <2>7 DEF GraphOK, OwnAgents
<1>4. DiskOK
  BY DEF Lived, DiskOK, Hash
<1>5. \A c \in Calls : todo[c] = <<>> /\ removal[c] = None /\ kitOp[c] = None
  BY DEF KitInit
<1>6. AllFit(<<>>) /\ \A past : RemovalQueue(<<>>, past)
  BY ShortQueues DEF AllFit, RemovalQueue
<1>7. TodoOK
  BY <1>5, <1>6 DEF TodoOK
<1>8. RemovalOK
  BY <1>5, <1>6 DEF RemovalOK, RowOK, Is
<1>9. KitsOK
  BY <1>5 DEF KitInit, KitsOK
<1> QED
  BY <1>1, <1>3, <1>4, <1>7, <1>8, <1>9 DEF KitInv

\* Each part is as its own proof has it, whichever of them a behaviour follows.
DesktopInv ==
    /\ focus \in Focus
    /\ UpdateInv /\ StartInv /\ SessionTypes /\ OpInv /\ AuditInv /\ ScanInv /\ KitInv

LEMMA DesktopInvInit == MCInit => DesktopInv
<1> SUFFICES ASSUME MCInit PROVE DesktopInv
  OBVIOUS
<1>1. /\ focus \in Focus /\ UpdateInit /\ StartInit /\ SessionInit /\ OperationInit
      /\ AuditInit /\ InventoryInit /\ KitInit
  BY DEF MCInit
<1>2. KitInv
  <2>1. CASE Init
    BY <1>1, <2>1, KitInvInit
  <2>2. CASE ~Init
    BY <1>1, <2>2, LivedIsAPast DEF MCInit
  <2> QED
    BY <2>1, <2>2
<1> QED
  BY <1>1, <1>2, UpdateInvInit, StartInvInit, SessionTypesInit, OperationInvInit, AuditStarts, InventoryStarts
     DEF DesktopInv

\* A step of the whole is a step of one part, and leaves the others as they are.
LEMMA DesktopInvStep == DesktopInv /\ [MCNext]_desktopVars => DesktopInv'
<1> SUFFICES ASSUME DesktopInv, [MCNext]_desktopVars PROVE DesktopInv'
  OBVIOUS
<1>1. /\ [UpdateNext]_updateVars /\ [StartNext]_startVars /\ [SessionNext]_sessionVars
      /\ [OperationNext]_opVars /\ [AuditNext]_auditVars /\ [InventoryNext]_inventoryVars
      /\ [KitNext]_kitVars /\ UNCHANGED focus
  BY DEF MCNext, desktopVars
<1>2. OpInv'
  BY <1>1, OperationInvStep, OperationInvStutter DEF OpKept, DesktopInv
<1>3. KitInv'
  BY <1>1, KitInvNext DEF kitVars, DesktopInv
<1> QED
  BY <1>1, <1>2, <1>3, UpdateInvStep, StartInvStep, SessionTypesStep, AuditStep, InventoryStep DEF DesktopInv

\* DesktopTypeOK: type correctness of the main process, whichever part a behaviour follows and
\* on a machine with a past too.
THEOREM DesktopTypesCorrect == MCSpec => []DesktopTypeOK
<1>1. ASSUME DesktopInv PROVE DesktopTypeOK
  <2>1. UpdateTypeOK
    BY <1>1, UpdateInvTypes DEF DesktopInv
  <2>2. StartTypeOK
    BY <1>1 DEF DesktopInv, StartInv, StartTypes
  <2>3. SessionTypeOK
    BY <1>1, SessionTyped DEF DesktopInv
  <2>4. AuditTypeOK
    BY <1>1 DEF DesktopInv, AuditInv, AuditTypeOK
  <2>5. InventoryTypeOK
    BY <1>1 DEF DesktopInv, ScanInv, ScanTypes, InventoryTypeOK, RowTyped, ScanStates
  <2>6. LifecycleTypeOK
    BY <1>1 DEF DesktopInv, KitInv, TablesOK, GraphOK, Graphs, DiskOK, RemovalOK, RowOK, LifecycleTypeOK, Is, ResourceRow
  <2>7. OperationTypeOK
    BY <1>1 DEF DesktopInv, OpInv, MachineOK, OpCallsOK, OperationTypeOK, OpRecords, OpRows
  <2> QED
    BY <2>1, <2>2, <2>3, <2>4, <2>5, <2>6, <2>7 DEF DesktopTypeOK
<1> QED
  BY <1>1, DesktopInvInit, DesktopInvStep, PTL DEF MCSpec
==============================================================================
