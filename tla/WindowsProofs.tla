---------------------------- MODULE WindowsProofs ----------------------------
(* What people look at, for any number of requests, panels, files, tabs, desks *)
(* and events: an event is counted once, every spinner is waited for, an       *)
(* inspection is of the file, a tab that has signed out has no token, and what *)
(* an administrator saves is what was shown. The four parts of MCWindows come  *)
(* one after the other; the last section puts all of them together.            *)
EXTENDS MCWindows, TLAPS

------------------------------------------------------------------------------
(* The events that leave the desktop                                          *)

\* The server has every event of a request it has answered.
AnsweredIsRecorded ==
    \A p \in Passes :
        passes[p].phase \in {"answered", "acking"} =>
            passes[p].batch \subseteq recorded

SyncInv == TypeOK /\ AnsweredIsRecorded

\* The server's transaction takes no event back and leaves every event of the
\* request with a row.
LEMMA RecordKeeps ==
    ASSUME TypeOK, NEW batch \in SUBSET Keys, Record(batch)
    PROVE  /\ recorded' \subseteq Keys
           /\ recorded \subseteq recorded'
           /\ batch \subseteq recorded'
  BY DEF TypeOK, Record, Inserted

\* A pass that is over.
LEMMA IdleState == Idle \in PassStates /\ Idle.todo \subseteq Idle.batch
  BY DEF Idle, PassStates, Phases

\* Nothing is waiting and nothing recorded at first.
LEMMA InitSync == Init => SyncInv
<1> SUFFICES ASSUME Init PROVE SyncInv
  OBVIOUS
<1>1. TypeOK
  <2>1. passes \in [Passes -> PassStates] /\ \A p \in Passes : passes[p].todo \subseteq passes[p].batch
    BY IdleState DEF Init
  <2>2. /\ writing \in [Writers -> SUBSET SUBSET Keys]
        /\ callers \in [Callers -> Keys \cup {NoKey}]
        /\ recorded \subseteq Keys
    BY DEF Init
  <2>3. /\ queue \in SUBSET Keys
        /\ saved \in SUBSET Keys
        /\ delayed \in SUBSET SUBSET Keys
        /\ backingOff \in BOOLEAN
    BY Zenon DEF Init
  <2>4. crashes \in 0..MaxCrashes
    BY SyncAssumption DEF Init
  <2> QED BY <2>1, <2>2, <2>3, <2>4 DEF TypeOK
<1>2. AnsweredIsRecorded
  BY DEF Init, AnsweredIsRecorded, Idle
<1> QED BY <1>1, <1>2 DEF SyncInv

\* A step of one pass that touches neither the queue nor the server.
LEMMA PassStep ==
    ASSUME SyncInv, NEW p \in Passes, NEW state \in PassStates,
           passes' = [passes EXCEPT ![p] = state],
           state.todo \subseteq state.batch,
           state.phase \in {"answered", "acking"} => state.batch \subseteq recorded,
           queue' \in SUBSET Keys, writing' \in [Writers -> SUBSET SUBSET Keys],
           backingOff' \in BOOLEAN, delayed' \in SUBSET SUBSET Keys,
           UNCHANGED <<saved, callers, recorded, crashes>>
    PROVE  SyncInv'
<1>1. TypeOK'
  BY DEF SyncInv, TypeOK
<1>2. AnsweredIsRecorded'
  BY DEF SyncInv, TypeOK, AnsweredIsRecorded
<1> QED BY <1>1, <1>2 DEF SyncInv

\* Every step keeps the invariant.
LEMMA StepSync == SyncInv /\ [Next]_vars => SyncInv'
<1> SUFFICES ASSUME SyncInv, [Next]_vars PROVE SyncInv'
  OBVIOUS
<1> USE SyncAssumption DEF SyncInv
<1>1. ASSUME NEW w \in Writers, Persist(w) PROVE SyncInv'
  BY <1>1 DEF Persist, TypeOK, AnsweredIsRecorded
<1>2. ASSUME NEW c \in Callers, NEW k \in Keys, Enqueue(c, k) PROVE SyncInv'
  BY <1>2 DEF Enqueue, RunStatement, Writers, TypeOK, AnsweredIsRecorded
<1>15. ASSUME NEW c \in Callers, EnqueueReturns(c) PROVE SyncInv'
  BY <1>15 DEF EnqueueReturns, TypeOK, AnsweredIsRecorded
<1>3. ASSUME NEW p \in Passes, StartPass(p) PROVE SyncInv'
  BY <1>3 DEF StartPass, TypeOK, PassStates, Phases, AnsweredIsRecorded
<1>4. ASSUME NEW p \in Passes, HandleRequest(p) PROVE SyncInv'
  <2>1. passes[p].batch \in SUBSET Keys /\ Record(passes[p].batch)
    BY <1>4 DEF HandleRequest, TypeOK, PassStates
  <2>2. /\ recorded' \subseteq Keys
        /\ recorded \subseteq recorded'
        /\ passes[p].batch \subseteq recorded'
    BY <2>1, RecordKeeps
  <2>3. TypeOK'
    BY <1>4, <2>2 DEF HandleRequest, TypeOK, PassStates, Phases
  <2>4. AnsweredIsRecorded'
    <3> SUFFICES ASSUME NEW q \in Passes, passes'[q].phase \in {"answered", "acking"},
                        NEW k \in passes'[q].batch
                 PROVE  k \in recorded'
      BY DEF AnsweredIsRecorded
    <3>1. passes'[q].batch = passes[q].batch /\ k \in Keys
      BY <1>4 DEF HandleRequest, TypeOK, PassStates
    <3>2. CASE q = p
      BY <3>1, <3>2, <2>2
    <3>3. CASE q # p
      <4>1. k \in recorded
        BY <1>4, <3>1, <3>3 DEF HandleRequest, TypeOK, PassStates, AnsweredIsRecorded
      <4> QED BY <4>1, <3>1, <2>2 DEF TypeOK
    <3> QED BY <3>2, <3>3
  <2> QED BY <2>2, <2>3, <2>4
<1>5. ASSUME NEW batch \in delayed, HandleDelayed(batch) PROVE SyncInv'
  <2>1. batch \in SUBSET Keys /\ Record(batch)
    BY <1>5 DEF HandleDelayed, TypeOK
  <2>2. /\ recorded' \subseteq Keys
        /\ recorded \subseteq recorded'
    BY <2>1, RecordKeeps
  <2>3. TypeOK'
    BY <1>5, <2>2 DEF HandleDelayed, clientVars, TypeOK
  <2>4. AnsweredIsRecorded'
    BY <1>5, <2>2 DEF HandleDelayed, clientVars, TypeOK, PassStates, AnsweredIsRecorded
  <2> QED BY <2>2, <2>3, <2>4
<1>6. ASSUME NEW batch \in delayed, DropDelayed(batch) PROVE SyncInv'
  BY <1>6 DEF DropDelayed, clientVars, TypeOK, AnsweredIsRecorded
<1>7. ASSUME NEW p \in Passes, ReceiveReply(p) PROVE SyncInv'
  <2> DEFINE state == [passes[p] EXCEPT !.phase = "acking", !.todo = passes[p].batch]
  <2> passes[p] \in PassStates
    BY DEF TypeOK
  <2>1. state \in PassStates /\ state.todo = state.batch /\ state.batch = passes[p].batch
    BY DEF PassStates, Phases
  <2>2. passes' = [passes EXCEPT ![p] = state]
    BY <1>7 DEF ReceiveReply, TypeOK
  <2>3. state.batch \subseteq recorded
    BY <1>7, <2>1 DEF ReceiveReply, AnsweredIsRecorded
  <2> HIDE DEF state
  <2> QED BY <1>7, <2>1, <2>2, <2>3, PassStep DEF ReceiveReply, TypeOK
<1>8. ASSUME NEW p \in Passes, RequestFails(p) PROVE SyncInv'
  <2> DEFINE state == [passes[p] EXCEPT !.phase = "failing", !.todo = passes[p].batch]
  <2> passes[p] \in PassStates
    BY DEF TypeOK
  <2>1. state \in PassStates /\ state.todo = state.batch /\ state.phase = "failing"
    BY DEF PassStates, Phases
  <2>2. passes' = [passes EXCEPT ![p] = state]
    BY <1>8 DEF RequestFails, TypeOK
  <2>3. delayed' \in SUBSET SUBSET Keys
    BY <1>8 DEF RequestFails, TypeOK, PassStates
  <2> HIDE DEF state
  <2> QED BY <1>8, <2>1, <2>2, <2>3, PassStep DEF RequestFails, TypeOK
<1>9. ASSUME NEW p \in Passes, NEW k \in Keys, Acknowledge(p, k) \/ MarkFailed(p, k) PROVE SyncInv'
  <2> DEFINE state == [passes[p] EXCEPT !.todo = @ \ {k}]
  <2>1. /\ state \in PassStates
        /\ state.todo \subseteq state.batch
        /\ state.phase = passes[p].phase
        /\ state.batch = passes[p].batch
    BY DEF TypeOK, PassStates
  <2>2. passes' = [passes EXCEPT ![p] = state]
    BY <1>9 DEF Acknowledge, MarkFailed, TypeOK
  <2>3. state.phase \in {"answered", "acking"} => state.batch \subseteq recorded
    BY <2>1 DEF AnsweredIsRecorded
  <2>4. /\ queue' \in SUBSET Keys
        /\ writing' \in [Writers -> SUBSET SUBSET Keys]
        /\ UNCHANGED <<saved, callers, backingOff, delayed, recorded, crashes>>
    BY <1>9 DEF Acknowledge, MarkFailed, RunStatement, Writers, TypeOK
  <2> HIDE DEF state
  <2> QED BY <2>1, <2>2, <2>3, <2>4, PassStep DEF TypeOK
<1>10. ASSUME NEW p \in Passes, AcknowledgeFails(p) PROVE SyncInv'
  <2> DEFINE state == [passes[p] EXCEPT !.phase = "failing", !.todo = passes[p].batch]
  <2> passes[p] \in PassStates
    BY DEF TypeOK
  <2>1. state \in PassStates /\ state.todo = state.batch /\ state.phase = "failing"
    BY DEF PassStates, Phases
  <2>2. passes' = [passes EXCEPT ![p] = state]
    BY <1>10 DEF AcknowledgeFails, TypeOK
  <2> HIDE DEF state
  <2> QED BY <1>10, <2>1, <2>2, PassStep DEF AcknowledgeFails, TypeOK
<1>11. ASSUME NEW p \in Passes, EndPass(p) PROVE SyncInv'
  <2>1. Idle.phase = "idle"
    BY DEF Idle
  <2>2. backingOff' \in BOOLEAN
    BY <1>11 DEF EndPass
  <2> QED BY <1>11, <2>1, <2>2, IdleState, PassStep DEF EndPass, TypeOK
<1>12. ASSUME SkipEmpty \/ BackoffPasses PROVE SyncInv'
  BY <1>12 DEF SkipEmpty, BackoffPasses, TypeOK, AnsweredIsRecorded
<1>13. ASSUME Crash PROVE SyncInv'
  <2>1. queue' \in SUBSET Keys /\ saved' \in SUBSET Keys
    BY <1>13 DEF Crash, TypeOK
  <2>2. delayed' \in SUBSET SUBSET Keys
    BY <1>13 DEF Crash, TypeOK, PassStates
  <2>3. /\ writing' = [w \in Writers |-> {}]
        /\ callers' = [c \in Callers |-> NoKey]
        /\ passes' = [p \in Passes |-> Idle]
        /\ backingOff' = FALSE
        /\ crashes' \in 0..MaxCrashes
        /\ UNCHANGED recorded
    BY <1>13 DEF Crash, TypeOK
  <2>4. TypeOK'
    BY <2>1, <2>2, <2>3, IdleState DEF TypeOK
  <2>5. AnsweredIsRecorded'
    BY <2>3 DEF Idle, AnsweredIsRecorded
  <2> QED BY <2>4, <2>5
<1>14. CASE UNCHANGED vars
  BY <1>14 DEF vars, clientVars, TypeOK, AnsweredIsRecorded
<1> QED
  BY <1>1, <1>2, <1>3, <1>4, <1>5, <1>6, <1>7, <1>8, <1>9, <1>10, <1>11, <1>12, <1>13, <1>14, <1>15
  DEF Next

\* The inductive invariant holds throughout.
THEOREM SyncInvariance == Spec => []SyncInv
<1>1. Init => SyncInv
  BY InitSync
<1>2. SyncInv /\ [Next]_vars => SyncInv'
  BY StepSync
<1> QED BY <1>1, <1>2, PTL DEF Spec

\* Type correctness of the client's table, the requests and the server's rows.
THEOREM SyncTypeCorrect == Spec => []TypeOK
<1>1. SyncInv => TypeOK
  BY DEF SyncInv
<1> QED BY <1>1, SyncInvariance, PTL

\* Outside of a crash, only events the server has leave the client's table.
THEOREM OnlyRecordedDropped == Spec => DroppedIsRecorded
<1>1. SyncInv /\ [Next]_vars =>
        [\A k \in Keys :
            k \in queue /\ k \notin queue' => k \in recorded' \/ crashes' # crashes]_vars
  <2> SUFFICES ASSUME SyncInv, [Next]_vars, NEW k \in Keys, k \in queue, k \notin queue',
                      crashes' = crashes
               PROVE  k \in recorded'
    OBVIOUS
  <2> USE DEF SyncInv
  <2>1. ~Crash
    BY DEF Crash, TypeOK
  <2>2. PICK p \in Passes : Acknowledge(p, k)
    <3>1. ASSUME NEW c \in Callers, NEW j \in Keys, Enqueue(c, j) PROVE FALSE
      BY <3>1 DEF Enqueue, RunStatement
    <3>2. ASSUME NEW p \in Passes, NEW j \in Keys, MarkFailed(p, j) PROVE FALSE
      BY <3>2 DEF MarkFailed, RunStatement
    <3>3. ASSUME NEW p \in Passes, NEW j \in Keys, Acknowledge(p, j) PROVE j = k
      BY <3>3 DEF Acknowledge, RunStatement
    <3> QED
      BY <2>1, <3>1, <3>2, <3>3
      DEF Next, vars, clientVars, Persist, EnqueueReturns, StartPass, HandleRequest,
          HandleDelayed, DropDelayed, ReceiveReply, RequestFails, AcknowledgeFails, EndPass,
          SkipEmpty, BackoffPasses
  <2>3. k \in recorded /\ recorded' = recorded
    BY <2>2 DEF Acknowledge, TypeOK, AnsweredIsRecorded
  <2> QED BY <2>3
<1> QED BY <1>1, SyncInvariance, PTL DEF Spec, DroppedIsRecorded

------------------------------------------------------------------------------
(* The publish wizard and the panels of the local page                         *)

\* A draft, whose inspection is of its file.
DraftOK(d) ==
    /\ d \in [step : 0..3, kind : Pages!ExtensionKinds, file : Files \cup {None},
              inspection : [file : Files, root : BOOLEAN \cup {None}] \cup {None},
              named : BOOLEAN, checking : BOOLEAN]
    /\ d.inspection # None => d.inspection.file = d.file

\* Only an open wizard is inspected for, and what it sends it shows.
WizardInv ==
    /\ draft # None \/ inspections # {} => DraftOK(draft)
    /\ inspections \subseteq [file : Files, kind : Pages!ExtensionKinds]
    /\ submitting \in BOOLEAN
    /\ sent # None /\ sent.inspection # None => sent.inspection.file = sent.file

\* Every step of the wizard keeps that: another file, or kind, drops the inspection shown, and
\* a late one brings the file it is of.
LEMMA WizardStep == WizardInv /\ Pages!WizardNext => WizardInv'
<1> SUFFICES ASSUME WizardInv, Pages!WizardNext PROVE WizardInv'
  OBVIOUS
<1> USE DEF WizardInv
<1>1. CASE Pages!OpenWizard
  <2>1. DraftOK(Pages!NewDraft)
    BY DEF DraftOK, Pages!NewDraft, Pages!ExtensionKinds
  <2> QED
    BY <1>1, <2>1 DEF Pages!OpenWizard
<1>2. CASE Pages!CloseWizard
  BY <1>2 DEF Pages!CloseWizard
<1>3. CASE Pages!FillMetadata
  <2>1. DraftOK(draft) /\ draft' = [draft EXCEPT !.named = TRUE]
    BY <1>3 DEF Pages!FillMetadata
  <2>2. DraftOK(draft')
    BY <2>1 DEF DraftOK
  <2> QED
    BY <1>3, <2>2 DEF Pages!FillMetadata
<1>4. CASE Pages!Submit
  <2>1. sent' = [file |-> draft.file, inspection |-> draft.inspection] /\ DraftOK(draft)
    BY <1>4 DEF Pages!Submit
  <2> QED
    BY <1>4, <2>1 DEF Pages!Submit, DraftOK
<1>5. CASE Pages!SubmitAnswered
  BY <1>5 DEF Pages!SubmitAnswered
<1>6. ASSUME NEW s \in 0..3, Pages!GoToStep(s) PROVE WizardInv'
  <2>1. DraftOK(draft) /\ draft' = [draft EXCEPT !.step = s]
    BY <1>6 DEF Pages!GoToStep
  <2>2. DraftOK(draft')
    BY <2>1 DEF DraftOK
  <2> QED
    BY <1>6, <2>2 DEF Pages!GoToStep
<1>7. ASSUME NEW f \in Files \cup {None}, Pages!HandleFileSelected(f) PROVE WizardInv'
  <2>1. /\ DraftOK(draft) 
        /\ draft' = [draft EXCEPT !.file = f, !.inspection = None, !.checking = IF f = None THEN @ ELSE TRUE]
    BY <1>7 DEF Pages!HandleFileSelected
  <2>2. DraftOK(draft')
    BY <2>1 DEF DraftOK
  <2>3. inspections' \subseteq [file : Files, kind : Pages!ExtensionKinds]
    BY <1>7, <2>1 DEF Pages!HandleFileSelected, DraftOK
  <2> QED
    BY <1>7, <2>2, <2>3 DEF Pages!HandleFileSelected
<1>8. ASSUME NEW k \in Pages!ExtensionKinds, Pages!SelectKind(k) PROVE WizardInv'
  <2>1. DraftOK(draft) /\ draft' = [draft EXCEPT !.kind = k, !.inspection = None]
    BY <1>8 DEF Pages!SelectKind
  <2>2. DraftOK(draft')
    BY <2>1 DEF DraftOK
  <2> QED
    BY <1>8, <2>2 DEF Pages!SelectKind
<1>9. ASSUME NEW i \in inspections, Pages!InspectionEnds(i) PROVE WizardInv'
  <2>1. DraftOK(draft) /\ i \in [file : Files, kind : Pages!ExtensionKinds]
    BY <1>9
  <2>2. CASE draft' = [draft EXCEPT !.checking = FALSE]
    <3>1. DraftOK(draft')
      BY <2>1, <2>2 DEF DraftOK
    <3> QED
      BY <1>9, <3>1 DEF Pages!InspectionEnds
  <2>3. CASE Pages!Inspected(i)
    <3>1. PICK named \in BOOLEAN : draft' = [draft EXCEPT !.file = i.file, !.inspection = Pages!InspectPublishPackage(i),
                                                         !.named = @ \/ named, !.checking = FALSE]
      BY <2>3 DEF Pages!Inspected
    <3> DEFINE found == Pages!InspectPublishPackage(i)
    <3>2. found \in [file : Files, root : BOOLEAN \cup {None}] /\ found.file = i.file
      BY <2>1 DEF Pages!InspectPublishPackage
    <3> HIDE DEF found
    <3>3. (draft.named \/ named) \in BOOLEAN
      BY <2>1 DEF DraftOK
    <3>4. DraftOK(draft')
      BY <2>1, <3>1, <3>2, <3>3 DEF DraftOK, found
    <3> QED
      BY <1>9, <3>4 DEF Pages!InspectionEnds
  <2> QED
    BY <1>9, <2>2, <2>3 DEF Pages!InspectionEnds
<1> QED
  BY <1>1, <1>2, <1>3, <1>4, <1>5, <1>6, <1>7, <1>8, <1>9 DEF Pages!WizardNext

\* The panels of the local page, where it can be, and the requests of its panels.
Panels == {"audit", "checkEntry", "previewEntry", "profile", "removeProject", "kitActions", "workbench",
           "editor", "checkPath", "previewFile"} \cup Pages!KitDialogs
Places == [tab : Pages!LocalTabs \cup {"away"}, workbench : BOOLEAN, dialog : Pages!KitDialogs \cup {"none"},
           drawer : BOOLEAN]
PanelRequests == [panel : Panels, live : BOOLEAN, left : 1..MaxTargets]

\* A request whose answer enables the panel's button.
Waits(call, p) == call # Pages!Free /\ call.live /\ call.panel = p

(* Each disabled button has a request whose answer enables it, and only the *)
(* audit's has more than one.                                               *)
PanelInv ==
    /\ place \in Places
    /\ busyPanels \subseteq Pages!Mounted(place)
    /\ pageCall \in [PageCalls -> PanelRequests \cup {Pages!Free}]
    /\ \A p \in busyPanels : \E c \in PageCalls : Waits(pageCall[c], p)
    /\ \A c \in PageCalls, p \in Panels : Waits(pageCall[c], p) => p \in busyPanels \cup {"audit"}
    /\ \A c, d \in PageCalls, p \in Panels :
          Waits(pageCall[c], p) /\ Waits(pageCall[d], p) => c = d \/ p = "audit"

\* A place mounts panels.
LEMMA MountedPanels == \A p \in Places : Pages!Mounted(p) \subseteq Panels
BY DEF Pages!Mounted, Panels, Places, Pages!KitDialogs

\* No panel waits for a request that is over.
LEMMA FreeFacts == Pages!Free \notin PanelRequests /\ Pages!Free.panel = "none" /\ \A p : ~Waits(Pages!Free, p)
<1>1. \A r \in PanelRequests : r.panel # "none"
  BY DEF PanelRequests, Panels, Pages!KitDialogs
<1>2. Pages!Free.panel = "none"
  BY DEF Pages!Free
<1> QED
  BY <1>1, <1>2 DEF Waits

\* Panels that are left take their disabled buttons along, and their requests no longer matter.
LEMMA GoToStep ==
    ASSUME PanelInv, NEW p \in Places, Pages!GoTo(p)
    PROVE  PanelInv'
<1>1. ASSUME NEW c \in PageCalls
      PROVE  /\ pageCall'[c] \in PanelRequests \cup {Pages!Free}
             /\ \A q \in Panels : Waits(pageCall'[c], q) <=> Waits(pageCall[c], q) /\ q \in Pages!Mounted(p)
  <2>1. CASE pageCall[c] = Pages!Free
    BY <2>1, FreeFacts DEF Pages!GoTo
  <2>2. CASE pageCall[c] \in PanelRequests
    <3>1. CASE pageCall[c].panel \in Pages!Mounted(p)
      BY <2>2, <3>1 DEF Pages!GoTo, Waits
    <3>2. CASE pageCall[c].panel \notin Pages!Mounted(p)
      <4> DEFINE call == [pageCall[c] EXCEPT !.live = FALSE]
      <4>1. pageCall'[c] = call
        BY <2>2, <3>2, FreeFacts DEF Pages!GoTo
      <4>2. call \in PanelRequests /\ ~call.live
        BY <2>2 DEF PanelRequests
      <4> HIDE DEF call
      <4> QED
        BY <3>2, <4>1, <4>2 DEF Waits
    <3> QED
      BY <3>1, <3>2
  <2> QED
    BY <2>1, <2>2 DEF PanelInv
<1>2. place' = p /\ busyPanels' = busyPanels \cap Pages!Mounted(p) /\ pageCall' \in [PageCalls -> PanelRequests \cup {Pages!Free}]
  BY <1>1 DEF Pages!GoTo
<1>3. busyPanels \subseteq Panels
  BY MountedPanels DEF PanelInv
<1> QED
  BY <1>1, <1>2, <1>3, MountedPanels DEF PanelInv

\* A click disables the button that the request will enable.
LEMMA RunStep ==
    ASSUME PanelInv, MaxTargets \in Nat \ {0}, NEW c \in PageCalls, NEW p \in Pages!Mounted(place), Pages!Run(c, p)
    PROVE  PanelInv'
<1>1. p \in Panels
  BY MountedPanels DEF PanelInv
<1>2. PICK n \in 1..MaxTargets : pageCall' = [pageCall EXCEPT ![c] = [panel |-> p, live |-> TRUE, left |-> n]]
  <2>1. (IF p = "install" THEN 1..MaxTargets ELSE {1}) \subseteq 1..MaxTargets
    OBVIOUS
  <2>2. PICK n \in IF p = "install" THEN 1..MaxTargets ELSE {1} :
           pageCall' = [pageCall EXCEPT ![c] = [panel |-> p, live |-> TRUE, left |-> n]]
    BY DEF Pages!Run
  <2> QED
    BY <2>1, <2>2
<1> DEFINE call == [panel |-> p, live |-> TRUE, left |-> n]
<1>3. call \in PanelRequests /\ \A q : Waits(call, q) <=> q = p
  <2>1. call \in PanelRequests /\ call.live /\ call.panel = p
    BY <1>1 DEF PanelRequests
  <2> QED
    BY <2>1, FreeFacts DEF Waits
<1> HIDE DEF call
<1>4. /\ pageCall'[c] = call /\ pageCall[c] = Pages!Free /\ p \notin busyPanels /\ busyPanels' = busyPanels \cup {p}
      /\ \A d \in PageCalls : d # c => pageCall'[d] = pageCall[d]
      /\ pageCall' \in [PageCalls -> PanelRequests \cup {Pages!Free}] /\ place' = place
  BY <1>2, <1>3 DEF Pages!Run, PanelInv, call
<1> QED
  BY <1>1, <1>3, <1>4, FreeFacts DEF PanelInv

\* The last answer enables it.
LEMMA FinishedStep ==
    ASSUME PanelInv, NEW c \in PageCalls, pageCall[c] # Pages!Free, Pages!Finished(c), place' = place
    PROVE  PanelInv'
<1>1. pageCall[c] \in PanelRequests /\ pageCall'[c] = Pages!Free /\ \A d \in PageCalls : d # c => pageCall'[d] = pageCall[d]
  BY DEF PanelInv, Pages!Finished
<1>2. pageCall' \in [PageCalls -> PanelRequests \cup {Pages!Free}]
  BY DEF PanelInv, Pages!Finished
<1>3. PICK q \in Panels : q = pageCall[c].panel /\ \A p : Waits(pageCall[c], p) <=> pageCall[c].live /\ p = q
  BY <1>1, FreeFacts DEF PanelRequests, Waits
<1>4. CASE pageCall[c].live
  <2>1. busyPanels' = busyPanels \ {q} /\ Waits(pageCall[c], q)
    BY <1>3, <1>4 DEF Pages!Finished
  <2> QED
    BY <1>1, <1>2, <1>3, <2>1, FreeFacts DEF PanelInv
<1>5. CASE ~pageCall[c].live
  <2>1. busyPanels' = busyPanels /\ \A p : ~Waits(pageCall[c], p)
    BY <1>3, <1>5 DEF Pages!Finished
  <2> QED
    BY <1>1, <1>2, <2>1, FreeFacts DEF PanelInv
<1> QED
  BY <1>4, <1>5

\* An answer before the last leaves it disabled.
LEMMA AnsweredStep ==
    ASSUME PanelInv, MaxTargets \in Nat \ {0}, NEW c \in PageCalls, Pages!Answered(c)
    PROVE  PanelInv'
<1>1. pageCall[c] # Pages!Free /\ place' = place
  BY DEF Pages!Answered
<1>2. CASE Pages!Finished(c)
  BY <1>1, <1>2, FinishedStep
<1>3. CASE /\ pageCall[c].left > 1
           /\ pageCall' = [pageCall EXCEPT ![c].left = @ - 1]
           /\ UNCHANGED busyPanels
  <2> DEFINE call == [pageCall[c] EXCEPT !.left = pageCall[c].left - 1]
  <2>1. pageCall[c] \in PanelRequests /\ pageCall[c].left - 1 \in 1..MaxTargets
    <3>1. pageCall[c] \in PanelRequests
      BY <1>1 DEF PanelInv
    <3>2. pageCall[c].left \in 1..MaxTargets
      BY <3>1 DEF PanelRequests
    <3> QED
      BY <1>3, <3>1, <3>2
  <2>2. call \in PanelRequests /\ call.live = pageCall[c].live /\ call.panel = pageCall[c].panel
    BY <2>1 DEF PanelRequests
  <2>3. pageCall' = [pageCall EXCEPT ![c] = call]
    BY <1>3
  <2> HIDE DEF call
  <2>4. /\ pageCall' \in [PageCalls -> PanelRequests \cup {Pages!Free}]
        /\ \A d \in PageCalls, p \in Panels : Waits(pageCall'[d], p) <=> Waits(pageCall[d], p)
    BY <1>1, <2>2, <2>3, FreeFacts DEF PanelInv, Waits
  <2>5. busyPanels \subseteq Panels /\ busyPanels' = busyPanels
    BY <1>3, MountedPanels DEF PanelInv
  <2> QED
    BY <1>1, <2>4, <2>5 DEF PanelInv
<1> QED
  BY <1>2, <1>3 DEF Pages!Answered

\* Every step of the panels keeps the invariant.
LEMMA PanelStep == MaxTargets \in Nat \ {0} /\ PanelInv /\ Pages!PanelsNext => PanelInv'
<1> SUFFICES ASSUME MaxTargets \in Nat \ {0}, PanelInv, Pages!PanelsNext PROVE PanelInv'
  OBVIOUS
<1>1. ASSUME NEW t \in Pages!LocalTabs \cup {"away"}, Pages!SwitchTab(t) PROVE PanelInv'
  <2>1. [place EXCEPT !.tab = t, !.drawer = FALSE, !.dialog = "none",
                      !.workbench = IF "away" \in {t, place.tab} THEN FALSE ELSE @] \in Places
    BY DEF PanelInv, Places
  <2> QED
    BY <1>1, <2>1, GoToStep DEF Pages!SwitchTab
<1>2. ASSUME NEW k \in Pages!KitDialogs \cup {"none"}, Pages!KitDialog(k) PROVE PanelInv'
  <2>1. [place EXCEPT !.dialog = k] \in Places
    BY DEF PanelInv, Places
  <2> QED
    BY <1>2, <2>1, GoToStep DEF Pages!KitDialog
<1>3. CASE Pages!ToggleWorkbench
  <2>1. [place EXCEPT !.workbench = ~@] \in Places
    BY DEF PanelInv, Places
  <2> QED
    BY <1>3, <2>1, GoToStep DEF Pages!ToggleWorkbench
<1>4. CASE Pages!ToggleDrawer
  <2>1. [place EXCEPT !.drawer = ~@] \in Places
    BY DEF PanelInv, Places
  <2> QED
    BY <1>4, <2>1, GoToStep DEF Pages!ToggleDrawer
<1>5. CASE Pages!ShowImportPanel
  <2>1. place' \in Places /\ Pages!Mounted(place) \subseteq Pages!Mounted(place')
    <3>1. place' = [place EXCEPT !.workbench = TRUE] /\ place.tab = "toolkits" /\ place \in Places
      BY <1>5 DEF Pages!ShowImportPanel, PanelInv
    <3>2. /\ place' \in Places /\ place'.tab = place.tab /\ place'.dialog = place.dialog
          /\ place'.drawer = place.drawer /\ place'.workbench
      BY <3>1 DEF Places
    <3> QED
      BY <3>1, <3>2 DEF Pages!Mounted
  <2> QED
    BY <1>5, <2>1 DEF Pages!ShowImportPanel, PanelInv
<1>6. ASSUME NEW c \in PageCalls, Pages!Answered(c) \/ \E p \in Pages!Mounted(place) : Pages!Run(c, p)
      PROVE  PanelInv'
  BY <1>6, AnsweredStep, RunStep
<1> QED
  BY <1>1, <1>2, <1>3, <1>4, <1>5, <1>6 DEF Pages!PanelsNext

\* It says that every disabled button is waited for.
LEMMA PanelsSettled == PanelInv => Pages!PanelsSettle
<1> SUFFICES ASSUME PanelInv PROVE Pages!PanelsSettle
  OBVIOUS
<1>1. \A c \in PageCalls : pageCall[c] # Pages!Free => pageCall[c].panel \in Panels
  BY DEF PanelInv, PanelRequests
<1> QED
  BY <1>1 DEF PanelInv, Pages!PanelsSettle, Waits

\* The panels and the wizard.
PagesInv == PanelInv /\ WizardInv

\* At first the page is away, and no wizard is open.
LEMMA PagesInvInit == Pages!PagesInit => PagesInv
<1> SUFFICES ASSUME Pages!PagesInit PROVE PagesInv
  OBVIOUS
<1>1. place \in Places
  BY DEF Pages!PagesInit, Places, Pages!LocalTabs
<1>2. PanelInv
  BY <1>1, FreeFacts DEF Pages!PagesInit, PanelInv
<1>3. WizardInv
  BY DEF Pages!PagesInit, WizardInv
<1> QED
  BY <1>2, <1>3 DEF PagesInv

\* The wizard leaves the panels alone.
LEMMA PanelStutter == PanelInv /\ UNCHANGED <<place, busyPanels, pageCall>> => PanelInv'
BY DEF PanelInv
\* The panels leave the wizard alone.
LEMMA WizardStutter == WizardInv /\ UNCHANGED <<draft, inspections, submitting, sent>> => WizardInv'
BY DEF WizardInv

\* The invariant carries the types.
LEMMA PagesTypes == PagesInv => Pages!PagesTypeOK
<1> SUFFICES ASSUME PagesInv PROVE Pages!PagesTypeOK
  OBVIOUS
<1>1. place.tab \in Pages!LocalTabs \cup {"away"} /\ place.dialog \in Pages!KitDialogs \cup {"none"}
  BY DEF PagesInv, PanelInv, Places
<1>2. \A c \in PageCalls : pageCall[c] = Pages!Free \/ pageCall[c].left \in 1..MaxTargets
  BY DEF PagesInv, PanelInv, PanelRequests
<1>3. draft # None => draft.step \in 0..3 /\ draft.file \in Files \cup {None}
  BY DEF PagesInv, WizardInv, DraftOK
<1>4. \A i \in inspections : i.file \in Files /\ i.kind \in Pages!ExtensionKinds
  BY DEF PagesInv, WizardInv
<1> QED
  BY <1>1, <1>2, <1>3, <1>4 DEF Pages!PagesTypeOK, PagesInv, PanelInv, WizardInv

\* What the wizard shows, and sends, is an inspection of its file.
LEMMA InspectionsFollow == WizardInv => Pages!InspectionIsOfTheFile
BY DEF WizardInv, DraftOK, Pages!InspectionIsOfTheFile

------------------------------------------------------------------------------
(* The window                                                                  *)

ViewButtons == {"search", "action", "settings", "password", "publish", "update", "recovery"}
\* What can spin or be disabled, the values of the view, and the requests of the window.
Spinners == View!Lists \cup ViewButtons
Views ==
    [tab : {"agent", "community", "search", "local"}, boot : {"idle", "loading", "ready", "error"},
     fault : View!Faults \cup {"none"}, user : View!People \cup {None},
     modal : {"none", "login", "account", "password", "settings", "update", "publish", "submissions", "notifications"},
     chosen : BOOLEAN, detail : {None, "loading", "ready", "error"},
     update : {None, "available", "verified", "cancelled", "launched"}, spinning : SUBSET Spinners]
WindowOps == {"none", "clear", "rebuild", "retry", "login", "logout", "password", "search", "detail", "action",
        "settings", "check", "download", "cancel", "install", "publish", "withdraw"}
Boots == [op : {"boot"}, stage : {"startup", "session", "me", "autoLogin", "nobody", "sync", "loads"},
          waits : SUBSET View!BootLists]
WindowRequests == [op : WindowOps] \cup Boots

\* The types the steps keep.
WindowTypes ==
    /\ window \in Views
    /\ loads \in [View!Lists -> 0..MaxLoads]
    /\ windowCall \in [WindowCalls -> WindowRequests]
    /\ reloading \in BOOLEAN

\* Some request at one of these operations is under way.
Pending(ops) == \E c \in WindowCalls : windowCall[c].op \in ops
\* A start-up waits for the list.
Awaited(f) == \E c \in WindowCalls : windowCall[c].op = "boot" /\ f \in windowCall[c].waits

(* What is waited for is under way. A start-up that has found its user has  *)
(* left the window ready, so that a window that is loading again waits for  *)
(* something else.                                                          *)
Served ==
    /\ \A f \in window.spinning \cap View!Lists : loads[f] > 0 \/ Awaited(f)
    /\ \A f \in window.spinning \ View!Lists : Pending(View!SpinnerOps(f))
    /\ window.boot = "loading" => Pending({"boot", "login", "retry"})
    /\ window.detail = "loading" => Pending({"detail"})
    /\ window.boot = "idle" => ~Pending({"boot"})
    /\ \A c \in WindowCalls : windowCall[c].op = "boot" =>
           /\ windowCall[c].stage # "loads" => windowCall[c].waits = {}
           /\ windowCall[c].stage \in {"sync", "loads"} /\ window.boot = "loading" => Pending({"login", "retry"})

\* The inductive invariant. A window about to be loaded anew waits for nothing else.
WindowInv == WindowTypes /\ (reloading \/ Served)

\* A spinner that stays, and one of a list that is being loaded.
Stays(f) == f \in window.spinning /\ (f \in View!Lists => loads'[f] >= loads[f])
\* A list that is being loaded.
Comes(f) == f \in View!Lists /\ loads'[f] > 0
\* The lists a start-up waits for.
Waited(call) == {f \in View!Lists : call.op = "boot" /\ f \in call.waits}

\* A request is a start-up or another operation.
LEMMA CallFacts ==
    ASSUME WindowTypes, NEW c \in WindowCalls
    PROVE  windowCall[c] \in WindowRequests /\ (windowCall[c].op # "boot" => windowCall[c] \in [op : WindowOps])
                /\ (windowCall[c].op = "boot" => windowCall[c] \in Boots)
<1>1. windowCall[c] \in WindowRequests
  BY DEF WindowTypes
<1>2. \A r \in [op : WindowOps] : r.op # "boot"
  BY DEF WindowOps
<1>3. \A r \in Boots : r.op = "boot"
  BY DEF Boots
<1> QED
  BY <1>1, <1>2, <1>3 DEF WindowRequests

\* A request other than the start-up is sent, or answered: c was at op and is at next.
LEMMA RequestStep ==
    ASSUME WindowInv, WindowTypes', NEW c \in WindowCalls, NEW op \in WindowOps, NEW next \in WindowOps,
           windowCall[c].op = op, windowCall' = [windowCall EXCEPT ![c] = [op |-> next]],
           reloading' = reloading,
           \A f \in window'.spinning : \/ Stays(f) /\ op \notin View!SpinnerOps(f)
                                       \/ Comes(f)
                                       \/ f \notin View!Lists /\ next \in View!SpinnerOps(f),
           window'.boot = "loading" => \/ window.boot = "loading" /\ op \notin {"login", "retry"}
                                       \/ next \in {"login", "retry"},
           window'.boot = "idle" => window.boot = "idle",
           window'.detail = "loading" => \/ window.detail = "loading" /\ op # "detail"
                                         \/ next = "detail"
    PROVE  WindowInv'
<1>1. CASE reloading
  BY <1>1 DEF WindowInv
<1>2. CASE ~reloading
  <2> USE DEF Pending, Awaited
  <2>1. Served
    BY <1>2 DEF WindowInv
  <2>2. windowCall'[c].op = next /\ \A d \in WindowCalls \ {c} : windowCall'[d] = windowCall[d]
    BY DEF WindowInv, WindowTypes
  <2>3. op # "boot" /\ next # "boot"
    BY DEF WindowOps
  <2>4. \A f \in window'.spinning \cap View!Lists : loads'[f] > 0 \/ Awaited(f)'
    <3> SUFFICES ASSUME NEW f \in window'.spinning \cap View!Lists PROVE loads'[f] > 0 \/ Awaited(f)'
      OBVIOUS
    <3>1. CASE Comes(f)
      BY <3>1 DEF Comes
    <3>2. CASE Stays(f)
      <4>1. loads'[f] >= loads[f] /\ loads[f] \in Nat /\ loads'[f] \in Nat
        BY <3>2 DEF Stays, WindowTypes, WindowInv
      <4>2. CASE loads[f] > 0
        BY <4>1, <4>2
      <4>3. CASE Awaited(f)
        BY <4>3, <2>2, <2>3
      <4> QED
        BY <3>2, <4>2, <4>3, <2>1 DEF Served, Stays
    <3> QED
      BY <3>1, <3>2
  <2>5. \A f \in window'.spinning \ View!Lists : Pending(View!SpinnerOps(f))'
    <3> SUFFICES ASSUME NEW f \in window'.spinning \ View!Lists
                 PROVE  \E d \in WindowCalls : windowCall'[d].op \in View!SpinnerOps(f)
      BY DEF View!SpinnerOps
    <3>1. CASE next \in View!SpinnerOps(f)
      BY <3>1, <2>2
    <3>2. CASE Stays(f) /\ op \notin View!SpinnerOps(f)
      BY <3>2, <2>1, <2>2 DEF Served, Stays
    <3> QED
      BY <3>1, <3>2 DEF Comes
  <2>6. window'.boot = "loading" => Pending({"boot", "login", "retry"})'
    BY <2>1, <2>2, <2>3 DEF Served
  <2>7. window'.detail = "loading" => Pending({"detail"})'
    BY <2>1, <2>2 DEF Served
  <2>8. window'.boot = "idle" => ~Pending({"boot"})'
    BY <2>1, <2>2, <2>3 DEF Served
  <2>9. ASSUME NEW d \in WindowCalls, windowCall'[d].op = "boot"
        PROVE  /\ windowCall'[d].stage # "loads" => windowCall'[d].waits = {}
               /\ windowCall'[d].stage \in {"sync", "loads"} /\ window'.boot = "loading" => Pending({"login", "retry"})'
    <3>1. d # c /\ windowCall'[d] = windowCall[d]
      BY <2>2, <2>3, <2>9
    <3>2. window'.boot = "loading" /\ next \in {"login", "retry"} => Pending({"login", "retry"})'
      BY <2>2
    <3>3. windowCall[d].stage \in {"sync", "loads"} /\ window.boot = "loading" /\ op \notin {"login", "retry"}
             => Pending({"login", "retry"})'
      BY <2>1, <2>2, <2>9, <3>1 DEF Served
    <3> QED
      BY <2>1, <2>9, <3>1, <3>2, <3>3 DEF Served
  <2>10. Served'
    BY <2>4, <2>5, <2>6, <2>7, <2>8, <2>9 DEF Served
  <2> QED
    BY <2>10 DEF WindowInv
<1> QED
  BY <1>1, <1>2 DEF WindowInv, WindowTypes

\* A step of the screen: no request is sent or answered.
LEMMA ScreenStep ==
    ASSUME WindowInv, WindowTypes', windowCall' = windowCall, reloading' = reloading,
           \A f \in window'.spinning : Stays(f) \/ Comes(f),
           window'.boot = window.boot, window'.detail \in {None, window.detail}, None # "loading"
    PROVE  WindowInv'
<1>1. CASE reloading
  BY <1>1 DEF WindowInv
<1>2. CASE ~reloading
  <2>1. Served
    BY <1>2 DEF WindowInv
  <2>2. \A f \in window'.spinning \cap View!Lists : loads'[f] > 0 \/ Awaited(f)'
    <3> SUFFICES ASSUME NEW f \in window'.spinning \cap View!Lists PROVE loads'[f] > 0 \/ Awaited(f)'
      OBVIOUS
    <3>1. loads[f] \in Nat /\ loads'[f] \in Nat
      BY DEF WindowTypes, WindowInv
    <3> QED
      BY <2>1, <3>1 DEF Served, Stays, Comes, Awaited
  <2>3. \A f \in window'.spinning \ View!Lists : Pending(View!SpinnerOps(f))'
    BY <2>1 DEF Served, Stays, Comes, Pending, View!SpinnerOps
  <2> QED
    BY <2>1, <2>2, <2>3 DEF Served, Pending, WindowInv
<1> QED
  BY <1>1, <1>2 DEF WindowInv, WindowTypes

\* Setting and clearing spinners changes nothing else of the view.
LEMMA SpinFacts ==
    ASSUME NEW w \in Views, NEW flags \in SUBSET Spinners
    PROVE  /\ View!Spin(w, flags) \in Views /\ View!Still(w, flags) \in Views
           /\ View!Spin(w, flags).spinning = w.spinning \cup flags
           /\ View!Still(w, flags).spinning = w.spinning \ flags
           /\ View!Spin(w, flags).boot = w.boot /\ View!Still(w, flags).boot = w.boot
           /\ View!Spin(w, flags).detail = w.detail /\ View!Still(w, flags).detail = w.detail
BY DEF Views, View!Spin, View!Still

\* The lists that are loaded are loading, and other spinners are as they were.
LEMMA ThenLoadFacts ==
    ASSUME WindowTypes, MaxLoads \in Nat, NEW w \in Views, NEW lists \in SUBSET View!Lists, View!ThenLoad(w, lists)
    PROVE  /\ window' \in Views /\ loads' \in [View!Lists -> 0..MaxLoads]
           /\ window'.boot = w.boot /\ window'.detail = w.detail
           /\ \A f \in window'.spinning : f \in w.spinning \/ Comes(f)
           /\ \A f \in View!Lists : loads'[f] >= loads[f]
<1>1. loads' \in [View!Lists -> 0..MaxLoads] /\ \A f \in View!Lists : loads'[f] >= loads[f]
  BY DEF WindowTypes, View!ThenLoad
<1>2. lists \ {"notifications"} \in SUBSET Spinners
  BY DEF Spinners
<1>3. /\ window' \in Views /\ window'.boot = w.boot /\ window'.detail = w.detail
      /\ window'.spinning = w.spinning \cup (lists \ {"notifications"})
  BY <1>2, SpinFacts DEF View!ThenLoad
<1>4. \A f \in lists : Comes(f)
  BY DEF View!ThenLoad, Comes, WindowTypes
<1> QED
  BY <1>1, <1>3, <1>4

\* A request is sent with a click that sets spinners of its own.
LEMMA SendStep ==
    ASSUME WindowInv, NEW c \in WindowCalls, NEW op \in WindowOps, NEW w \in Views, View!Send(c, op, w),
           \A f \in w.spinning : f \in window.spinning \/ op \in View!SpinnerOps(f),
           w.boot # window.boot => w.boot = "loading" /\ op \in {"login", "retry"},
           w.detail # window.detail => op = "detail"
    PROVE  WindowInv'
<1>1. windowCall[c].op = "none" /\ "none" \in WindowOps
  BY DEF View!Send, View!Idle, WindowOps
<1>2. /\ windowCall' = [windowCall EXCEPT ![c] = [op |-> op]] /\ window' = w
      /\ loads' = loads /\ reloading' = reloading
  BY DEF View!Send
<1>3. WindowTypes'
  BY <1>2 DEF WindowInv, WindowTypes, WindowRequests
<1>4. \A f \in window'.spinning : f \in window.spinning => Stays(f)
  BY <1>2 DEF Stays, WindowInv, WindowTypes
<1>5. \A f : "none" \notin View!SpinnerOps(f) /\ (f \in View!Lists => op \notin View!SpinnerOps(f))
  BY DEF View!SpinnerOps, View!Lists
<1> QED
  BY <1>1, <1>2, <1>3, <1>4, <1>5, RequestStep

\* A request is answered, and ends its own spinners; the answer may load lists.
LEMMA AnswerStep ==
    ASSUME WindowInv, MaxLoads \in Nat, NEW c \in WindowCalls, NEW op \in WindowOps, windowCall[c].op = op,
           windowCall' = [windowCall EXCEPT ![c] = View!Idle], reloading' = reloading,
           NEW w \in Views,
           (window' = w /\ loads' = loads) \/ \E lists \in SUBSET View!Lists : View!ThenLoad(w, lists),
           \A f \in w.spinning : f \in window.spinning /\ op \notin View!SpinnerOps(f),
           (w.boot = window.boot /\ op \notin {"login", "retry"}) \/ w.boot \in {"ready", "error"},
           (w.detail = window.detail /\ op # "detail") \/ w.detail \in {"ready", "error"}
    PROVE  WindowInv'
<1>1. View!Idle = [op |-> "none"] /\ "none" \in WindowOps
  BY DEF View!Idle, WindowOps
<1>2. /\ window' \in Views /\ loads' \in [View!Lists -> 0..MaxLoads]
      /\ window'.boot = w.boot /\ window'.detail = w.detail
      /\ \A f \in window'.spinning : f \in w.spinning \/ Comes(f)
      /\ \A f \in View!Lists : loads'[f] >= loads[f]
  <2>1. CASE window' = w /\ loads' = loads
    BY <2>1 DEF WindowInv, WindowTypes
  <2>2. CASE \E lists \in SUBSET View!Lists : View!ThenLoad(w, lists)
    BY <2>2, ThenLoadFacts DEF WindowInv
  <2> QED
    BY <2>1, <2>2
<1>3. WindowTypes'
  BY <1>1, <1>2 DEF WindowInv, WindowTypes, WindowRequests
<1>4. \A f \in window'.spinning : f \in window.spinning => Stays(f)
  BY <1>2 DEF Stays
<1> QED
  BY <1>1, <1>2, <1>3, <1>4, RequestStep

(* The start-up: each request is at most one step further.                  *)
LEMMA BootStep ==
    ASSUME WindowInv, WindowTypes', NEW c \in WindowCalls, windowCall[c].op \in {"none", "boot"},
           NEW next \in {[op |-> "none"]} \cup Boots,
           windowCall' = [windowCall EXCEPT ![c] = next], reloading' = reloading,
           \A f \in window'.spinning :
               \/ Stays(f) /\ (windowCall[c].op = "boot" => f \notin windowCall[c].waits)
               \/ Comes(f) \/ f \in Waited(next),
           next.op = "boot" /\ next.stage # "loads" => next.waits = {},
           window'.detail = window.detail,
           window'.boot = "idle" => window.boot = "idle" /\ next.op # "boot",
           \/ window'.boot \in {"ready", "error", "idle"}
           \/ window.boot = "idle" /\ next.op = "boot" /\ next.stage \notin {"sync", "loads"}
           \/ /\ window'.boot = window.boot /\ windowCall[c].op = "boot"
              /\ \/ next.op = "boot" /\ next.stage \notin {"sync", "loads"}
                 \/ windowCall[c].stage \in {"sync", "loads"}
    PROVE  WindowInv'
<1>1. CASE reloading
  BY <1>1 DEF WindowInv
<1>2. CASE ~reloading
  <2>1. Served
    BY <1>2 DEF WindowInv
  <2>2. windowCall'[c] = next /\ \A d \in WindowCalls \ {c} : windowCall'[d] = windowCall[d]
    BY DEF WindowInv, WindowTypes
  <2>3. next.op \in {"none", "boot"}
    BY DEF Boots
  <2>4. ASSUME NEW ops, Pending(ops), "none" \notin ops, "boot" \notin ops PROVE Pending(ops)'
    BY <2>2, <2>4 DEF Pending
  <2>5. \A f \in window'.spinning \cap View!Lists : loads'[f] > 0 \/ Awaited(f)'
    <3> SUFFICES ASSUME NEW f \in window'.spinning \cap View!Lists PROVE loads'[f] > 0 \/ Awaited(f)'
      OBVIOUS
    <3>1. CASE f \in Waited(next)
      BY <3>1, <2>2 DEF Awaited, Waited
    <3>2. CASE Stays(f) /\ (windowCall[c].op = "boot" => f \notin windowCall[c].waits)
      <4>1. loads'[f] >= loads[f] /\ loads[f] \in Nat /\ loads'[f] \in Nat
        BY <3>2 DEF Stays, WindowTypes, WindowInv
      <4>2. CASE Awaited(f)
        BY <4>2, <3>2, <2>2 DEF Awaited
      <4> QED
        BY <3>2, <4>1, <4>2, <2>1 DEF Served, Stays
    <3> QED
      BY <3>1, <3>2 DEF Comes
  <2>6. \A f \in window'.spinning \ View!Lists : Pending(View!SpinnerOps(f))'
    <3> SUFFICES ASSUME NEW f \in window'.spinning \ View!Lists
                 PROVE  \E d \in WindowCalls : windowCall'[d].op \in View!SpinnerOps(f)
      BY DEF Pending, View!SpinnerOps
    <3>1. f \in window.spinning
      BY DEF Stays, Comes, Waited
    <3>2. PICK d \in WindowCalls : windowCall[d].op \in View!SpinnerOps(f)
      BY <2>1, <3>1 DEF Served, Pending
    <3>3. d # c
      BY <3>2 DEF View!SpinnerOps
    <3> QED
      BY <2>2, <3>2, <3>3
  <2>7. window'.boot = "loading" => Pending({"boot", "login", "retry"})'
    <3>1. CASE next.op = "boot"
      BY <3>1, <2>2 DEF Pending
    <3>2. CASE next.op # "boot" /\ window'.boot = "loading"
      <4>1. Pending({"login", "retry"})
        BY <3>2, <2>1 DEF Served
      <4>2. Pending({"login", "retry"})'
        BY <4>1, <2>4
      <4> QED
        BY <4>2 DEF Pending
    <3> QED
      BY <3>1, <3>2
  <2>8. window'.detail = "loading" => Pending({"detail"})'
    BY <2>1, <2>4 DEF Served
  <2>9. window'.boot = "idle" => ~Pending({"boot"})'
    BY <2>1, <2>2 DEF Served, Pending
  <2>10. ASSUME NEW d \in WindowCalls, windowCall'[d].op = "boot"
         PROVE  /\ windowCall'[d].stage # "loads" => windowCall'[d].waits = {}
                /\ windowCall'[d].stage \in {"sync", "loads"} /\ window'.boot = "loading" => Pending({"login", "retry"})'
    <3>1. CASE d = c
      <4>1. windowCall'[d].stage \in {"sync", "loads"} /\ window'.boot = "loading" => Pending({"login", "retry"})
        BY <2>1, <2>2, <2>10, <3>1 DEF Served
      <4> QED
        BY <2>2, <2>4, <2>10, <3>1, <4>1
    <3>2. CASE d # c
      <4>1. window.boot # "idle"
        BY <2>1, <2>2, <2>10, <3>2 DEF Served, Pending
      <4>2. windowCall[d].stage \in {"sync", "loads"} /\ window'.boot = "loading" => Pending({"login", "retry"})
        BY <2>1, <2>2, <2>10, <3>2, <4>1 DEF Served
      <4> QED
        BY <2>1, <2>2, <2>4, <2>10, <3>2, <4>2 DEF Served
    <3> QED
      BY <3>1, <3>2
  <2>11. Served'
    BY <2>5, <2>6, <2>7, <2>8, <2>9, <2>10 DEF Served
  <2> QED
    BY <2>11 DEF WindowInv
<1> QED
  BY <1>1, <1>2 DEF WindowInv, WindowTypes

\* The start-up as it goes on, or is over: the window is as it was, or ready, or shows an error.
LEMMA BootGoesOn ==
    ASSUME WindowInv, NEW c \in WindowCalls, windowCall[c].op = "boot", windowCall[c].stage # "loads",
           NEW next \in {[op |-> "none"]} \cup Boots, next.op = "boot" => next.stage # "loads" /\ next.waits = {},
           windowCall' = [windowCall EXCEPT ![c] = next], reloading' = reloading, loads' = loads,
           window' \in Views, window'.spinning \subseteq window.spinning, window'.detail = window.detail,
           \/ window'.boot \in {"ready", "error"}
           \/ window'.boot = window.boot /\ next.op = "boot" /\ next.stage # "sync"
    PROVE  WindowInv'
<1>1. [op |-> "none"] \in WindowRequests
  BY DEF WindowRequests, WindowOps
<1>2. WindowTypes'
  BY <1>1 DEF WindowInv, WindowTypes, WindowRequests
<1>3. \A f \in window'.spinning : Stays(f)
  BY DEF Stays, WindowInv, WindowTypes
<1>4. CASE reloading
  BY <1>2, <1>4 DEF WindowInv
<1>5. CASE ~reloading
  <2>1. windowCall[c].waits = {}
    BY <1>5 DEF WindowInv, Served
  <2>2. window'.boot = "idle" => FALSE
    BY <1>5 DEF WindowInv, Served, Pending
  <2> QED
    BY <1>2, <1>3, <2>1, <2>2, BootStep
<1> QED
  BY <1>4, <1>5

\* A start-up that fails shows an error, and waits for nothing.
LEMMA BootFailsStep ==
    ASSUME WindowInv, NEW c \in WindowCalls, windowCall[c].op = "boot", windowCall[c].stage # "loads",
           View!BootFails(c, View!Faults), loads' = loads
    PROVE  WindowInv'
<1>1. PICK f \in View!Faults : View!End(c, "boot", [window EXCEPT !.boot = "error", !.fault = f, !.modal = "login"])
  BY DEF View!BootFails
<1>2. /\ window' \in Views /\ window'.boot = "error" /\ window'.spinning = window.spinning
      /\ window'.detail = window.detail
  BY <1>1 DEF View!End, WindowInv, WindowTypes, Views, View!Faults
<1>3. windowCall' = [windowCall EXCEPT ![c] = [op |-> "none"]] /\ reloading' = reloading
  BY <1>1 DEF View!End, View!Idle
<1> QED
  BY <1>2, <1>3, BootGoesOn

\* A start-up that is over, or waits for its lists, leaves the window ready.
LEMMA BootReadyFacts ==
    ASSUME WindowTypes, NEW h \in BOOLEAN, NEW u \in View!People \cup {None}, NEW f \in View!Faults \cup {"none"},
           NEW w \in View!BootReady(h, u, f)
    PROVE  w \in Views /\ w.boot = "ready" /\ w.spinning = window.spinning /\ w.detail = window.detail
<1>1. PICK update \in {window.update, "available", "verified"} :
          w = [window EXCEPT !.boot = "ready", !.fault = f, !.user = u,
                             !.update = update, !.modal = IF h THEN @ ELSE "login"]
  BY DEF View!BootReady
<1> DEFINE modal == IF h THEN window.modal ELSE "login"
<1>2. w = [window EXCEPT !.boot = "ready", !.fault = f, !.user = u, !.update = update, !.modal = modal]
  BY <1>1
<1>3. /\ modal \in {"none", "login", "account", "password", "settings", "update", "publish", "submissions", "notifications"}
      /\ update \in {None, "available", "verified", "cancelled", "launched"}
  BY DEF WindowTypes, Views
<1> HIDE DEF modal
<1> QED
  BY <1>2, <1>3 DEF WindowTypes, Views

\* A start-up begins in a window in which none does.
LEMMA BeginBootStep ==
    ASSUME WindowInv, NEW c \in WindowCalls, View!BeginBoot(c)
    PROVE  WindowInv'
<1> DEFINE next == [op |-> "boot", stage |-> "startup", waits |-> {}]
<1>1. next \in Boots /\ next.op = "boot" /\ next.stage = "startup" /\ next.waits = {}
  BY DEF Boots
<1>2. /\ windowCall' = [windowCall EXCEPT ![c] = next] /\ windowCall[c].op = "none"
      /\ window.boot = "idle" /\ loads' = loads /\ reloading' = reloading
  BY DEF View!BeginBoot, View!Idle
<1>3. /\ window' \in Views /\ window'.boot = "loading" /\ window'.spinning = window.spinning
      /\ window'.detail = window.detail
  BY DEF View!BeginBoot, WindowInv, WindowTypes, Views
<1> HIDE DEF next
<1>4. WindowTypes'
  BY <1>1, <1>2, <1>3 DEF WindowInv, WindowTypes, WindowRequests
<1>5. \A f \in window'.spinning : Stays(f)
  BY <1>2, <1>3 DEF Stays, WindowInv, WindowTypes
<1> QED
  BY <1>1, <1>2, <1>3, <1>4, <1>5, BootStep

\* A start-up at its next stage.
LEMMA BootToFacts ==
    ASSUME NEW c \in WindowCalls, NEW stage \in {"startup", "session", "me", "autoLogin", "nobody", "sync", "loads"},
           NEW waits \in SUBSET View!BootLists, View!BootTo(c, stage, waits)
    PROVE  \E next \in Boots : /\ next.op = "boot" /\ next.stage = stage /\ next.waits = waits
                               /\ windowCall' = [windowCall EXCEPT ![c] = next]
<1> DEFINE next == [op |-> "boot", stage |-> stage, waits |-> waits]
<1>1. next \in Boots /\ next.op = "boot" /\ next.stage = stage /\ next.waits = waits
  BY DEF Boots
<1>2. windowCall' = [windowCall EXCEPT ![c] = next]
  BY DEF View!BootTo
<1> QED
  BY <1>1, <1>2

\* Waiting for the services and for the session.
LEMMA BootWaits ==
    ASSUME WindowInv, NEW c \in WindowCalls, View!WaitForStartupReady(c) \/ View!BootSession(c)
    PROVE  WindowInv'
<1>1. windowCall[c].op = "boot" /\ windowCall[c].stage # "loads" /\ loads' = loads
  BY DEF View!WaitForStartupReady, View!BootSession, View!BootAt
<1>2. CASE View!BootFails(c, View!Faults)
  BY <1>1, <1>2, BootFailsStep
<1>3. CASE ~View!BootFails(c, View!Faults)
  <2>1. PICK stage \in {"session", "me", "autoLogin", "nobody"} :
            View!BootTo(c, stage, {}) /\ window' = window /\ reloading' = reloading
    BY <1>3 DEF View!WaitForStartupReady, View!BootSession
  <2>2. PICK next \in Boots : /\ next.op = "boot" /\ next.stage = stage /\ next.waits = {}
                             /\ windowCall' = [windowCall EXCEPT ![c] = next]
    BY <2>1, BootToFacts
  <2> QED
    BY <1>1, <2>1, <2>2, BootGoesOn DEF WindowInv, WindowTypes
<1> QED
  BY <1>2, <1>3

\* The start-up ends without a user; the scan begins, or nothing does.
LEMMA BootUserStep ==
    ASSUME WindowInv, MaxLoads \in Nat, NEW c \in WindowCalls, View!BootUser(c)
    PROVE  WindowInv'
<1>1. windowCall[c].op = "boot" /\ windowCall[c].stage \in {"me", "autoLogin", "nobody"}
  BY DEF View!BootUser, View!BootAt
<1>2. CASE /\ \E u \in View!People : window' \in View!BootReady(TRUE, u, "none")
           /\ View!BootTo(c, "sync", {})
           /\ UNCHANGED <<loads, reloading>>
  <2>1. PICK u \in View!People : window' \in View!BootReady(TRUE, u, "none")
    BY <1>2
  <2>2. window' \in Views /\ window'.boot = "ready" /\ window'.spinning = window.spinning /\ window'.detail = window.detail
    BY <2>1, BootReadyFacts DEF WindowInv
  <2>3. PICK next \in Boots : /\ next.op = "boot" /\ next.stage = "sync" /\ next.waits = {}
                             /\ windowCall' = [windowCall EXCEPT ![c] = next]
    BY <1>2, BootToFacts
  <2> QED
    BY <1>1, <1>2, <2>2, <2>3, BootGoesOn
<1>3. CASE /\ \E f \in {"none", "recoverable"} :
                 \E w \in View!BootReady(TRUE, None, f) : View!ThenLoad(w, {"scan"})
           /\ windowCall' = [windowCall EXCEPT ![c] = View!Idle]
           /\ UNCHANGED reloading
  <2>1. PICK f \in {"none", "recoverable"} :
                 \E w \in View!BootReady(TRUE, None, f) : View!ThenLoad(w, {"scan"})
    BY <1>3
  <2>2. PICK w \in View!BootReady(TRUE, None, f) : View!ThenLoad(w, {"scan"})
    BY <2>1
  <2>3. w \in Views /\ w.boot = "ready" /\ w.spinning = window.spinning /\ w.detail = window.detail
    BY BootReadyFacts DEF WindowInv, View!Faults
  <2>4. {"scan"} \in SUBSET View!Lists
    BY DEF View!Lists
  <2>5. /\ window' \in Views /\ loads' \in [View!Lists -> 0..MaxLoads]
        /\ window'.boot = "ready" /\ window'.detail = window.detail
        /\ \A g \in window'.spinning : g \in window.spinning \/ Comes(g)
        /\ \A g \in View!Lists : loads'[g] >= loads[g]
    BY <2>2, <2>3, <2>4, ThenLoadFacts DEF WindowInv
  <2>6. windowCall' = [windowCall EXCEPT ![c] = [op |-> "none"]] /\ reloading' = reloading
    BY <1>3 DEF View!Idle
  <2>7. WindowTypes'
    BY <2>5, <2>6 DEF WindowInv, WindowTypes, WindowRequests, WindowOps
  <2>8. CASE reloading
    BY <2>6, <2>7, <2>8 DEF WindowInv
  <2>9. CASE ~reloading
    <3>1. windowCall[c].waits = {}
      BY <1>1, <2>9 DEF WindowInv, Served
    <3>2. \A g \in window'.spinning : Stays(g) \/ Comes(g)
      BY <2>5 DEF Stays
    <3> DEFINE next == [op |-> "none"]
    <3>3. next.op = "none" /\ next \in {[op |-> "none"]}
      OBVIOUS
    <3>4. windowCall' = [windowCall EXCEPT ![c] = next]
      BY <2>6
    <3> HIDE DEF next
    <3>5. \A g \in window'.spinning : (Stays(g) /\ g \notin windowCall[c].waits) \/ Comes(g)
      BY <3>1, <3>2
    <3>6. window'.boot = "ready" /\ window'.detail = window.detail
      BY <2>5
    <3>7. windowCall[c].op = "boot" /\ reloading' = reloading
      BY <1>1, <2>6
    <3>8. \A g \in window'.spinning :
               \/ Stays(g) /\ (windowCall[c].op = "boot" => g \notin windowCall[c].waits)
               \/ Comes(g) \/ g \in Waited(next)
      BY <3>5 DEF Stays, Comes
    <3>9. /\ next.op = "boot" /\ next.stage # "loads" => next.waits = {}
          /\ window'.boot = "idle" => window.boot = "idle" /\ next.op # "boot"
          /\ window'.boot \in {"ready", "error", "idle"}
          /\ windowCall[c].op \in {"none", "boot"} /\ next \in {[op |-> "none"]} \cup Boots
      BY <3>3, <3>6, <3>7
    <3> QED
      BY <2>7, <3>4, <3>6, <3>7, <3>8, <3>9, BootStep
  <2> QED
    BY <2>8, <2>9
<1>4. CASE View!BootFails(c, {"fatal"}) /\ UNCHANGED loads
  <2>1. View!BootFails(c, View!Faults)
    BY <1>4 DEF View!BootFails, View!Faults
  <2> QED
    BY <1>1, <1>4, <2>1, BootFailsStep
<1>5. CASE /\ \E f \in View!Faults \cup {"none"} : \E w \in View!BootReady(FALSE, None, f) : View!End(c, "boot", w)
           /\ UNCHANGED loads
  <2>1. PICK f \in View!Faults \cup {"none"} : \E w \in View!BootReady(FALSE, None, f) : View!End(c, "boot", w)
    BY <1>5
  <2>2. PICK w \in View!BootReady(FALSE, None, f) : View!End(c, "boot", w)
    BY <2>1
  <2>3. w \in Views /\ w.boot = "ready" /\ w.spinning = window.spinning /\ w.detail = window.detail
    BY BootReadyFacts DEF WindowInv
  <2>4. windowCall' = [windowCall EXCEPT ![c] = [op |-> "none"]] /\ reloading' = reloading /\ window' = w
    BY <2>2 DEF View!End, View!Idle
  <2> QED
    BY <1>1, <1>5, <2>3, <2>4, BootGoesOn
<1> QED
  BY <1>1, <1>2, <1>3, <1>4, <1>5 DEF View!BootUser

\* The lists of the first screen: each spins until it has come, or the start-up is over.
LEMMA BootListSteps ==
    ASSUME WindowInv, NEW c \in WindowCalls,
           View!BootLoads(c) \/ (\E k \in View!Lists : View!BootLoadEnds(c, k)) \/ View!BootEnds(c)
    PROVE  WindowInv'
<1>1. windowCall[c].op = "boot" /\ loads' = loads /\ reloading' = reloading
  BY DEF View!BootLoads, View!BootLoadEnds, View!BootEnds, View!BootAt, View!End
<1>2. windowCall[c] \in Boots
  BY <1>1, CallFacts DEF WindowInv
<1>3. CASE View!BootLoads(c)
  <2>1. PICK next \in Boots : /\ next.op = "boot" /\ next.stage = "loads" /\ next.waits = View!BootLists
                             /\ windowCall' = [windowCall EXCEPT ![c] = next]
    BY <1>3, BootToFacts DEF View!BootLoads
  <2>2. View!BootLists \ {"notifications"} \in SUBSET Spinners
    BY DEF View!BootLists, Spinners, View!Lists
  <2>3. /\ window' \in Views /\ window'.boot = window.boot /\ window'.detail = window.detail
        /\ window'.spinning = window.spinning \cup (View!BootLists \ {"notifications"})
    BY <1>3, <2>2, SpinFacts DEF View!BootLoads, WindowInv, WindowTypes
  <2>4. WindowTypes'
    BY <1>1, <2>1, <2>3 DEF WindowInv, WindowTypes, WindowRequests
  <2>5. CASE reloading
    BY <1>1, <2>4, <2>5 DEF WindowInv
  <2>6. CASE ~reloading
    <3>1. windowCall[c].waits = {} /\ windowCall[c].stage = "sync" /\ window.boot # "idle"
      BY <1>1, <1>3, <2>6 DEF View!BootLoads, View!BootAt, WindowInv, Served, Pending
    <3>2. \A f \in window'.spinning : Stays(f) \/ f \in Waited(next)
      <4>1. \A f \in View!Lists : loads'[f] >= loads[f]
        BY <1>1 DEF WindowInv, WindowTypes
      <4>2. View!BootLists \subseteq View!Lists
        BY DEF View!BootLists, View!Lists
      <4>3. ASSUME NEW f \in window.spinning PROVE Stays(f)
        BY <4>1 DEF Stays
      <4>4. ASSUME NEW f \in View!BootLists PROVE f \in Waited(next)
        BY <2>1, <4>2 DEF Waited
      <4>5. ASSUME NEW f \in window'.spinning PROVE f \in window.spinning \/ f \in View!BootLists
        BY <2>3
      <4> QED
        BY <4>3, <4>4, <4>5 DEF Stays
    <3> QED
      BY <1>1, <2>1, <2>3, <2>4, <3>1, <3>2, BootStep
  <2> QED
    BY <2>5, <2>6
<1>4. ASSUME NEW k \in View!Lists, View!BootLoadEnds(c, k) PROVE WindowInv'
  <2>1. windowCall[c].stage = "loads" /\ View!BootTo(c, "loads", windowCall[c].waits \ {k})
    BY <1>4 DEF View!BootLoadEnds, View!BootAt
  <2>2. PICK next \in Boots : /\ next.op = "boot" /\ next.stage = "loads" /\ next.waits = windowCall[c].waits \ {k}
                             /\ windowCall' = [windowCall EXCEPT ![c] = next]
    <3>1. windowCall[c].waits \ {k} \in SUBSET View!BootLists
      BY <1>2 DEF Boots
    <3> QED
      BY <2>1, <3>1, BootToFacts
  <2>3. /\ window' \in Views /\ window'.boot = window.boot /\ window'.detail = window.detail
        /\ window'.spinning = window.spinning \ {k}
    BY <1>4, SpinFacts DEF View!BootLoadEnds, WindowInv, WindowTypes, Spinners
  <2>4. WindowTypes'
    BY <1>1, <2>2, <2>3 DEF WindowInv, WindowTypes, WindowRequests
  <2>5. CASE reloading
    BY <1>1, <2>4, <2>5 DEF WindowInv
  <2>6. CASE ~reloading
    <3>1. window.boot # "idle"
      BY <1>1, <2>6 DEF WindowInv, Served, Pending
    <3>2. \A f \in window'.spinning :
             \/ Stays(f) /\ f \notin windowCall[c].waits
             \/ f \in Waited(next)
      <4>1. \A f \in View!Lists : loads'[f] >= loads[f]
        BY <1>1 DEF WindowInv, WindowTypes
      <4>2. windowCall[c].waits \subseteq View!Lists
        BY <1>2 DEF Boots, View!BootLists, View!Lists
      <4> QED
        BY <2>2, <2>3, <4>1, <4>2 DEF Stays, Waited
    <3> QED
      BY <1>1, <2>1, <2>2, <2>3, <2>4, <3>1, <3>2, BootStep
  <2> QED
    BY <2>5, <2>6
<1>5. CASE View!BootEnds(c)
  <2>1. windowCall[c].stage = "loads" /\ windowCall[c].waits = {}
    BY <1>5 DEF View!BootEnds, View!BootAt
  <2>2. windowCall' = [windowCall EXCEPT ![c] = [op |-> "none"]] /\ window' \in {window, [window EXCEPT !.modal = "password"]}
    BY <1>5 DEF View!BootEnds, View!End, View!Idle
  <2>3. /\ window' \in Views /\ window'.boot = window.boot /\ window'.detail = window.detail
        /\ window'.spinning = window.spinning
    BY <2>2 DEF WindowInv, WindowTypes, Views
  <2>4. WindowTypes'
    BY <1>1, <2>2, <2>3 DEF WindowInv, WindowTypes, WindowRequests, WindowOps
  <2>5. CASE reloading
    BY <1>1, <2>4, <2>5 DEF WindowInv
  <2>6. CASE ~reloading
    <3>1. window.boot # "idle"
      BY <1>1, <2>6 DEF WindowInv, Served, Pending
    <3>2. \A f \in window'.spinning : Stays(f)
      BY <1>1, <2>3 DEF Stays, WindowInv, WindowTypes
    <3> DEFINE next == [op |-> "none"]
    <3>3. next.op = "none" /\ next \in {[op |-> "none"]}
      OBVIOUS
    <3>4. windowCall' = [windowCall EXCEPT ![c] = next]
      BY <2>2
    <3> HIDE DEF next
    <3> QED
      BY <1>1, <2>1, <2>3, <2>4, <3>1, <3>2, <3>3, <3>4, BootStep
  <2> QED
    BY <2>5, <2>6
<1> QED
  BY <1>3, <1>4, <1>5

(* Every other request. A spinner belongs to one request at most.           *)
LEMMA OwnSpinner ==
    ASSUME NEW f, NEW g, NEW op \in View!SpinnerOps(f), op \in View!SpinnerOps(g)
    PROVE  f = g
BY DEF View!SpinnerOps

\* A button that is disabled until its request is answered.
LEMMA ClickStep ==
    ASSUME WindowInv, NEW c \in WindowCalls, NEW f \in ViewButtons, NEW op \in View!SpinnerOps(f),
           View!Send(c, op, View!Spin(window, {f}))
    PROVE  WindowInv'
<1>1. op \in WindowOps /\ f \notin View!Lists
  BY DEF ViewButtons, View!SpinnerOps, WindowOps, View!Lists
<1>2. {f} \in SUBSET Spinners /\ window \in Views
  BY DEF Spinners, WindowInv, WindowTypes
<1> DEFINE w == View!Spin(window, {f})
<1>3. w \in Views /\ w.spinning = window.spinning \cup {f} /\ w.boot = window.boot /\ w.detail = window.detail
  BY <1>2, SpinFacts
<1>4. View!Send(c, op, w)
  OBVIOUS
<1> HIDE DEF w
<1> QED
  BY <1>1, <1>3, <1>4, SendStep

\* Its answer, which may also change what else the window shows.
LEMMA ClickAnswered ==
    ASSUME WindowInv, MaxLoads \in Nat, NEW c \in WindowCalls, NEW f \in ViewButtons, NEW op \in View!SpinnerOps(f),
           windowCall[c].op = op, windowCall' = [windowCall EXCEPT ![c] = View!Idle], reloading' = reloading,
           NEW w \in Views,
           (window' = w /\ loads' = loads) \/ \E lists \in SUBSET View!Lists : View!ThenLoad(w, lists),
           w.spinning = window.spinning \ {f}, w.detail = window.detail,
           (w.boot = window.boot /\ op # "retry") \/ w.boot \in {"ready", "error"}
    PROVE  WindowInv'
<1>1. op \in WindowOps /\ op # "login" /\ op # "detail"
  BY DEF ViewButtons, View!SpinnerOps, WindowOps
<1>2. \A g \in w.spinning : g \in window.spinning /\ op \notin View!SpinnerOps(g)
  BY OwnSpinner
<1> QED
  BY <1>1, <1>2, AnswerStep

\* A request of no spinner: the login, the withdrawal and the like.
LEMMA PlainAnswered ==
    ASSUME WindowInv, MaxLoads \in Nat, NEW c \in WindowCalls, NEW op \in {"login", "logout", "withdraw"},
           windowCall[c].op = op, windowCall' = [windowCall EXCEPT ![c] = View!Idle], reloading' = reloading,
           NEW w \in Views,
           (window' = w /\ loads' = loads) \/ \E lists \in SUBSET View!Lists : View!ThenLoad(w, lists),
           w.spinning \subseteq window.spinning, w.detail = window.detail,
           (w.boot = window.boot /\ op # "login") \/ w.boot = "ready"
    PROVE  WindowInv'
<1>1. op \in WindowOps /\ op # "retry" /\ op # "detail"
  BY DEF WindowOps
<1>2. \A g \in w.spinning : g \in window.spinning /\ op \notin View!SpinnerOps(g)
  BY DEF View!SpinnerOps
<1> QED
  BY <1>1, <1>2, AnswerStep

\* The buttons, and the operations each is disabled for.
LEMMA ButtonFacts ==
    /\ ViewButtons \subseteq Spinners /\ ViewButtons \cap View!Lists = {}
    /\ "search" \in View!SpinnerOps("search") /\ "action" \in View!SpinnerOps("action")
    /\ "settings" \in View!SpinnerOps("settings") /\ "password" \in View!SpinnerOps("password")
    /\ "publish" \in View!SpinnerOps("publish")
    /\ \A op \in {"check", "download", "cancel", "install"} : op \in View!SpinnerOps("update")
    /\ \A op \in {"clear", "rebuild", "retry"} : op \in View!SpinnerOps("recovery")
BY DEF ViewButtons, Spinners, View!Lists, View!SpinnerOps

\* Mending a start-up: the session is cleared.
LEMMA ClearSteps ==
    ASSUME WindowInv, MaxLoads \in Nat, NEW c \in WindowCalls, View!ClearStartupSession(c)
    PROVE  WindowInv'
<1>1. "recovery" \in ViewButtons /\ "clear" \in View!SpinnerOps("recovery")
  BY ButtonFacts DEF ViewButtons
<1>2. CASE View!Send(c, "clear", View!Spin(window, {"recovery"}))
  BY <1>1, <1>2, ClickStep
<1>3. CASE /\ View!End(c, "clear", [View!Still(window, {"recovery"}) EXCEPT
                                       !.boot = "ready", !.fault = "none", !.user = None, !.modal = "login"])
           /\ loads' = loads
  <2>1. /\ window' \in Views /\ window'.boot = "ready" /\ window'.detail = window.detail
        /\ window'.spinning = window.spinning \ {"recovery"}
    BY <1>3 DEF View!End, WindowInv, WindowTypes, Views, View!Still
  <2> QED
    BY <1>1, <1>3, <2>1, ClickAnswered DEF View!End
<1>4. ASSUME NEW f \in View!Faults, loads' = loads,
             View!End(c, "clear", [View!Still(window, {"recovery"}) EXCEPT !.fault = f, !.modal = "login"])
      PROVE  WindowInv'
  <2>1. /\ window' \in Views /\ window'.boot = window.boot /\ window'.detail = window.detail
        /\ window'.spinning = window.spinning \ {"recovery"}
    BY <1>4 DEF View!End, WindowInv, WindowTypes, Views, View!Still
  <2> QED
    BY <1>1, <1>4, <2>1, ClickAnswered DEF View!End
<1> QED
  BY <1>2, <1>3, <1>4 DEF View!ClearStartupSession

\* The local database is rebuilt, and the window loaded anew.
LEMMA RebuildSteps ==
    ASSUME WindowInv, MaxLoads \in Nat, NEW c \in WindowCalls, View!RebuildStartupDatabase(c)
    PROVE  WindowInv'
<1>1. "recovery" \in ViewButtons /\ "rebuild" \in View!SpinnerOps("recovery")
  BY ButtonFacts DEF ViewButtons
<1>2. CASE View!Send(c, "rebuild", View!Spin(window, {"recovery"}))
  BY <1>1, <1>2, ClickStep
<1>3. CASE /\ windowCall' = [windowCall EXCEPT ![c] = View!Idle] /\ reloading' = TRUE /\ loads' = loads
           /\ window' = [View!Still(window, {"recovery"}) EXCEPT !.boot = "loading"]
  <2>1. window' \in Views
    BY <1>3 DEF WindowInv, WindowTypes, Views, View!Still
  <2> QED
    BY <1>3, <2>1 DEF WindowInv, WindowTypes, WindowRequests, View!Idle, WindowOps
<1>4. ASSUME NEW f \in View!Faults, loads' = loads,
             View!End(c, "rebuild", [View!Still(window, {"recovery"}) EXCEPT !.fault = f])
      PROVE  WindowInv'
  <2>1. /\ window' \in Views /\ window'.boot = window.boot /\ window'.detail = window.detail
        /\ window'.spinning = window.spinning \ {"recovery"}
    BY <1>4 DEF View!End, WindowInv, WindowTypes, Views, View!Still
  <2> QED
    BY <1>1, <1>4, <2>1, ClickAnswered DEF View!End
<1> QED
  BY <1>2, <1>3, <1>4 DEF View!RebuildStartupDatabase

\* The start-up is tried again, and the window loaded anew.
LEMMA RetrySteps ==
    ASSUME WindowInv, MaxLoads \in Nat, NEW c \in WindowCalls, View!RetryStartup(c)
    PROVE  WindowInv'
<1>1. CASE View!Send(c, "retry", [View!Spin(window, {"recovery"}) EXCEPT !.boot = "loading"])
  <2> DEFINE w == [View!Spin(window, {"recovery"}) EXCEPT !.boot = "loading"]
  <2>1. /\ w \in Views /\ w.boot = "loading" /\ w.detail = window.detail
        /\ w.spinning = window.spinning \cup {"recovery"}
    BY ButtonFacts DEF WindowInv, WindowTypes, Views, View!Spin, ViewButtons
  <2>2. View!Send(c, "retry", w)
    BY <1>1
  <2>3. "retry" \in WindowOps /\ "recovery" \notin View!Lists /\ "retry" \in View!SpinnerOps("recovery")
    BY ButtonFacts DEF WindowOps, View!Lists
  <2> HIDE DEF w
  <2> QED
    BY <2>1, <2>2, <2>3, SendStep
<1>2. CASE /\ windowCall' = [windowCall EXCEPT ![c] = View!Idle]
           /\ reloading' = TRUE /\ window' = window /\ loads' = loads
  BY <1>2 DEF WindowInv, WindowTypes, WindowRequests, View!Idle, WindowOps
<1> QED
  BY <1>1, <1>2 DEF View!RetryStartup

\* Signing in and out; the answer of a sign-in ends the loading of the window.
LEMMA LoginSteps ==
    ASSUME WindowInv, MaxLoads \in Nat, NEW c \in WindowCalls,
           View!Login(c) \/ View!LoginAnswered(c) \/ View!Logout(c)
    PROVE  WindowInv'
<1>1. CASE View!Login(c)
  <2> DEFINE w == [window EXCEPT !.boot = "loading", !.fault = "none"]
  <2>1. w \in Views /\ w.boot = "loading" /\ w.detail = window.detail /\ w.spinning = window.spinning
    BY DEF WindowInv, WindowTypes, Views
  <2>2. View!Send(c, "login", w) /\ "login" \in WindowOps
    BY <1>1 DEF View!Login, WindowOps
  <2> HIDE DEF w
  <2> QED
    BY <2>1, <2>2, SendStep
<1>2. ASSUME NEW u \in View!People, windowCall[c].op = "login", windowCall' = [windowCall EXCEPT ![c] = View!Idle],
             reloading' = reloading,
             View!ThenLoad([window EXCEPT !.user = u, !.boot = "ready",
                                          !.modal = IF u = "user" THEN "none" ELSE "password"], View!BootLists)
      PROVE  WindowInv'
  <2> DEFINE w == [window EXCEPT !.user = u, !.boot = "ready", !.modal = IF u = "user" THEN "none" ELSE "password"]
  <2>1. w \in Views /\ w.boot = "ready" /\ w.detail = window.detail /\ w.spinning = window.spinning
    <3> DEFINE modal == IF u = "user" THEN "none" ELSE "password"
    <3>1. modal \in {"none", "password"} /\ w = [window EXCEPT !.user = u, !.boot = "ready", !.modal = modal]
      OBVIOUS
    <3> HIDE DEF modal
    <3> QED
      BY <3>1 DEF WindowInv, WindowTypes, Views
  <2>2. View!ThenLoad(w, View!BootLists) /\ View!BootLists \in SUBSET View!Lists
    BY <1>2 DEF View!BootLists, View!Lists
  <2> HIDE DEF w
  <2> QED
    BY <1>2, <2>1, <2>2, PlainAnswered
<1>3. ASSUME NEW f \in View!Faults, loads' = loads,
             View!End(c, "login", [window EXCEPT !.boot = "ready", !.fault = f, !.modal = "login"])
      PROVE  WindowInv'
  <2>1. /\ window' \in Views /\ window'.boot = "ready" /\ window'.detail = window.detail
        /\ window'.spinning = window.spinning
    BY <1>3 DEF View!End, WindowInv, WindowTypes, Views
  <2> QED
    BY <1>3, <2>1, PlainAnswered DEF View!End
<1>4. CASE View!Send(c, "logout", window)
  BY <1>4, SendStep DEF WindowOps, WindowInv, WindowTypes
<1>5. CASE View!End(c, "logout", [window EXCEPT !.user = None, !.modal = "login"]) /\ loads' = loads
  <2>1. /\ window' \in Views /\ window'.boot = window.boot /\ window'.detail = window.detail
        /\ window'.spinning = window.spinning
    BY <1>5 DEF View!End, WindowInv, WindowTypes, Views
  <2> QED
    BY <1>5, <2>1, PlainAnswered DEF View!End
<1> QED
  BY <1>1, <1>2, <1>3, <1>4, <1>5 DEF View!LoginAnswered, View!LoginFails, View!Logout

\* A new password.
LEMMA PasswordSteps ==
    ASSUME WindowInv, MaxLoads \in Nat, NEW c \in WindowCalls, View!ChangePassword(c)
    PROVE  WindowInv'
<1>1. "password" \in ViewButtons /\ "password" \in View!SpinnerOps("password")
  BY ButtonFacts DEF ViewButtons
<1>2. CASE View!Send(c, "password", View!Spin(window, {"password"}))
  BY <1>1, <1>2, ClickStep
<1>3. CASE /\ \/ View!End(c, "password", [View!Still(window, {"password"}) EXCEPT !.user = None, !.modal = "login"])
              \/ View!End(c, "password", View!Still(window, {"password"}))
           /\ loads' = loads
  <2>1. /\ window' \in Views /\ window'.boot = window.boot /\ window'.detail = window.detail
        /\ window'.spinning = window.spinning \ {"password"}
    BY <1>3 DEF View!End, WindowInv, WindowTypes, Views, View!Still
  <2> QED
    BY <1>1, <1>3, <2>1, ClickAnswered DEF View!End
<1> QED
  BY <1>2, <1>3 DEF View!ChangePassword

\* The search, whose spinner ends with the answer; the results are left by hand.
LEMMA SearchSteps ==
    ASSUME WindowInv, MaxLoads \in Nat, NEW c \in WindowCalls, View!Search(c)
    PROVE  WindowInv'
<1>1. "search" \in ViewButtons /\ "search" \in View!SpinnerOps("search") /\ "search" \in WindowOps /\ "search" \notin View!Lists
  BY ButtonFacts DEF ViewButtons, WindowOps
<1>2. CASE View!Send(c, "search", [View!Spin(window, {"search"}) EXCEPT !.tab = "search"])
  <2> DEFINE w == [View!Spin(window, {"search"}) EXCEPT !.tab = "search"]
  <2>1. /\ w \in Views /\ w.boot = window.boot /\ w.detail = window.detail
        /\ w.spinning = window.spinning \cup {"search"}
    BY <1>1, ButtonFacts DEF WindowInv, WindowTypes, Views, View!Spin
  <2>2. View!Send(c, "search", w)
    BY <1>2
  <2> HIDE DEF w
  <2> QED
    BY <1>1, <2>1, <2>2, SendStep
<1>3. CASE View!End(c, "search", View!Still(window, {"search"})) /\ loads' = loads
  <2>1. /\ window' \in Views /\ window'.boot = window.boot /\ window'.detail = window.detail
        /\ window'.spinning = window.spinning \ {"search"}
    BY <1>3 DEF View!End, WindowInv, WindowTypes, Views, View!Still
  <2> QED
    BY <1>1, <1>3, <2>1, ClickAnswered DEF View!End
<1> QED
  BY <1>2, <1>3 DEF View!Search

\* The details of an extension, shown when their answer comes.
LEMMA DetailSteps ==
    ASSUME WindowInv, MaxLoads \in Nat, NEW c \in WindowCalls, View!OpenDetail(c)
    PROVE  WindowInv'
<1>1. CASE View!Send(c, "detail", [window EXCEPT !.detail = "loading"])
  <2> DEFINE w == [window EXCEPT !.detail = "loading"]
  <2>1. w \in Views /\ w.boot = window.boot /\ w.spinning = window.spinning
    BY DEF WindowInv, WindowTypes, Views
  <2>2. View!Send(c, "detail", w) /\ "detail" \in WindowOps
    BY <1>1 DEF WindowOps
  <2> HIDE DEF w
  <2> QED
    BY <2>1, <2>2, SendStep
<1>2. ASSUME NEW d \in {"ready", "error"}, View!End(c, "detail", [window EXCEPT !.detail = d]), loads' = loads
      PROVE  WindowInv'
  <2>1. window' \in Views /\ window'.boot = window.boot /\ window'.detail = d /\ window'.spinning = window.spinning
    BY <1>2 DEF View!End, WindowInv, WindowTypes, Views
  <2>2. "detail" \in WindowOps /\ \A g : "detail" \notin View!SpinnerOps(g)
    BY DEF WindowOps, View!SpinnerOps
  <2> QED
    BY <1>2, <2>1, <2>2, AnswerStep DEF View!End
<1> QED
  BY <1>1, <1>2 DEF View!OpenDetail

\* An action on an extension, or a package submitted; the answer may load a list.
LEMMA LoadingSteps ==
    ASSUME WindowInv, MaxLoads \in Nat, NEW c \in WindowCalls,
           View!RunAction(c) \/ View!SubmitPublish(c) \/ View!SubmitPublishAnswered(c)
    PROVE  WindowInv'
<1>1. /\ "action" \in ViewButtons /\ "action" \in View!SpinnerOps("action")
      /\ "publish" \in ViewButtons /\ "publish" \in View!SpinnerOps("publish")
  BY ButtonFacts DEF ViewButtons
<1>2. ASSUME NEW f \in {"action", "publish"}, View!Send(c, f, View!Spin(window, {f})) PROVE WindowInv'
  BY <1>1, <1>2, ClickStep
<1>3. ASSUME NEW f \in {"action", "publish"}, NEW lists \in {{}, {"scan"}, {"submissions"}},
             View!ThenLoad(View!Still(window, {f}), lists), reloading' = reloading,
             windowCall[c].op = f, windowCall' = [windowCall EXCEPT ![c] = View!Idle]
      PROVE  WindowInv'
  <2> DEFINE w == View!Still(window, {f})
  <2>1. {f} \in SUBSET Spinners
    BY <1>1, ButtonFacts
  <2>2. /\ w \in Views /\ w.boot = window.boot /\ w.detail = window.detail
        /\ w.spinning = window.spinning \ {f}
    BY <2>1, SpinFacts DEF WindowInv, WindowTypes
  <2>3. View!ThenLoad(w, lists) /\ lists \in SUBSET View!Lists
    BY <1>3 DEF View!Lists
  <2> HIDE DEF w
  <2> QED
    BY <1>1, <1>3, <2>2, <2>3, ClickAnswered
<1> QED
  BY <1>2, <1>3 DEF View!RunAction, View!SubmitPublish, View!SubmitPublishAnswered

\* The settings are saved.
LEMMA SettingsSteps ==
    ASSUME WindowInv, MaxLoads \in Nat, NEW c \in WindowCalls, View!SaveSettings(c)
    PROVE  WindowInv'
<1>1. "settings" \in ViewButtons /\ "settings" \in View!SpinnerOps("settings")
  BY ButtonFacts DEF ViewButtons
<1>2. CASE View!Send(c, "settings", View!Spin(window, {"settings"}))
  BY <1>1, <1>2, ClickStep
<1>3. CASE View!End(c, "settings", View!Still(window, {"settings"})) /\ loads' = loads
  <2>1. /\ window' \in Views /\ window'.boot = window.boot /\ window'.detail = window.detail
        /\ window'.spinning = window.spinning \ {"settings"}
    BY <1>3 DEF View!End, WindowInv, WindowTypes, Views, View!Still
  <2> QED
    BY <1>1, <1>3, <2>1, ClickAnswered DEF View!End
<1> QED
  BY <1>2, <1>3 DEF View!SaveSettings

\* The four requests of the update share one button.
LEMMA UpdateSteps ==
    ASSUME WindowInv, MaxLoads \in Nat, NEW c \in WindowCalls,
           View!CheckUpdate(c) \/ View!DownloadUpdate(c) \/ View!CancelUpdate(c) \/ View!InstallUpdate(c)
    PROVE  WindowInv'
<1> DEFINE requests == {"check", "download", "cancel", "install"}
<1>1. "update" \in ViewButtons /\ \A op \in requests : op \in View!SpinnerOps("update")
  BY ButtonFacts DEF ViewButtons
<1>2. ASSUME NEW op \in requests, View!Send(c, op, View!Spin(window, {"update"})) PROVE WindowInv'
  BY <1>1, <1>2, ClickStep
<1>3. ASSUME NEW op \in requests, NEW states \in SUBSET {None, "available", "verified", "cancelled", "launched"},
             View!Updated(c, op, states)
      PROVE  WindowInv'
  <2>1. PICK s \in states \cup {window.update} :
            View!End(c, op, [View!Still(window, {"update"}) EXCEPT !.update = s])
    BY <1>3 DEF View!Updated
  <2>2. /\ window' \in Views /\ window'.boot = window.boot /\ window'.detail = window.detail
        /\ window'.spinning = window.spinning \ {"update"}
    BY <2>1 DEF View!End, WindowInv, WindowTypes, Views, View!Still
  <2>3. loads' = loads
    BY <1>3 DEF View!Updated
  <2> QED
    BY <1>1, <2>1, <2>2, <2>3, ClickAnswered DEF View!End
<1> QED
  BY <1>2, <1>3 DEF View!CheckUpdate, View!DownloadUpdate, View!CancelUpdate, View!InstallUpdate

\* A withdrawal has no spinner of its own, and loads the list anew.
LEMMA WithdrawSteps ==
    ASSUME WindowInv, MaxLoads \in Nat, NEW c \in WindowCalls, View!WithdrawSubmission(c)
    PROVE  WindowInv'
<1>1. window \in Views
  BY DEF WindowInv, WindowTypes
<1>2. CASE View!Send(c, "withdraw", window)
  BY <1>1, <1>2, SendStep DEF WindowOps
<1>3. CASE /\ windowCall[c].op = "withdraw" /\ windowCall' = [windowCall EXCEPT ![c] = View!Idle]
           /\ View!ThenLoad(window, {"submissions"}) /\ reloading' = reloading
  <2>1. {"submissions"} \in SUBSET View!Lists
    BY DEF View!Lists
  <2> QED
    BY <1>1, <1>3, <2>1, PlainAnswered
<1>4. CASE View!End(c, "withdraw", View!Still(window, {"submissions"})) /\ loads' = loads
  <2>1. /\ window' \in Views /\ window'.boot = window.boot /\ window'.detail = window.detail
        /\ window'.spinning \subseteq window.spinning
    BY <1>4 DEF View!End, WindowInv, WindowTypes, Views, View!Still
  <2> QED
    BY <1>4, <2>1, PlainAnswered DEF View!End
<1> QED
  BY <1>2, <1>3, <1>4 DEF View!WithdrawSubmission

(* The screen itself, and the end of a load.                                *)
LEMMA ViewStep ==
    ASSUME WindowInv, MaxLoads \in Nat, None # "loading", windowCall' = windowCall, reloading' = reloading,
           NEW w \in Views,
           (window' = w /\ loads' = loads) \/ \E lists \in SUBSET View!Lists : View!ThenLoad(w, lists),
           w.spinning \subseteq window.spinning, w.boot = window.boot, w.detail \in {None, window.detail}
    PROVE  WindowInv'
<1>1. /\ window' \in Views /\ loads' \in [View!Lists -> 0..MaxLoads]
      /\ window'.boot = w.boot /\ window'.detail = w.detail
      /\ \A f \in window'.spinning : f \in w.spinning \/ Comes(f)
      /\ \A f \in View!Lists : loads'[f] >= loads[f]
  <2>1. CASE window' = w /\ loads' = loads
    BY <2>1 DEF WindowInv, WindowTypes
  <2>2. CASE \E lists \in SUBSET View!Lists : View!ThenLoad(w, lists)
    BY <2>2, ThenLoadFacts DEF WindowInv
  <2> QED
    BY <2>1, <2>2
<1>2. WindowTypes'
  BY <1>1 DEF WindowInv, WindowTypes
<1>3. \A f \in window'.spinning : Stays(f) \/ Comes(f)
  BY <1>1 DEF Stays
<1> QED
  BY <1>1, <1>2, <1>3, ScreenStep

\* What opens a list also loads it.
LEMMA TabSteps ==
    ASSUME WindowInv, MaxLoads \in Nat, None # "loading",
           (\E t \in {"agent", "community", "local"} : View!ChangeTab(t)) \/ View!Refresh
             \/ (\E m \in View!Openable : View!OpenModal(m))
    PROVE  WindowInv'
<1>1. window \in Views
  BY DEF WindowInv, WindowTypes
<1>2. ASSUME NEW t \in {"agent", "community", "local"}, View!ChangeTab(t) PROVE WindowInv'
  <2> DEFINE tab == IF t = "community" /\ window.tab = "search" THEN window.tab ELSE t
  <2> DEFINE w == [window EXCEPT !.tab = tab]
  <2> DEFINE lists == CASE t = "community" -> {"catalog"} [] t = "local" -> {"scan"} [] OTHER -> {}
  <2>1. View!ThenLoad(w, lists) /\ windowCall' = windowCall /\ reloading' = reloading
    BY <1>2 DEF View!ChangeTab
  <2>2. tab \in {"agent", "community", "search", "local"} /\ lists \in SUBSET View!Lists
    BY DEF View!Lists
  <2> HIDE DEF tab, lists
  <2>3. w \in Views /\ w.spinning = window.spinning /\ w.boot = window.boot /\ w.detail = window.detail
    BY <1>1, <2>2 DEF Views
  <2> HIDE DEF w
  <2> QED
    BY <2>1, <2>2, <2>3, ViewStep
<1>3. CASE View!Refresh
  <2>1. {"scan"} \in SUBSET View!Lists /\ {"submissions"} \in SUBSET View!Lists
    BY DEF View!Lists
  <2> QED
    BY <1>1, <1>3, <2>1, ViewStep DEF View!Refresh
<1>4. ASSUME NEW m \in View!Openable, View!OpenModal(m) PROVE WindowInv'
  <2> DEFINE w == [window EXCEPT !.modal = m]
  <2> DEFINE lists == {m} \cap {"submissions", "notifications"}
  <2>1. View!ThenLoad(w, lists) /\ windowCall' = windowCall /\ reloading' = reloading
    BY <1>4 DEF View!OpenModal
  <2>2. lists \in SUBSET View!Lists
    BY DEF View!Lists
  <2>3. m \in {"notifications", "login", "account", "update", "settings", "publish", "submissions", "password"}
    BY DEF View!Openable
  <2> HIDE DEF lists
  <2>4. w \in Views /\ w.spinning = window.spinning /\ w.boot = window.boot /\ w.detail = window.detail
    BY <1>1, <2>3 DEF Views
  <2> HIDE DEF w
  <2> QED
    BY <2>1, <2>2, <2>4, ViewStep
<1> QED
  BY <1>2, <1>3, <1>4

\* What is closed waits for nothing.
LEMMA CloseSteps ==
    ASSUME WindowInv, MaxLoads \in Nat, None # "loading",
           View!CloseModal \/ View!BackToCommunity \/ View!CloseDetail \/ View!OpenAction \/ View!CloseAction
    PROVE  WindowInv'
<1>1. window \in Views
  BY DEF WindowInv, WindowTypes
<1>2. windowCall' = windowCall /\ reloading' = reloading /\ loads' = loads
  BY DEF View!CloseModal, View!BackToCommunity, View!CloseDetail, View!OpenAction, View!CloseAction
<1>3. /\ window' \in Views /\ window'.spinning \subseteq window.spinning
      /\ window'.boot = window.boot /\ window'.detail \in {None, window.detail}
  BY <1>1 DEF View!CloseModal, View!BackToCommunity, View!CloseDetail, View!OpenAction, View!CloseAction,
              Views, View!Still
<1> QED
  BY <1>2, <1>3, ViewStep

\* A list that has come has no spinner, and the others wait on.
LEMMA LoadEndsStep ==
    ASSUME WindowInv, MaxLoads \in Nat, NEW k \in View!Lists, View!LoadEnds(k)
    PROVE  WindowInv'
<1>1. /\ window' \in Views /\ window'.spinning = window.spinning \ {k}
      /\ window'.boot = window.boot /\ window'.detail = window.detail
  BY SpinFacts DEF View!LoadEnds, WindowInv, WindowTypes, Spinners
<1>2. windowCall' = windowCall /\ reloading' = reloading
  BY DEF View!LoadEnds
<1>3. loads' \in [View!Lists -> 0..MaxLoads] /\ \A f \in View!Lists \ {k} : loads'[f] = loads[f]
  BY DEF View!LoadEnds, WindowInv, WindowTypes
<1>4. WindowTypes'
  BY <1>1, <1>2, <1>3 DEF WindowInv, WindowTypes
<1>5. CASE reloading
  BY <1>2, <1>4, <1>5 DEF WindowInv
<1>6. CASE ~reloading
  <2>1. Served
    BY <1>6 DEF WindowInv
  <2>2. \A f \in window'.spinning \cap View!Lists : loads'[f] > 0 \/ Awaited(f)'
    BY <1>1, <1>2, <1>3, <2>1 DEF Served, Awaited
  <2>3. \A f \in window'.spinning \ View!Lists : Pending(View!SpinnerOps(f))'
    BY <1>1, <1>2, <2>1 DEF Served, Pending, View!SpinnerOps
  <2> QED
    BY <1>1, <1>2, <1>4, <2>1, <2>2, <2>3 DEF Served, Pending, WindowInv
<1> QED
  BY <1>5, <1>6

\* The window as it is loaded.
LEMMA WindowInvInit ==
    ASSUME MaxLoads \in Nat, None # "loading", View!WindowInit
    PROVE  WindowInv
<1>1. window \in Views /\ window.spinning = {} /\ window.boot = "idle" /\ window.detail = None
  BY DEF View!WindowInit, View!InitialView, Views
<1> DEFINE idle == [op |-> "none"]
<1>2. idle \in WindowRequests
  BY DEF WindowRequests, WindowOps
<1> HIDE DEF idle
<1>5. windowCall = [c \in WindowCalls |-> idle]
  BY DEF View!WindowInit, View!Idle, idle
<1>6. loads \in [View!Lists -> 0..MaxLoads] /\ reloading = FALSE
  BY DEF View!WindowInit
<1>7. WindowTypes
  BY <1>1, <1>2, <1>5, <1>6 DEF WindowTypes
<1>3. \A c \in WindowCalls : windowCall[c].op = "none"
  BY DEF View!WindowInit, View!Idle
<1> QED
  BY <1>1, <1>3, <1>6, <1>7 DEF WindowInv, Served, Pending

\* The window is loaded anew.
LEMMA ReloadStep ==
    ASSUME MaxLoads \in Nat, None # "loading", View!Reload
    PROVE  WindowInv'
<1>1. window' \in Views /\ window'.spinning = {} /\ window'.boot = "idle" /\ window'.detail = None
  BY DEF View!Reload, View!InitialView, Views
<1> DEFINE idle == [op |-> "none"]
<1>2. idle \in WindowRequests
  BY DEF WindowRequests, WindowOps
<1> HIDE DEF idle
<1>5. windowCall' = [c \in WindowCalls |-> idle]
  BY DEF View!Reload, View!Idle, idle
<1>6. loads' \in [View!Lists -> 0..MaxLoads] /\ reloading' = FALSE
  BY DEF View!Reload
<1>7. WindowTypes'
  BY <1>1, <1>2, <1>5, <1>6 DEF WindowTypes
<1>3. \A c \in WindowCalls : windowCall'[c].op = "none"
  BY DEF View!Reload, View!Idle
<1> QED
  BY <1>1, <1>3, <1>6, <1>7 DEF WindowInv, Served, Pending

\* Every step of the window keeps the invariant.
LEMMA WindowInvStep ==
    ASSUME WindowInv, MaxLoads \in Nat, None # "loading", View!WindowNext
    PROVE  WindowInv'
BY BeginBootStep, BootWaits, BootUserStep, BootListSteps, ClearSteps, RebuildSteps, RetrySteps, LoginSteps,
   PasswordSteps, SearchSteps, DetailSteps, LoadingSteps, SettingsSteps, UpdateSteps, WithdrawSteps,
   LoadEndsStep, ReloadStep, TabSteps, CloseSteps DEF View!WindowNext

\* It carries the types, and says that every spinner is waited for.
LEMMA WindowSettles ==
    ASSUME WindowInv
    PROVE  View!WindowTypeOK /\ View!WindowSpinnersEnd
<1>1. View!WindowTypeOK
  BY DEF WindowInv, WindowTypes, Views, View!WindowTypeOK
<1>2. View!WindowSpinnersEnd
  BY DEF WindowInv, Served, Pending, Awaited, View!WindowSpinnersEnd
<1> QED
  BY <1>1, <1>2

\* A window in which nothing happens waits for what it did.
LEMMA WindowStutter == WindowInv /\ UNCHANGED windowVars => WindowInv'
BY DEF windowVars, WindowInv, WindowTypes, Served, Pending, Awaited

------------------------------------------------------------------------------
(* The web administration. What an administrator saves was shown because each *)
(* pane is of what its desk asked for last (PaneOK, LoadOK): that is what      *)
(* useResource's cancellation is for.                                         *)

\* What a request can be: nothing, a sign-in, or the question who somebody is.
TabRequests ==
    {NoRequest}
    \cup [kind : {"me"}, tab : Tabs, token : Members, as : Members \cup {Nobody}]
    \cup [kind : {"login"}, tab : Tabs, member : Members, keep : BOOLEAN]

\* The types the steps keep: those of the requests carry those of the rest.
AdminTypes ==
    /\ local \in Members \cup {Nobody}
    /\ own \in [Tabs -> Members \cup {Nobody}]
    /\ shown \in [Tabs -> [token : Members, user : Members] \cup {Nobody}]
    /\ loading \in [Tabs -> BOOLEAN]
    /\ tabCall \in [TabCalls -> TabRequests]
    /\ out \subseteq Tabs
    /\ tabTurns \in 0..MaxTabTurns

\* A tab finds a token of a member, or none.
LEMMA StoredToken ==
    ASSUME AdminTypes, NEW t \in Tabs
    PROVE  GetStored(t) \in Members \cup {Nobody}
BY DEF AdminTypes, GetStored

\* Asking who a token's user is leaves the requests of their type.
LEMMA TokenAsked ==
    ASSUME NEW calls \in [TabCalls -> TabRequests], NEW c \in TabCalls, NEW t \in Tabs,
           NEW token \in Members \cup {Nobody}, NEW as \in Members \cup {Nobody}
    PROVE  AskMe(calls, c, t, token, as) \in [TabCalls -> TabRequests]
<1>1. CASE token = Nobody
  BY <1>1 DEF AskMe, TabRequests
<1>2. CASE token # Nobody
  <2>1. [kind |-> "me", tab |-> t, token |-> token, as |-> as] \in TabRequests
    BY <1>2 DEF TabRequests
  <2> QED
    BY <1>2, <2>1 DEF AskMe
<1> QED
  BY <1>1, <1>2

\* A sign-in under way is of a member, in a tab; so is a question.
LEMMA RequestOf ==
    ASSUME AdminTypes, NEW c \in TabCalls, tabCall[c] # NoRequest
    PROVE  /\ tabCall[c].tab \in Tabs
           /\ tabCall[c].kind = "login" => tabCall[c].member \in Members /\ tabCall[c].keep \in BOOLEAN
           /\ tabCall[c].kind = "me" => tabCall[c].token \in Members /\ tabCall[c].as \in Members \cup {Nobody}
BY DEF AdminTypes, TabRequests

\* Every step of a tab keeps the types.
LEMMA AdminTypesStep == AdminTypes /\ [AdminNext]_adminVars => AdminTypes'
<1> SUFFICES ASSUME AdminTypes, [AdminNext]_adminVars PROVE AdminTypes'
  OBVIOUS
<1> USE AdminSessionAssumption
<1>1. ASSUME NEW t \in Tabs, NEW c \in TabCalls, OpenTab(t, c) PROVE AdminTypes'
  <2> DEFINE left == [k \in TabCalls |-> IF tabCall[k] # NoRequest /\ tabCall[k].tab = t
                                          THEN NoRequest ELSE tabCall[k]]
  <2>1. left \in [TabCalls -> TabRequests]
    BY DEF AdminTypes, TabRequests
  <2>2. AskMe(left, c, t, GetStored(t), GetStored(t)) \in [TabCalls -> TabRequests]
    BY <2>1, StoredToken, TokenAsked
  <2>3. tabCall' \in [TabCalls -> TabRequests]
    BY <1>1, <2>2 DEF OpenTab
  <2> QED
    BY <1>1, <2>3, StoredToken DEF OpenTab, Turn, AdminTypes
<1>2. ASSUME NEW t \in Tabs, NEW c \in TabCalls, NEW m \in Members, NEW keepSignedIn \in BOOLEAN,
             Submit(t, c, m, keepSignedIn)
      PROVE  AdminTypes'
  <2>1. [kind |-> "login", tab |-> t, member |-> m, keep |-> keepSignedIn] \in TabRequests
    BY DEF TabRequests
  <2>2. tabCall' \in [TabCalls -> TabRequests]
    BY <1>2, <2>1 DEF Submit, AdminTypes
  <2> QED
    BY <1>2, <2>2 DEF Submit, Turn, AdminTypes
<1>3. ASSUME NEW c \in TabCalls, LoginAnswered(c) PROVE AdminTypes'
  <2> DEFINE t == tabCall[c].tab
             m == tabCall[c].member
  <2>1. t \in Tabs /\ m \in Members /\ tabCall[c].keep \in BOOLEAN
    BY <1>3, RequestOf DEF LoginAnswered
  <2>2. NoRequest \in TabRequests /\ tabCall \in [TabCalls -> TabRequests]
    BY DEF TabRequests, AdminTypes
  <2>3. AskMe(tabCall, c, t, m, m) \in [TabCalls -> TabRequests]
    BY <2>1, <2>2, TokenAsked
  <2>4. tabCall' \in [TabCalls -> TabRequests]
    BY <1>3, <2>2, <2>3 DEF LoginAnswered
  <2>5. /\ local' \in Members \cup {Nobody}
        /\ own' \in [Tabs -> Members \cup {Nobody}]
        /\ out' \subseteq Tabs
    BY <1>3, <2>1 DEF LoginAnswered, StoreSession, ClearSession, AdminTypes
  <2>6. shown' \in [Tabs -> [token : Members, user : Members] \cup {Nobody}]
    BY <1>3, <2>1 DEF LoginAnswered, AdminTypes
  <2> QED
    BY <1>3, <2>1, <2>4, <2>5, <2>6 DEF LoginAnswered, AdminTypes
<1>4. ASSUME NEW c \in TabCalls, MeAnswered(c) PROVE AdminTypes'
  <2> DEFINE t == tabCall[c].tab
             token == tabCall[c].token
  <2>1. t \in Tabs /\ token \in Members /\ tabCall[c].as \in Members \cup {Nobody}
    BY <1>4, RequestOf DEF MeAnswered
  <2>2. NoRequest \in TabRequests /\ tabCall \in [TabCalls -> TabRequests]
    BY DEF TabRequests, AdminTypes
  <2>3. AskMe(tabCall, c, t, token, GetStored(t)) \in [TabCalls -> TabRequests]
    BY <2>1, <2>2, StoredToken, TokenAsked
  <2>4. tabCall' \in [TabCalls -> TabRequests]
    BY <1>4, <2>2, <2>3 DEF MeAnswered
  <2>5. /\ local' \in Members \cup {Nobody}
        /\ own' \in [Tabs -> Members \cup {Nobody}]
    BY <1>4, <2>1 DEF MeAnswered, ClearSession, AdminTypes
  <2>6. shown' \in [Tabs -> [token : Members, user : Members] \cup {Nobody}]
    BY <1>4, <2>1 DEF MeAnswered, AdminTypes
  <2>7. loading' \in [Tabs -> BOOLEAN]
    BY <1>4 DEF MeAnswered, AdminTypes
  <2> QED
    BY <1>4, <2>4, <2>5, <2>6, <2>7 DEF MeAnswered, AdminTypes
<1>5. ASSUME NEW t \in Tabs, Logout(t) PROVE AdminTypes'
  BY <1>5 DEF Logout, Turn, ClearSession, AdminTypes
<1>6. CASE UNCHANGED adminVars
  BY <1>6 DEF adminVars, AdminTypes
<1> QED
  BY <1>1, <1>2, <1>3, <1>4, <1>5, <1>6 DEF AdminNext

\* Type correctness of the session the web administration keeps (api.ts, App).
THEOREM AdminTypeCorrect == AdminSpec => []AdminTypes
<1>1. AdminInit => AdminTypes
  BY AdminSessionAssumption DEF AdminInit, AdminTypes, TabRequests
<1> QED
  BY <1>1, AdminTypesStep, PTL DEF AdminSpec

\* So is a tab that has signed out, in every step.
LEMMA NoTokenStep ==
    AdminTypes /\ SignedOutTabHasNoToken /\ [AdminNext]_adminVars => SignedOutTabHasNoToken'
<1> SUFFICES ASSUME AdminTypes, SignedOutTabHasNoToken, [AdminNext]_adminVars
             PROVE  SignedOutTabHasNoToken'
  OBVIOUS
<1> USE AdminSessionAssumption DEF AdminTypes, SignedOutTabHasNoToken, GetStored
\* Nothing is stored, no tab is added to those that signed out.
<1>1. ASSUME local' = local, own' = own, out' = out PROVE SignedOutTabHasNoToken'
  BY <1>1
\* Tokens are only taken away, and who signs out has none in either storage.
<1>2. ASSUME NEW t \in Tabs, ClearSession(t), out' \subseteq out \cup {t} PROVE SignedOutTabHasNoToken'
  BY <1>2 DEF ClearSession
<1>3. ASSUME NEW t \in Tabs, NEW m \in Administrators, NEW keep \in BOOLEAN, StoreSession(t, m, keep)
      PROVE  SignedOutTabHasNoToken'
  <2>1. CASE keep
    BY <1>3, <2>1 DEF StoreSession
  <2>2. CASE ~keep
    BY <1>3, <2>2 DEF StoreSession
  <2> QED
    BY <2>1, <2>2
<1>4. ASSUME NEW c \in TabCalls, LoginAnswered(c) PROVE SignedOutTabHasNoToken'
  <2>1. tabCall[c].tab \in Tabs /\ tabCall[c].keep \in BOOLEAN
    BY <1>4, RequestOf DEF LoginAnswered
  <2> QED
    BY <1>1, <1>2, <1>3, <1>4, <2>1 DEF LoginAnswered
<1>5. ASSUME NEW c \in TabCalls, MeAnswered(c) PROVE SignedOutTabHasNoToken'
  <2>1. tabCall[c].tab \in Tabs
    BY <1>5, RequestOf DEF MeAnswered
  <2> QED
    BY <1>1, <1>2, <1>5, <2>1 DEF MeAnswered
<1>6. ASSUME NEW t \in Tabs, Logout(t) PROVE SignedOutTabHasNoToken'
  BY <1>2, <1>6 DEF Logout
<1> QED
  BY <1>1, <1>4, <1>5, <1>6 DEF AdminNext, OpenTab, Submit, adminVars

\* Whatever tabs are opened, sign in and out, and whatever answers come late, a tab that has
\* signed out finds no token, and none is stored of somebody who is no administrator
\* (storeSession, clearSession, LoginScreen.submit).
THEOREM NoTokenAfterSignOut == AdminSpec => []SignedOutTabHasNoToken
<1>1. AdminInit => SignedOutTabHasNoToken
  BY DEF AdminInit, SignedOutTabHasNoToken, GetStored
<1> QED
  BY <1>1, AdminTypeCorrect, NoTokenStep, PTL DEF AdminSpec

------------------------------------------------------------------------------
(* The pages on which somebody decides                                        *)

\* A row of a list, what a pane can show, and the requests of a desk: a load, a decision
\* whose payload is being put together, and one that is sent.
ThingRows == [version : 1..MaxVersion, status : Statuses]
ShownRows == UNION {[S -> ThingRows] : S \in SUBSET Things}
Resources == [state : {"loading", "success", "error"}, rows : ShownRows]
DeskActions == ReviewActions \cup GovernanceActions \cup ReleaseActions \cup AccountActions \cup {"save"}
LoadCalls ==
    [stage : {"load"}, desk : Desks, about : SUBSET Things, live : BOOLEAN, answer : Resources \cup {NoThing}]
FreshCalls ==
    [stage : {"fresh"}, desk : Desks, about : SUBSET Things, action : DeskActions, live : BOOLEAN,
     answer : Resources \cup {NoThing}, reason : BOOLEAN, carried : ThingRows, seen : ThingRows \cup {NoThing}]
ActCalls ==
    [stage : {"act"}, desk : Desks, about : SUBSET Things, action : DeskActions, live : BOOLEAN,
     answer : {NoThing, "done", "lost", "conflict"}, reason : BOOLEAN, carried : ThingRows, seen : ThingRows \cup {NoThing}]
DeskRequests == {NoDeskCall} \cup LoadCalls \cup FreshCalls \cup ActCalls

\* The types the steps keep.
DeskTypes ==
    /\ thing \in [Things -> ThingRows]
    /\ page \in [Desks -> DeskPages]
    /\ chosen \in [Desks -> Things \cup {NoThing}]
    /\ pane \in [Desks -> Resources]
    /\ busy \in [Desks -> ReviewActions \cup GovernanceActions \cup {NoThing}]
    /\ reason \in [Desks -> BOOLEAN]
    /\ deskCall \in [DeskCalls -> DeskRequests]

\* ThingRows the server had, now or before.
Were(rows) == \A o \in DOMAIN rows : rows[o].version <= thing[o].version
\* The answer to a question about rows.
Answers(resource, about) ==
    /\ Were(resource.rows) /\ DOMAIN resource.rows \subseteq about
    /\ resource # Failed => DOMAIN resource.rows = about

\* A desk shows rows of what it has asked for last.
PaneOK(d) ==
    /\ chosen[d] \in On(page[d]) \cup {NoThing}
    /\ DOMAIN pane[d].rows \subseteq Asked(page[d], chosen[d])
    /\ Were(pane[d].rows)
\* A load that matters is the last one; a decision on a setting or a release carries what was shown.
LoadOK(call) ==
    /\ call.live => call.about = Asked(page[call.desk], chosen[call.desk])
    /\ call.answer # NoThing => Answers(call.answer, call.about)
\* A decision put together is about one submission, whose answer it waits for.
FreshOK(call) ==
    /\ \E o \in Submissions : call.about = {o}
    /\ call.answer # NoThing => Answers(call.answer, call.about)
\* A decision is about one thing, and about a setting or a release it carries the row that
\* was seen, of a version the setting can still leave.
ActOK(call) ==
    \E o \in Things :
        /\ call.about = {o}
        /\ o \in SettingKeys \cup Releases => call.seen # NoThing /\ call.seen = call.carried
        /\ o \in SettingKeys => call.carried.version < MaxVersion
\* What each request of a desk brings along.
CallOK(call) ==
    /\ call \in LoadCalls => LoadOK(call)
    /\ call \in FreshCalls => FreshOK(call)
    /\ call \in ActCalls => ActOK(call)

\* The inductive invariant: types, panes and requests.
DeskInv == DeskTypes /\ (\A d \in Desks : PaneOK(d)) /\ (\A c \in DeskCalls : CallOK(deskCall[c]))

\* What a page is about, and asks for, are things of the server.
LEMMA OnThings ==
    /\ \A p : On(p) \subseteq Things
    /\ \A p, o : o \in On(p) \cup {NoThing} => Asked(p, o) \subseteq Things
BY DEF On, Things, Asked

\* A setting is on no page but its own, and so is a release.
LEMMA OnApart ==
    ASSUME NEW p \in DeskPages
    PROVE  /\ On(p) \cap SettingKeys # {} => p = "settings"
           /\ On(p) \cap Releases # {} => p = "updates"
           /\ p = "reviews" => On(p) = Submissions
BY DeskAssumption DEF On, DeskPages, DetailPages

\* A pane may show no rows.
LEMMA EmptyRows == <<>> \in ShownRows /\ DOMAIN <<>> = {}
<1>1. DOMAIN <<>> = {}
  OBVIOUS
<1>2. <<>> \in [{} -> ThingRows]
  OBVIOUS
<1> QED
  BY <1>1, <1>2 DEF ShownRows

\* A pane that loads, has failed or has nothing to ask shows none.
LEMMA NoLoads ==
    /\ Loading \in Resources /\ DOMAIN Loading.rows = {} /\ Failed \in Resources /\ DOMAIN Failed.rows = {}
    /\ Loaded(<<>>) \in Resources /\ DOMAIN Loaded(<<>>).rows = {}
BY EmptyRows DEF Loading, Failed, Loaded, Resources

\* The requests are told apart by their stage.
LEMMA Kinds ==
    /\ \A call \in DeskRequests : call # NoDeskCall => call.desk \in Desks /\ call.stage \in {"load", "fresh", "act"}
    /\ \A call \in DeskRequests : call # NoDeskCall /\ call.stage = "load" => call \in LoadCalls
    /\ \A call \in DeskRequests : call # NoDeskCall /\ call.stage = "fresh" => call \in FreshCalls
    /\ \A call \in DeskRequests : call # NoDeskCall /\ call.stage = "act" => call \in ActCalls
    /\ \A call \in LoadCalls : call # NoDeskCall /\ call.stage = "load" /\ call \notin FreshCalls /\ call \notin ActCalls
    /\ \A call \in FreshCalls : call # NoDeskCall /\ call.stage = "fresh" /\ call \notin LoadCalls /\ call \notin ActCalls
    /\ \A call \in ActCalls : call # NoDeskCall /\ call.stage = "act" /\ call \notin LoadCalls /\ call \notin FreshCalls
    /\ NoDeskCall \notin LoadCalls \cup FreshCalls \cup ActCalls
BY DEF DeskRequests, LoadCalls, FreshCalls, ActCalls, NoDeskCall

\* Rows the server had, it had, as its versions only grow.
LEMMA RowsKept ==
    ASSUME NEW rows \in ShownRows, Were(rows), DeskTypes, thing' \in [Things -> ThingRows],
           \A o \in Things : thing'[o].version >= thing[o].version
    PROVE  Were(rows)'
<1>1. \A o \in DOMAIN rows : o \in Things /\ rows[o] \in ThingRows
  BY DEF ShownRows
<1>2. \A o \in DOMAIN rows : thing'[o].version \in Nat /\ thing[o].version \in Nat /\ rows[o].version \in Nat
  BY <1>1 DEF DeskTypes, ThingRows
<1> QED
  BY <1>1, <1>2 DEF Were

\* A call stays as it should be while the server goes on and its desk looks at the same.
LEMMA CallKept ==
    ASSUME NEW call \in DeskRequests, CallOK(call), DeskTypes, thing' \in [Things -> ThingRows],
           \A o \in Things : thing'[o].version >= thing[o].version,
           \/ call \notin LoadCalls \/ ~call.live
           \/ page'[call.desk] = page[call.desk] /\ chosen'[call.desk] = chosen[call.desk]
    PROVE  CallOK(call)'
<1>1. ASSUME NEW resource \in Resources, NEW about, Answers(resource, about) PROVE Answers(resource, about)'
  <2>1. resource.rows \in ShownRows
    BY DEF Resources
  <2> QED
    BY <1>1, <2>1, RowsKept DEF Answers
<1>2. ASSUME call \in LoadCalls PROVE LoadOK(call)'
  <2>1. LoadOK(call)
    BY <1>2 DEF CallOK
  <2>2. call.answer # NoThing => call.answer \in Resources
    BY <1>2 DEF LoadCalls
  <2> QED
    BY <1>1, <1>2, <2>1, <2>2 DEF LoadOK
<1>3. ASSUME call \in FreshCalls PROVE FreshOK(call)'
  <2>1. FreshOK(call)
    BY <1>3 DEF CallOK
  <2>2. call.answer # NoThing => call.answer \in Resources
    BY <1>3 DEF FreshCalls
  <2> QED
    BY <1>1, <2>1, <2>2 DEF FreshOK
<1>4. ASSUME call \in ActCalls PROVE ActOK(call)'
  BY <1>4 DEF CallOK, ActOK
<1> QED
  BY <1>2, <1>3, <1>4 DEF CallOK

\* A request that is over brings nothing along.
LEMMA IdleOK == NoDeskCall \in DeskRequests /\ CallOK(NoDeskCall) /\ CallOK(NoDeskCall)'
BY Kinds DEF DeskRequests, CallOK

\* What is abandoned is the same call, or one that does not matter any more.
LEMMA AbandonedFacts ==
    ASSUME NEW calls \in [DeskCalls -> DeskRequests], NEW d \in Desks, NEW stages \in SUBSET {"load", "fresh", "act"},
           NEW c \in DeskCalls
    PROVE  /\ Abandoned(calls, d, stages)[c] \in DeskRequests
           /\ Abandoned(calls, d, stages)[c] # calls[c] =>
                calls[c] # NoDeskCall /\ Abandoned(calls, d, stages)[c] = [calls[c] EXCEPT !.live = FALSE]
           /\ Abandoned(calls, d, stages)[c] # NoDeskCall /\ Abandoned(calls, d, stages)[c].desk = d
                  /\ Abandoned(calls, d, stages)[c].stage \in stages
                => ~Abandoned(calls, d, stages)[c].live
<1> DEFINE call == calls[c]
<1> DEFINE left == Abandoned(calls, d, stages)[c]
<1>1. left = IF call # NoDeskCall /\ call.desk = d /\ call.stage \in stages
             THEN [call EXCEPT !.live = FALSE] ELSE call
  BY DEF Abandoned
<1>2. call \in DeskRequests
  OBVIOUS
<1> HIDE DEF call
<1>3. CASE left = call
  <2>1. CASE call # NoDeskCall /\ call.desk = d /\ call.stage \in stages
    <3>1. [call EXCEPT !.live = FALSE].live = FALSE
      BY <1>2, <2>1 DEF DeskRequests, LoadCalls, FreshCalls, ActCalls
    <3> QED
      BY <1>1, <1>2, <1>3, <2>1, <3>1 DEF call
  <2> QED
    BY <1>1, <1>2, <1>3 DEF call
<1>4. CASE left = [call EXCEPT !.live = FALSE] /\ call # NoDeskCall
  <2>1. left \in DeskRequests /\ ~left.live
    BY <1>2, <1>4 DEF DeskRequests, LoadCalls, FreshCalls, ActCalls
  <2> QED
    BY <1>1, <1>4, <2>1 DEF call
<1> QED
  BY <1>1, <1>3, <1>4

\* A request that is abandoned brings along what it did.
LEMMA DeadOK ==
    ASSUME NEW call \in DeskRequests, call # NoDeskCall, CallOK(call)
    PROVE  CallOK([call EXCEPT !.live = FALSE])
<1> DEFINE dead == [call EXCEPT !.live = FALSE]
<1>1. CASE call \in LoadCalls
  <2>1. dead \in LoadCalls /\ ~dead.live /\ dead.answer = call.answer /\ dead.about = call.about
    BY <1>1 DEF LoadCalls
  <2> HIDE DEF dead
  <2> QED
    BY <1>1, <2>1, Kinds DEF CallOK, LoadOK, dead
<1>2. CASE call \in FreshCalls
  <2>1. dead \in FreshCalls /\ dead.answer = call.answer /\ dead.about = call.about
    BY <1>2 DEF FreshCalls
  <2> HIDE DEF dead
  <2> QED
    BY <1>2, <2>1, Kinds DEF CallOK, FreshOK, dead
<1>3. CASE call \in ActCalls
  <2>1. /\ dead \in ActCalls /\ dead.about = call.about
        /\ dead.seen = call.seen /\ dead.carried = call.carried
    BY <1>3 DEF ActCalls
  <2> HIDE DEF dead
  <2> QED
    BY <1>3, <2>1, Kinds DEF CallOK, ActOK, dead
<1> QED
  BY <1>1, <1>2, <1>3 DEF DeskRequests

\* The effect of useResource leaves one load that matters, of what is asked for now.
LEMMA UseResourceStep ==
    ASSUME DeskInv, NEW d \in Desks, NEW c \in DeskCalls, NEW p \in DeskPages,
           NEW o \in On(p) \cup {NoThing},
           NEW calls \in [DeskCalls -> DeskRequests], \A k \in DeskCalls : CallOK(calls[k]),
           UseResource(calls, d, c, Asked(p, o)),
           page' = [page EXCEPT ![d] = p], chosen' = [chosen EXCEPT ![d] = o], thing' = thing,
           busy' \in [Desks -> ReviewActions \cup GovernanceActions \cup {NoThing}], reason' \in [Desks -> BOOLEAN]
    PROVE  DeskInv'
<1> DEFINE about == Asked(p, o)
<1> DEFINE left == Abandoned(calls, d, {"load"})
<1>1. about \subseteq Things /\ o \in Things \cup {NoThing}
  BY OnThings
<1> HIDE DEF about
<1>2. /\ page' \in [Desks -> DeskPages] /\ page'[d] = p
      /\ chosen' \in [Desks -> Things \cup {NoThing}] /\ chosen'[d] = o
      /\ \A e \in Desks \ {d} : page'[e] = page[e] /\ chosen'[e] = chosen[e]
  BY <1>1 DEF DeskInv, DeskTypes
<1>3. /\ pane' \in [Desks -> Resources] /\ DOMAIN pane'[d].rows = {}
      /\ \A e \in Desks \ {d} : pane'[e] = pane[e]
  BY NoLoads DEF UseResource, DeskInv, DeskTypes
<1>4. Load(d, about) \in LoadCalls
  BY <1>1 DEF Load, LoadCalls
<1>5. ASSUME NEW k \in DeskCalls PROVE left[k] \in DeskRequests /\ CallOK(left[k])'
  <2>1. left[k] \in DeskRequests /\ CallOK(left[k])
    <3>1. {"load"} \in SUBSET {"load", "fresh", "act"}
      OBVIOUS
    <3>2. /\ left[k] \in DeskRequests
          /\ left[k] # calls[k] => calls[k] # NoDeskCall /\ left[k] = [calls[k] EXCEPT !.live = FALSE]
      BY <3>1, AbandonedFacts
    <3>3. calls[k] \in DeskRequests /\ CallOK(calls[k])
      OBVIOUS
    <3>4. CASE left[k] = calls[k]
      BY <3>3, <3>4
    <3>5. CASE calls[k] # NoDeskCall /\ left[k] = [calls[k] EXCEPT !.live = FALSE]
      <4>1. CallOK([calls[k] EXCEPT !.live = FALSE])
        BY <3>3, <3>5, DeadOK
      <4> QED
        BY <3>2, <3>5, <4>1
    <3> QED
      BY <3>2, <3>4, <3>5
  <2>2. \/ left[k] \notin LoadCalls \/ ~left[k].live
        \/ page'[left[k].desk] = page[left[k].desk] /\ chosen'[left[k].desk] = chosen[left[k].desk]
    <3>1. CASE left[k] # NoDeskCall /\ left[k].desk = d /\ left[k].stage = "load"
      BY <3>1, AbandonedFacts
    <3>2. CASE left[k] # NoDeskCall /\ left[k].desk # d
      BY <1>2, <2>1, <3>2, Kinds
    <3> QED
      BY <3>1, <3>2, Kinds
  <2>3. thing' \in [Things -> ThingRows] /\ \A t \in Things : thing'[t].version >= thing[t].version
    BY DEF DeskInv, DeskTypes, ThingRows
  <2> QED
    BY <2>1, <2>2, <2>3, CallKept DEF DeskInv
<1>6. CallOK(Load(d, about))'
  <2>1. Load(d, about).about = about /\ Load(d, about).answer = NoThing /\ Load(d, about).desk = d
    BY DEF Load
  <2> QED
    BY <1>2, <1>4, <2>1, Kinds DEF CallOK, LoadOK, about
<1>7. \E last \in {NoDeskCall, Load(d, about)} : deskCall' = [left EXCEPT ![c] = last]
  BY DEF UseResource, about
<1>8. left \in [DeskCalls -> DeskRequests]
  <2>1. left = [k \in DeskCalls |-> left[k]]
    BY DEF Abandoned
  <2> QED
    BY <1>5, <2>1
<1> HIDE DEF left
<1>9. deskCall' \in [DeskCalls -> DeskRequests] /\ \A k \in DeskCalls : CallOK(deskCall[k])'
  <2>1. PICK last \in {NoDeskCall, Load(d, about)} : deskCall' = [left EXCEPT ![c] = last]
    BY <1>7
  <2>2. last \in DeskRequests /\ CallOK(last)'
    BY <1>4, <1>6, <2>1, IdleOK DEF DeskRequests
  <2>3. deskCall'[c] = last /\ \A k \in DeskCalls \ {c} : deskCall'[k] = left[k]
    BY <1>8, <2>1
  <2>4. ASSUME NEW k \in DeskCalls, k # c PROVE CallOK(deskCall[k])'
    BY <1>5, <2>3, <2>4
  <2>5. CallOK(deskCall[c])'
    BY <2>2, <2>3
  <2> QED
    BY <1>8, <2>1, <2>2, <2>4, <2>5
<1>10. ASSUME NEW e \in Desks PROVE PaneOK(e)'
  <2>1. CASE e = d
    BY <1>2, <1>3, <2>1 DEF PaneOK, Were
  <2>2. CASE e # d
    BY <1>2, <1>3, <2>2 DEF PaneOK, Were, DeskInv
  <2> QED
    BY <2>1, <2>2
<1>11. thing' \in [Things -> ThingRows]
  BY DEF DeskInv, DeskTypes
<1>12. DeskTypes'
  BY <1>2, <1>3, <1>9, <1>11 DEF DeskTypes
<1> QED
  BY <1>9, <1>10, <1>12 DEF DeskInv

\* One call is at another stage; the desks show what they did.
LEMMA CallStep ==
    ASSUME DeskInv, NEW c \in DeskCalls, NEW call \in DeskRequests, deskCall' = [deskCall EXCEPT ![c] = call],
           thing' \in [Things -> ThingRows], \A o \in Things : thing'[o].version >= thing[o].version,
           page' = page, chosen' = chosen, CallOK(call)', pane' \in [Desks -> Resources],
           \A d \in Desks : PaneOK(d)',
           busy' \in [Desks -> ReviewActions \cup GovernanceActions \cup {NoThing}], reason' \in [Desks -> BOOLEAN]
    PROVE  DeskInv'
<1>1. deskCall' \in [DeskCalls -> DeskRequests] /\ deskCall'[c] = call
      /\ \A k \in DeskCalls \ {c} : deskCall'[k] = deskCall[k]
  BY DEF DeskInv, DeskTypes
<1>2. ASSUME NEW k \in DeskCalls, k # c PROVE CallOK(deskCall[k])'
  <2> DEFINE old == deskCall[k]
  <2>1. old \in DeskRequests /\ CallOK(old) /\ deskCall'[k] = old
    BY <1>1, <1>2 DEF DeskInv, DeskTypes
  <2>2. CallOK(old)'
    BY <2>1, CallKept DEF DeskInv
  <2> QED
    BY <2>1, <2>2
<1>3. CallOK(deskCall[c])'
  BY <1>1
<1>4. DeskTypes'
  BY <1>1 DEF DeskInv, DeskTypes
<1> QED
  BY <1>2, <1>3, <1>4 DEF DeskInv

\* The desks show what they did when the server goes on.
LEMMA PanesKept ==
    ASSUME DeskInv, thing' \in [Things -> ThingRows], \A o \in Things : thing'[o].version >= thing[o].version,
           page' = page, chosen' = chosen, pane' = pane
    PROVE  pane' \in [Desks -> Resources] /\ \A d \in Desks : PaneOK(d)'
<1>1. ASSUME NEW d \in Desks PROVE Were(pane[d].rows)'
  <2>1. pane[d].rows \in ShownRows /\ Were(pane[d].rows)
    BY DEF DeskInv, DeskTypes, PaneOK, Resources
  <2>2. Were(pane[d].rows)'
    <3> DEFINE rows == pane[d].rows
    <3>1. rows \in ShownRows /\ Were(rows) /\ pane'[d].rows = rows
      BY <2>1
    <3> HIDE DEF rows
    <3>2. \A o \in DOMAIN rows : rows[o].version <= thing'[o].version
      BY <3>1, RowsKept DEF DeskInv, Were
    <3> QED
      BY <3>1, <3>2 DEF Were
  <2> QED
    BY <2>2
<1> QED
  BY <1>1 DEF DeskInv, DeskTypes, PaneOK

\* The server that does nothing keeps its versions.
LEMMA SameThings ==
    ASSUME DeskInv, thing' = thing
    PROVE  thing' \in [Things -> ThingRows] /\ \A o \in Things : thing'[o].version >= thing[o].version
BY DEF DeskInv, DeskTypes, ThingRows

\* The answer of the server is what it has.
LEMMA AnswerFacts ==
    ASSUME DeskInv, NEW about \in SUBSET Things,
           NEW answer \in {Failed, Loaded([o \in about |-> thing[o]])}
    PROVE  answer \in Resources /\ Answers(answer, about)
<1>1. CASE answer = Failed
  BY <1>1, NoLoads DEF Answers, Were
<1>2. CASE answer = Loaded([o \in about |-> thing[o]])
  <2>1. [o \in about |-> thing[o]] \in [about -> ThingRows]
    BY DEF DeskInv, DeskTypes
  <2>2. answer \in Resources
    BY <1>2, <2>1 DEF Loaded, Resources, ShownRows
  <2>3. answer.rows = [o \in about |-> thing[o]] /\ \A o \in about : thing[o].version \in Nat
    BY <1>2 DEF Loaded, DeskInv, DeskTypes, ThingRows
  <2> QED
    BY <2>2, <2>3 DEF Answers, Were
<1> QED
  BY <1>1, <1>2

\* The server answers with what it has.
LEMMA ReadStep ==
    ASSUME DeskInv, NEW c \in DeskCalls, Read(c)
    PROVE  DeskInv'
<1>0. PICK old \in DeskRequests : old = deskCall[c]
  BY DEF DeskInv, DeskTypes
<1>1. old # NoDeskCall /\ old.stage \in {"load", "fresh"} /\ CallOK(old)
  BY <1>0 DEF Read, DeskInv
<1>2. old.about \in SUBSET Things
  BY <1>1, Kinds DEF LoadCalls, FreshCalls
<1>3. PICK answer \in {Failed, Loaded([o \in old.about |-> thing[o]])} :
          deskCall' = [deskCall EXCEPT ![c].answer = answer]
  BY <1>0 DEF Read
<1>4. answer \in Resources /\ Answers(answer, old.about)
  BY <1>2, <1>3, AnswerFacts
<1> DEFINE call == [old EXCEPT !.answer = answer]
<1>5. deskCall' = [deskCall EXCEPT ![c] = call]
  BY <1>0, <1>3
<1>6. /\ thing' = thing /\ page' = page /\ chosen' = chosen /\ pane' = pane /\ busy' = busy /\ reason' = reason
  BY DEF Read
<1>7. Answers(answer, old.about)'
  BY <1>4, <1>6 DEF Answers, Were
<1>8. call \in DeskRequests /\ CallOK(call)'
  <2>1. CASE old \in LoadCalls
    <3>1. /\ call \in LoadCalls /\ call.live = old.live /\ call.about = old.about /\ call.desk = old.desk
          /\ call.answer = answer
      BY <1>4, <2>1 DEF LoadCalls
    <3>2. LoadOK(old)
      BY <1>1, <2>1 DEF CallOK
    <3> HIDE DEF call
    <3> QED
      BY <1>6, <1>7, <3>1, <3>2, Kinds DEF CallOK, LoadOK, DeskRequests
  <2>2. CASE old \in FreshCalls
    <3>1. call \in FreshCalls /\ call.about = old.about /\ call.answer = answer
      BY <1>4, <2>2 DEF FreshCalls
    <3>2. FreshOK(old)
      BY <1>1, <2>2 DEF CallOK
    <3> HIDE DEF call
    <3> QED
      BY <1>7, <3>1, <3>2, Kinds DEF CallOK, FreshOK, DeskRequests
  <2> QED
    BY <1>1, <2>1, <2>2, Kinds
<1> HIDE DEF call
<1> QED
  BY <1>5, <1>6, <1>8, CallStep, PanesKept, SameThings DEF DeskInv, DeskTypes

\* An answer that reaches its pane is of what the desk asks for now; the others do not.
LEMMA ShowStep ==
    ASSUME DeskInv, NEW c \in DeskCalls, Show(c)
    PROVE  DeskInv'
<1>0. PICK old \in DeskRequests : old = deskCall[c]
  BY DEF DeskInv, DeskTypes
<1> DEFINE d == old.desk
<1>1. old \in LoadCalls /\ LoadOK(old) /\ old.answer # NoThing
  BY <1>0, Kinds DEF Show, DeskInv, CallOK
<1>2. d \in Desks /\ old.answer \in Resources /\ Answers(old.answer, old.about)
  BY <1>1 DEF LoadCalls, LoadOK
<1>3. deskCall' = [deskCall EXCEPT ![c] = NoDeskCall]
  BY DEF Show
<1>4. /\ thing' = thing /\ page' = page /\ chosen' = chosen /\ busy' = busy /\ reason' = reason
      /\ pane' = IF old.live THEN [pane EXCEPT ![d] = old.answer] ELSE pane
  BY <1>0 DEF Show
<1> HIDE DEF d
<1>5. pane' \in [Desks -> Resources] /\ \A e \in Desks : PaneOK(e)'
  <2>1. CASE ~old.live
    BY <1>4, <2>1, PanesKept, SameThings
  <2>2. CASE old.live
    <3>1. pane' \in [Desks -> Resources] /\ pane'[d] = old.answer /\ \A e \in Desks \ {d} : pane'[e] = pane[e]
      BY <1>2, <1>4, <2>2 DEF DeskInv, DeskTypes
    <3>2. DOMAIN old.answer.rows \subseteq Asked(page[d], chosen[d])
      BY <1>1, <1>2, <2>2 DEF LoadOK, Answers, d
    <3>3. PaneOK(d)'
      BY <1>2, <1>4, <3>1, <3>2 DEF PaneOK, Were, Answers, DeskInv
    <3>4. ASSUME NEW e \in Desks, e # d PROVE PaneOK(e)'
      BY <1>4, <3>1, <3>4 DEF PaneOK, Were, DeskInv
    <3> QED
      BY <3>1, <3>3, <3>4
  <2> QED
    BY <2>1, <2>2
<1> QED
  BY <1>3, <1>4, <1>5, CallStep, SameThings, IdleOK DEF DeskInv, DeskTypes

\* The only member of a set is the one chosen.
LEMMA ChooseOnly == \A o : (CHOOSE r \in {o} : TRUE) = o
OBVIOUS

\* Another page abandons all that was under way.
LEMMA OpenPageStep ==
    ASSUME DeskInv, NEW d \in Desks, NEW c \in DeskCalls, NEW p \in DeskPages, OpenPage(d, c, p)
    PROVE  DeskInv'
<1> DEFINE left == Abandoned(deskCall, d, {"load", "fresh", "act"})
<1>1. deskCall \in [DeskCalls -> DeskRequests] /\ \A k \in DeskCalls : CallOK(deskCall[k])
  BY DEF DeskInv, DeskTypes
<1>2. ASSUME NEW k \in DeskCalls PROVE left[k] \in DeskRequests /\ CallOK(left[k])
  <2>1. {"load", "fresh", "act"} \in SUBSET {"load", "fresh", "act"}
    OBVIOUS
  <2>2. /\ left[k] \in DeskRequests
        /\ left[k] # deskCall[k] =>
             deskCall[k] # NoDeskCall /\ left[k] = [deskCall[k] EXCEPT !.live = FALSE]
    BY <1>1, <2>1, AbandonedFacts
  <2>3. CASE left[k] = deskCall[k]
    BY <1>1, <2>3
  <2>4. CASE left[k] # deskCall[k]
    <3>1. deskCall[k] \in DeskRequests /\ deskCall[k] # NoDeskCall /\ CallOK(deskCall[k])
      BY <1>1, <2>2, <2>4
    <3>2. CallOK([deskCall[k] EXCEPT !.live = FALSE])
      BY <3>1, DeadOK
    <3> QED
      BY <2>2, <2>4, <3>2
  <2> QED
    BY <2>3, <2>4
<1>3. left \in [DeskCalls -> DeskRequests]
  <2>1. left = [k \in DeskCalls |-> left[k]]
    BY DEF Abandoned
  <2> QED
    BY <1>2, <2>1
<1>4. UseResource(left, d, c, Asked(p, NoThing))
  BY DEF OpenPage
<1>5. /\ page' = [page EXCEPT ![d] = p] /\ chosen' = [chosen EXCEPT ![d] = NoThing] /\ thing' = thing
      /\ busy' = [busy EXCEPT ![d] = NoThing] /\ reason' = [reason EXCEPT ![d] = FALSE]
  BY DEF OpenPage
<1>6. /\ busy' \in [Desks -> ReviewActions \cup GovernanceActions \cup {NoThing}]
      /\ reason' \in [Desks -> BOOLEAN]
  BY <1>5 DEF DeskInv, DeskTypes
<1> HIDE DEF left
<1> QED
  BY <1>2, <1>3, <1>4, <1>5, <1>6, UseResourceStep

\* Another row abandons the load of the last.
LEMMA SelectStep ==
    ASSUME DeskInv, NEW d \in Desks, NEW c \in DeskCalls, NEW o \in On(page[d]), Select(d, c, o)
    PROVE  DeskInv'
<1>0. PICK p \in DeskPages : p = page[d]
  BY DEF DeskInv, DeskTypes
<1>1. p \in DetailPages /\ o \in On(p) /\ o # NoThing
  BY <1>0, OnThings, DeskAssumption DEF Select, Things
<1>2. UseResource(deskCall, d, c, Asked(p, o))
  BY <1>1 DEF Select, Asked
<1>3. page' = [page EXCEPT ![d] = p] /\ chosen' = [chosen EXCEPT ![d] = o] /\ thing' = thing
  BY <1>0 DEF Select, DeskInv, DeskTypes
<1>4. /\ busy' \in [Desks -> ReviewActions \cup GovernanceActions \cup {NoThing}]
      /\ reason' \in [Desks -> BOOLEAN]
      /\ deskCall \in [DeskCalls -> DeskRequests] /\ \A k \in DeskCalls : CallOK(deskCall[k])
  BY DEF Select, DeskInv, DeskTypes
<1> QED
  BY <1>1, <1>2, <1>3, <1>4, UseResourceStep

\* So does another filter.
LEMMA FilterStep ==
    ASSUME DeskInv, NEW d \in Desks, NEW c \in DeskCalls, Filter(d, c)
    PROVE  DeskInv'
<1>0. PICK p \in DeskPages : p = page[d]
  BY DEF DeskInv, DeskTypes
<1>1. p \in {"updates", "organization"} /\ On(p) = Asked(p, chosen[d])
  BY <1>0 DEF Filter, Asked, DetailPages
<1>2. PICK o \in On(p) \cup {NoThing} : o = chosen[d]
  BY <1>0 DEF DeskInv, PaneOK
<1>3. UseResource(deskCall, d, c, Asked(p, o))
  BY <1>0, <1>1, <1>2 DEF Filter
<1>4. page' = [page EXCEPT ![d] = p] /\ chosen' = [chosen EXCEPT ![d] = o] /\ thing' = thing
  BY <1>0, <1>2 DEF Filter, DeskInv, DeskTypes
<1>5. /\ busy' \in [Desks -> ReviewActions \cup GovernanceActions \cup {NoThing}]
      /\ reason' \in [Desks -> BOOLEAN]
      /\ deskCall \in [DeskCalls -> DeskRequests] /\ \A k \in DeskCalls : CallOK(deskCall[k])
  BY DEF Filter, DeskInv, DeskTypes
<1> QED
  BY <1>3, <1>4, <1>5, UseResourceStep

\* Only the calls' desks and the buttons change.
LEMMA WriteReasonStep ==
    ASSUME DeskInv, NEW d \in Desks, WriteReason(d)
    PROVE  DeskInv'
<1>1. /\ UNCHANGED <<thing, page, chosen, pane, busy, deskCall>>
      /\ reason' \in [Desks -> BOOLEAN]
  BY DEF WriteReason, DeskInv, DeskTypes
<1>2. DeskTypes'
  BY <1>1 DEF DeskInv, DeskTypes
<1>3. \A e \in Desks : PaneOK(e)'
  BY <1>1, PanesKept, SameThings
<1>4. ASSUME NEW c \in DeskCalls PROVE CallOK(deskCall[c])'
  <2>1. PICK call \in DeskRequests : call = deskCall[c]
    BY DEF DeskInv, DeskTypes
  <2>2. CallOK(call)'
    BY <1>1, <2>1, CallKept, SameThings DEF DeskInv
  <2> QED
    BY <1>1, <2>1, <2>2
<1> QED
  BY <1>2, <1>3, <1>4 DEF DeskInv

\* A submitter changes no setting and no release.
LEMMA ResubmitStep ==
    ASSUME DeskInv, NEW o \in Submissions, Resubmit(o)
    PROVE  DeskInv' /\ \A s \in SettingKeys \cup Releases : thing'[s] = thing[s]
<1>1. UNCHANGED <<page, chosen, pane, busy, reason, deskCall>>
  BY DEF Resubmit
<1>2. o \in Things /\ thing[o] \in ThingRows /\ thing[o].version < MaxVersion
  BY DEF Resubmit, DeskInv, DeskTypes, Things
<1>3. [status |-> "PENDING_REVIEW", version |-> thing[o].version + 1] \in ThingRows
  BY <1>2, DeskAssumption DEF ThingRows, Statuses
<1>4. thing' = [thing EXCEPT ![o] = [status |-> "PENDING_REVIEW", version |-> thing[o].version + 1]]
  BY DEF Resubmit
<1>5. thing' \in [Things -> ThingRows]
  BY <1>3, <1>4 DEF DeskInv, DeskTypes
<1>6. \A t \in Things : thing'[t].version >= thing[t].version
  BY <1>2, <1>4 DEF DeskInv, DeskTypes, ThingRows
<1>7. DeskTypes'
  BY <1>1, <1>5 DEF DeskInv, DeskTypes
<1>8. \A e \in Desks : PaneOK(e)'
  BY <1>1, <1>5, <1>6, PanesKept
<1>9. ASSUME NEW c \in DeskCalls PROVE CallOK(deskCall[c])'
  <2>1. PICK call \in DeskRequests : call = deskCall[c]
    BY DEF DeskInv, DeskTypes
  <2>2. CallOK(call)'
    BY <1>1, <1>5, <1>6, <2>1, CallKept DEF DeskInv
  <2> QED
    BY <1>1, <2>1, <2>2
<1>10. \A s \in SettingKeys \cup Releases : thing'[s] = thing[s]
  BY <1>4, DeskAssumption DEF DeskInv, DeskTypes, Things
<1> QED
  BY <1>7, <1>8, <1>9, <1>10 DEF DeskInv

\* What a desk decides on is on its page, and shown; on every page but that of the reviews
\* and of the extensions, the row shown is the row of the very thing.
LEMMA DecideFacts ==
    ASSUME DeskInv, NEW d \in Desks, NEW o \in Subjects(d),
           pane[d].state = "success", DOMAIN pane[d].rows # {}
    PROVE  /\ o \in Things /\ o \in On(page[d]) /\ o \in DOMAIN pane[d].rows
           /\ RowShown(d, o) = pane[d].rows[o] /\ pane[d].rows[o] \in ThingRows
           /\ pane[d].rows[o].version <= thing[o].version
<1>1. PICK p \in DeskPages : p = page[d]
  BY DEF DeskInv, DeskTypes
<1>2. /\ chosen[d] \in On(p) \cup {NoThing} /\ DOMAIN pane[d].rows \subseteq Asked(p, chosen[d])
      /\ Were(pane[d].rows)
  BY <1>1 DEF DeskInv, PaneOK
<1>3. pane[d].rows \in ShownRows
  BY DEF DeskInv, DeskTypes, Resources
<1>4. o \in DOMAIN pane[d].rows /\ o \in On(p)
  <2>1. CASE p \in DetailPages
    <3>1. o = chosen[d] /\ o # NoThing
      BY <1>1, <2>1 DEF Subjects
    <3>2. DOMAIN pane[d].rows = {o}
      BY <1>2, <2>1, <3>1 DEF Asked
    <3> QED
      BY <1>2, <3>1, <3>2
  <2>2. CASE p \notin DetailPages
    BY <1>1, <1>2, <2>2 DEF Subjects, Asked
  <2> QED
    BY <2>1, <2>2
<1>5. RowShown(d, o) = pane[d].rows[o]
  <2>1. CASE p \in DetailPages
    <3>1. o = chosen[d] /\ o # NoThing
      BY <1>1, <2>1 DEF Subjects
    <3>2. DOMAIN pane[d].rows = {o}
      BY <1>2, <1>4, <2>1, <3>1 DEF Asked
    <3>3. RowShown(d, o) = pane[d].rows[CHOOSE r \in DOMAIN pane[d].rows : TRUE]
      BY <1>1, <2>1 DEF RowShown
    <3>4. (CHOOSE r \in DOMAIN pane[d].rows : TRUE) = o
      BY <3>2, ChooseOnly
    <3> QED
      BY <3>3, <3>4
  <2>2. CASE p \notin DetailPages
    BY <1>1, <2>2 DEF RowShown
  <2> QED
    BY <2>1, <2>2
<1>6. pane[d].rows[o] \in ThingRows
  BY <1>3, <1>4 DEF ShownRows
<1> QED
  BY <1>1, <1>2, <1>4, <1>5, <1>6, OnThings DEF Were

\* A decision carries the row that is shown, of the thing it is about.
LEMMA DecideStep ==
    ASSUME DeskInv, NEW d \in Desks, NEW c \in DeskCalls, NEW a \in Buttons(d), NEW o \in Subjects(d),
           Decide(d, c, o, a)
    PROVE  DeskInv'
<1>1. PICK p \in DeskPages : p = page[d]
  BY DEF DeskInv, DeskTypes
<1>2. PICK row \in ThingRows : row = pane[d].rows[o] /\ RowShown(d, o) = row /\ row.version <= thing[o].version
  BY DecideFacts DEF Decide
<1>3. o \in Things /\ o \in On(p) /\ o \in DOMAIN pane[d].rows
  BY <1>1, DecideFacts DEF Decide
<1>4. PICK r \in BOOLEAN : r = reason[d]
  BY DEF DeskInv, DeskTypes
<1>5. a \in DeskActions /\ (p \in {"reviews", "extensions"} => a \in ReviewActions \cup GovernanceActions)
  BY <1>1 DEF Buttons, DeskActions, ReviewButtons, GovernanceButtons, ReviewActions
<1>6. PICK stage \in {"fresh", "act"} : stage = IF p = "reviews" THEN "fresh" ELSE "act"
  OBVIOUS
<1> DEFINE call == [stage |-> stage, desk |-> d, about |-> {o}, action |-> a, live |-> TRUE, answer |-> NoThing,
                    reason |-> r, carried |-> row, seen |-> row]
<1>7. deskCall' = [deskCall EXCEPT ![c] = call]
  BY <1>1, <1>2, <1>3, <1>4, <1>6 DEF Decide
<1>8. /\ thing' = thing /\ page' = page /\ chosen' = chosen /\ pane' = pane /\ reason' = reason
      /\ busy' = IF p \in {"reviews", "extensions"} THEN [busy EXCEPT ![d] = a] ELSE busy
  BY <1>1 DEF Decide
<1>9. busy' \in [Desks -> ReviewActions \cup GovernanceActions \cup {NoThing}]
  BY <1>5, <1>8 DEF DeskInv, DeskTypes
<1>10. call \in DeskRequests /\ CallOK(call)'
  <2>1. CASE p = "reviews"
    <3>1. call \in FreshCalls /\ call.about = {o} /\ call.answer = NoThing
      BY <1>3, <1>5, <1>6, <2>1 DEF FreshCalls
    <3>2. o \in Submissions
      BY <1>3, <2>1 DEF On
    <3> HIDE DEF call
    <3> QED
      BY <3>1, <3>2, Kinds DEF CallOK, FreshOK, DeskRequests
  <2>2. CASE p # "reviews"
    <3>1. call \in ActCalls /\ call.about = {o} /\ call.seen = row /\ call.carried = row
      BY <1>3, <1>5, <1>6, <2>2 DEF ActCalls
    <3>2. row # NoThing
      BY DeskAssumption DEF ThingRows
    <3>3. o \in SettingKeys => row.version < MaxVersion
      <4>1. o \in SettingKeys => p = "settings"
        BY <1>3, OnApart
      <4>2. thing[o].version \in Nat /\ row.version \in Nat
        BY <1>3 DEF ThingRows, DeskInv, DeskTypes
      <4> QED
        BY <1>1, <1>2, <4>1, <4>2, DeskAssumption DEF Decide
    <3> HIDE DEF call
    <3> QED
      BY <1>3, <3>1, <3>2, <3>3, Kinds DEF CallOK, ActOK, DeskRequests
  <2> QED
    BY <2>1, <2>2
<1> HIDE DEF call
<1> QED
  BY <1>7, <1>8, <1>9, <1>10, CallStep, PanesKept, SameThings DEF DeskInv, DeskTypes

\* A reviewer's payload carries what has been read anew.
LEMMA BuildStep ==
    ASSUME DeskInv, NEW c \in DeskCalls, BuildFreshReviewDecisionPayload(c)
    PROVE  DeskInv'
<1>0. PICK old \in DeskRequests : old = deskCall[c]
  BY DEF DeskInv, DeskTypes
<1>1. old \in FreshCalls /\ FreshOK(old) /\ old.answer # NoThing
  BY <1>0, Kinds DEF BuildFreshReviewDecisionPayload, DeskInv, CallOK
<1>2. PICK o \in Submissions : old.about = {o}
  BY <1>1 DEF FreshOK
<1>3. /\ thing' = thing /\ page' = page /\ chosen' = chosen /\ pane' = pane /\ busy' = busy /\ reason' = reason
  BY DEF BuildFreshReviewDecisionPayload
<1>4. \E answer \in {NoThing, "lost"}, row \in ThingRows :
          deskCall' = [deskCall EXCEPT ![c] = [old EXCEPT !.stage = "act", !.answer = answer, !.carried = row]]
  <2>1. CASE old.answer = Failed
    <3>1. deskCall' = [deskCall EXCEPT ![c] = [old EXCEPT !.stage = "act", !.answer = "lost"]]
      BY <1>0, <2>1 DEF BuildFreshReviewDecisionPayload
    <3>2. [old EXCEPT !.stage = "act", !.answer = "lost"]
              = [old EXCEPT !.stage = "act", !.answer = "lost", !.carried = old.carried]
      BY <1>1 DEF FreshCalls
    <3>3. old.carried \in ThingRows
      BY <1>1 DEF FreshCalls
    <3> QED
      BY <3>1, <3>2, <3>3
  <2>2. CASE old.answer # Failed
    <3>1. o \in DOMAIN old.answer.rows /\ old.answer \in Resources
      BY <1>1, <1>2, <2>2 DEF FreshOK, Answers, FreshCalls
    <3>2. old.answer.rows[o] \in ThingRows
      BY <3>1 DEF Resources, ShownRows
    <3>3. {old.answer.rows[r] : r \in old.about} = {old.answer.rows[o]}
      BY <1>2
    <3>4. (CHOOSE row \in {old.answer.rows[r] : r \in old.about} : TRUE) = old.answer.rows[o]
      BY <3>3, ChooseOnly
    <3>5. deskCall' = [deskCall EXCEPT ![c] =
              [old EXCEPT !.stage = "act", !.answer = NoThing,
                          !.carried = CHOOSE row \in {old.answer.rows[r] : r \in old.about} : TRUE]]
      BY <1>0, <2>2 DEF BuildFreshReviewDecisionPayload
    <3>6. deskCall' = [deskCall EXCEPT ![c] =
              [old EXCEPT !.stage = "act", !.answer = NoThing, !.carried = old.answer.rows[o]]]
      BY <3>4, <3>5
    <3> QED
      BY <3>2, <3>6
  <2> QED
    BY <2>1, <2>2
<1>5. PICK answer \in {NoThing, "lost"}, row \in ThingRows :
          deskCall' = [deskCall EXCEPT ![c] = [old EXCEPT !.stage = "act", !.answer = answer, !.carried = row]]
  BY <1>4
<1> DEFINE call == [old EXCEPT !.stage = "act", !.answer = answer, !.carried = row]
<1>6. call \in ActCalls /\ call.about = {o}
  BY <1>1, <1>2 DEF FreshCalls, ActCalls
<1>7. deskCall' = [deskCall EXCEPT ![c] = call]
  BY <1>5
<1> HIDE DEF call
<1>8. o \in Things /\ o \notin SettingKeys \cup Releases
  BY DeskAssumption DEF Things
<1>9. call \in DeskRequests /\ CallOK(call)'
  BY <1>6, <1>8, Kinds DEF CallOK, ActOK, DeskRequests
<1> QED
  BY <1>3, <1>7, <1>9, CallStep, PanesKept, SameThings DEF DeskInv, DeskTypes

\* The server's thing after a decision it takes.
LEMMA ServeFacts ==
    ASSUME DeskInv, NEW c \in DeskCalls, Serve(c)
    PROVE  /\ deskCall[c] \in ActCalls /\ deskCall[c].answer = NoThing
           /\ \E answer \in {"done", "lost", "conflict"} : deskCall' = [deskCall EXCEPT ![c].answer = answer]
           /\ \E o \in Things :
                  /\ deskCall[c].about = {o}
                  /\ \A t \in Things \ {o} : thing'[t] = thing[t]
                  /\ thing'[o] # thing[o] => Takes(o, deskCall[c])
           /\ thing' \in [Things -> ThingRows]
           /\ \A t \in Things : thing'[t].version >= thing[t].version
<1>1. PICK call \in DeskRequests : call = deskCall[c]
  BY DEF DeskInv, DeskTypes
<1>2. call \in ActCalls /\ call.answer = NoThing /\ ActOK(call)
  BY <1>1, Kinds DEF Serve, DeskInv, CallOK
<1>3. PICK o \in Things : /\ call.about = {o}
                          /\ o \in SettingKeys => call.carried.version < MaxVersion
  BY <1>2 DEF ActOK
<1>4. o = CHOOSE r \in deskCall[c].about : TRUE
  BY <1>1, <1>3, ChooseOnly
<1>8. \/ /\ Takes(o, deskCall[c])
         /\ thing' = [thing EXCEPT ![o] =
                [status |-> After(o, deskCall[c].action),
                 version |-> IF o \in SettingKeys THEN @.version + 1 ELSE @.version]]
         /\ \E answer \in {"done", "lost"} : deskCall' = [deskCall EXCEPT ![c].answer = answer]
      \/ /\ ~Takes(o, deskCall[c])
         /\ deskCall' = [deskCall EXCEPT ![c].answer = "conflict"]
         /\ thing' = thing
      \/ /\ deskCall' = [deskCall EXCEPT ![c].answer = "lost"]
         /\ thing' = thing
  BY <1>4 DEF Serve
<1>5. \/ /\ Takes(o, call)
         /\ thing' = [thing EXCEPT ![o] =
                [status |-> After(o, call.action),
                 version |-> IF o \in SettingKeys THEN @.version + 1 ELSE @.version]]
         /\ \E answer \in {"done", "lost"} : deskCall' = [deskCall EXCEPT ![c].answer = answer]
      \/ /\ ~Takes(o, call)
         /\ deskCall' = [deskCall EXCEPT ![c].answer = "conflict"]
         /\ thing' = thing
      \/ /\ deskCall' = [deskCall EXCEPT ![c].answer = "lost"]
         /\ thing' = thing
  BY <1>1, <1>8
<1>6. \E answer \in {"done", "lost", "conflict"} : deskCall' = [deskCall EXCEPT ![c].answer = answer]
  BY <1>5
<1>7. /\ \A t \in Things \ {o} : thing'[t] = thing[t]
      /\ thing'[o] # thing[o] => Takes(o, call)
      /\ thing' \in [Things -> ThingRows]
      /\ \A t \in Things : thing'[t].version >= thing[t].version
  <2>1. CASE thing' = thing
    BY <2>1, SameThings
  <2>2. CASE /\ Takes(o, call)
             /\ thing' = [thing EXCEPT ![o] =
                    [status |-> After(o, call.action),
                     version |-> IF o \in SettingKeys THEN @.version + 1 ELSE @.version]]
    <3> DEFINE version == IF o \in SettingKeys THEN thing[o].version + 1 ELSE thing[o].version
    <3> DEFINE status == After(o, call.action)
    <3>1. thing' = [thing EXCEPT ![o] = [status |-> status, version |-> version]]
      BY <2>2
    <3>2. status \in Statuses
      BY DEF After, Statuses
    <3>3. thing[o] \in ThingRows /\ thing[o].version \in Nat
      BY DEF DeskInv, DeskTypes, ThingRows
    <3>4. o \in SettingKeys => call.carried.version = thing[o].version
      BY <2>2, DeskAssumption DEF Takes, TakesSetting
    <3>5. version \in 1..MaxVersion /\ version >= thing[o].version
      BY <1>3, <3>3, <3>4, DeskAssumption DEF ThingRows
    <3> HIDE DEF version, status
    <3>6. thing' \in [Things -> ThingRows] /\ thing'[o].version = version /\ \A t \in Things \ {o} : thing'[t] = thing[t]
      BY <3>1, <3>2, <3>5 DEF DeskInv, DeskTypes, ThingRows
    <3>7. \A t \in Things : thing[t].version \in Nat
      BY DEF DeskInv, DeskTypes, ThingRows
    <3> QED
      BY <2>2, <3>5, <3>6, <3>7
  <2> QED
    BY <1>5, <2>1, <2>2
<1> QED
  BY <1>1, <1>2, <1>3, <1>6, <1>7

\* A decision that is served stays what it is.
LEMMA ServeStep ==
    ASSUME DeskInv, NEW c \in DeskCalls, Serve(c)
    PROVE  DeskInv'
<1>0. PICK old \in DeskRequests : old = deskCall[c]
  BY DEF DeskInv, DeskTypes
<1>1. old \in ActCalls /\ ActOK(old)
  BY <1>0, ServeFacts, Kinds DEF DeskInv, CallOK
<1>2. thing' \in [Things -> ThingRows] /\ \A t \in Things : thing'[t].version >= thing[t].version
  BY ServeFacts
<1>3. PICK answer \in {"done", "lost", "conflict"} : deskCall' = [deskCall EXCEPT ![c].answer = answer]
  BY ServeFacts
<1> DEFINE call == [old EXCEPT !.answer = answer]
<1>4. deskCall' = [deskCall EXCEPT ![c] = call]
  BY <1>0, <1>3
<1>5. /\ call \in ActCalls /\ call.about = old.about
      /\ call.seen = old.seen /\ call.carried = old.carried
  BY <1>1 DEF ActCalls
<1> HIDE DEF call
<1>6. call \in DeskRequests /\ CallOK(call)'
  BY <1>1, <1>5, Kinds DEF CallOK, ActOK, DeskRequests
<1>7. page' = page /\ chosen' = chosen /\ pane' = pane /\ busy' = busy /\ reason' = reason
  BY DEF Serve
<1> QED
  BY <1>2, <1>4, <1>6, <1>7, CallStep, PanesKept DEF DeskInv, DeskTypes

\* The answer is over, and what the desk asks for is asked again, or not.
LEMMA SettleStep ==
    ASSUME DeskInv, NEW c \in DeskCalls, Settle(c)
    PROVE  DeskInv'
<1>0. PICK call \in DeskRequests : call = deskCall[c]
  BY DEF DeskInv, DeskTypes
<1>1. call \in ActCalls
  BY <1>0, Kinds DEF Settle
<1>2. PICK d \in Desks : d = call.desk
  BY <1>1 DEF ActCalls
<1>3. thing' = thing /\ page' = page /\ chosen' = chosen
  BY DEF Settle
<1>4. /\ busy' \in [Desks -> ReviewActions \cup GovernanceActions \cup {NoThing}]
      /\ reason' \in [Desks -> BOOLEAN]
  BY <1>0, <1>2 DEF Settle, DeskInv, DeskTypes
<1>5. CASE deskCall' = [deskCall EXCEPT ![c] = NoDeskCall] /\ pane' = pane
  BY <1>3, <1>4, <1>5, IdleOK, CallStep, PanesKept, SameThings
<1>6. CASE UseResource(deskCall, d, c, Asked(page[d], chosen[d]))
  <2>1. PICK p \in DeskPages : p = page[d]
    BY DEF DeskInv, DeskTypes
  <2>2. PICK o \in On(p) \cup {NoThing} : o = chosen[d]
    BY <2>1 DEF DeskInv, PaneOK
  <2>3. UseResource(deskCall, d, c, Asked(p, o))
    BY <1>6, <2>1, <2>2
  <2>4. page' = [page EXCEPT ![d] = p] /\ chosen' = [chosen EXCEPT ![d] = o]
    BY <1>3, <2>1, <2>2 DEF DeskInv, DeskTypes
  <2>5. deskCall \in [DeskCalls -> DeskRequests] /\ \A k \in DeskCalls : CallOK(deskCall[k])
    BY DEF DeskInv, DeskTypes
  <2> QED
    BY <1>3, <1>4, <2>3, <2>4, <2>5, UseResourceStep
<1> QED
  BY <1>0, <1>2, <1>5, <1>6 DEF Settle

\* At first nothing is shown and nothing under way.
LEMMA DeskInvInit == DeskInit => DeskInv
<1> SUFFICES ASSUME DeskInit PROVE DeskInv
  OBVIOUS
<1>1. thing \in [Things -> ThingRows]
  <2>1. \A o \in Things : thing[o] \in ThingRows
    <3> TAKE o \in Things
    <3> DEFINE status == CASE o \in Submissions -> "PENDING_REVIEW" [] o \in Governed -> "PUBLISHED"
                           [] o \in Releases -> "DRAFT" [] OTHER -> "ACTIVE"
    <3>1. thing[o] = [version |-> 1, status |-> status]
      BY DEF DeskInit
    <3>2. status \in Statuses
      BY DEF Statuses
    <3> HIDE DEF status
    <3> QED
      BY <3>1, <3>2, DeskAssumption DEF ThingRows
  <2>2. thing = [o \in Things |-> thing[o]]
    BY DEF DeskInit
  <2> QED
    BY <2>1, <2>2
<1>2. pane \in [Desks -> Resources] /\ \A d \in Desks : DOMAIN pane[d].rows = {}
  BY NoLoads DEF DeskInit
<1>3. deskCall \in [DeskCalls -> DeskRequests] /\ \A c \in DeskCalls : CallOK(deskCall[c])
  BY IdleOK DEF DeskInit
<1>4. /\ page \in [Desks -> DeskPages] /\ chosen \in [Desks -> Things \cup {NoThing}]
      /\ busy \in [Desks -> ReviewActions \cup GovernanceActions \cup {NoThing}] /\ reason \in [Desks -> BOOLEAN]
      /\ \A d \in Desks : chosen[d] = NoThing
  BY DEF DeskInit, DeskPages
<1> QED
  BY <1>1, <1>2, <1>3, <1>4 DEF DeskInv, DeskTypes, PaneOK, Were

\* Every step keeps the invariant.
LEMMA DeskInvStep == DeskInv /\ [DeskNext]_deskVars => DeskInv'
<1> SUFFICES ASSUME DeskInv, [DeskNext]_deskVars PROVE DeskInv'
  OBVIOUS
<1>1. CASE DeskNext
  BY <1>1, ReadStep, ShowStep, BuildStep, ServeStep, SettleStep, OpenPageStep, FilterStep, SelectStep,
     DecideStep, WriteReasonStep, ResubmitStep DEF DeskNext
<1>2. CASE UNCHANGED deskVars
  BY <1>2 DEF deskVars, DeskInv, DeskTypes, PaneOK, Were, CallOK, LoadOK, FreshOK, ActOK, Answers
<1> QED
  BY <1>1, <1>2

\* It carries the types.
LEMMA DeskInvTypes == DeskInv => DeskTypeOK
<1> SUFFICES ASSUME DeskInv PROVE DeskTypeOK
  OBVIOUS
<1>1. \A o \in Things : thing[o].status \in Statuses /\ thing[o].version \in 1..MaxVersion
  BY DEF DeskInv, DeskTypes, ThingRows
<1>2. ASSUME NEW d \in Desks
      PROVE  /\ page[d] \in DeskPages
             /\ chosen[d] \in On(page[d]) \cup {NoThing}
             /\ pane[d].state \in {"loading", "success", "error"}
             /\ DOMAIN pane[d].rows \subseteq Things
             /\ busy[d] \in ReviewActions \cup GovernanceActions \cup {NoThing}
             /\ reason[d] \in BOOLEAN
  BY DEF DeskInv, DeskTypes, PaneOK, Resources, ShownRows
<1>3. ASSUME NEW c \in DeskCalls PROVE deskCall[c].stage \in {"none", "load", "fresh", "act"}
  <2>1. deskCall[c] \in DeskRequests
    BY DEF DeskInv, DeskTypes
  <2> QED
    BY <2>1, Kinds DEF NoDeskCall
<1> QED
  BY <1>1, <1>2, <1>3 DEF DeskTypeOK

\* Type correctness of the pages on which somebody decides (useResource and the pages of
\* the web administration).
THEOREM DeskTypeCorrect == DeskSpec => []DeskTypeOK
BY DeskInvInit, DeskInvStep, DeskInvTypes, PTL DEF DeskSpec

\* Only the server changes a setting or a release, and only for a decision that carries what
\* the desk showed of it: every other step leaves it alone.
LEMMA SavedStep ==
    ASSUME DeskInv, [DeskNext]_deskVars, NEW o \in SettingKeys \cup Releases, thing'[o] # thing[o]
    PROVE  \E c \in DeskCalls :
              /\ TakenBy(c, o)
              /\ deskCall[c].seen # NoThing
              /\ IF o \in SettingKeys THEN deskCall[c].seen.version = thing[o].version
                 ELSE deskCall[c].seen.status = thing[o].status
<1>1. \A s \in Submissions : ~Resubmit(s)
  BY ResubmitStep
<1>11. DeskNext
  BY DEF deskVars
<1>12. ASSUME NEW c \in DeskCalls,
              Read(c) \/ Show(c) \/ BuildFreshReviewDecisionPayload(c) \/ Settle(c) PROVE FALSE
  BY <1>12 DEF Read, Show, BuildFreshReviewDecisionPayload, Settle
<1>13. ASSUME NEW d \in Desks, NEW c \in DeskCalls,
              \/ \E p \in DeskPages : OpenPage(d, c, p)
              \/ Filter(d, c)
              \/ \E s \in On(page[d]) : Select(d, c, s)
              \/ \E a \in Buttons(d) : \E s \in Subjects(d) : Decide(d, c, s, a)
       PROVE  FALSE
  BY <1>13 DEF OpenPage, Filter, Select, Decide
<1>14. ASSUME NEW d \in Desks, WriteReason(d) PROVE FALSE
  BY <1>14 DEF WriteReason
<1>2. PICK c \in DeskCalls : Serve(c)
  BY <1>1, <1>11, <1>12, <1>13, <1>14 DEF DeskNext
<1>3. PICK call \in ActCalls : call = deskCall[c]
  BY <1>2, ServeFacts
<1>4. call.answer = NoThing /\ ActOK(call)
  BY <1>2, <1>3, ServeFacts, Kinds DEF DeskInv, CallOK
<1>5. PICK t \in Things : /\ call.about = {t}
                          /\ \A s \in Things \ {t} : thing'[s] = thing[s]
                          /\ thing'[t] # thing[t] => Takes(t, call)
  BY <1>2, <1>3, ServeFacts
<1>6. o \in Things
  BY DEF Things
<1>7. t = o /\ Takes(o, call)
  BY <1>5, <1>6
<1>8. call.seen # NoThing /\ call.seen = call.carried
  BY <1>4, <1>5, <1>7 DEF ActOK
<1>9. IF o \in SettingKeys THEN call.carried.version = thing[o].version
      ELSE call.carried.status = thing[o].status
  BY <1>7, DeskAssumption DEF Takes, TakesSetting, TakesRelease
<1>10. deskCall'[c] # deskCall[c]
  <2>1. PICK answer \in {"done", "lost", "conflict"} : deskCall' = [deskCall EXCEPT ![c].answer = answer]
    BY <1>2, ServeFacts
  <2>2. deskCall'[c] = [call EXCEPT !.answer = answer]
    BY <1>3, <2>1 DEF DeskInv, DeskTypes
  <2>3. [call EXCEPT !.answer = answer].answer = answer
    BY <1>3 DEF ActCalls
  <2> QED
    BY <1>3, <1>4, <2>2, <2>3, DeskAssumption
<1> QED
  BY <1>3, <1>5, <1>7, <1>8, <1>9, <1>10, Kinds DEF TakenBy

\* Whatever other administrators do, however late answers come and whatever row is chosen
\* meanwhile, a setting is changed and a release moved only by somebody to whom it had been
\* shown as the server has it (useResource, SettingsPage.save, ClientUpdatesPage.transition).
THEOREM SettingsSavedAsShown == DeskSpec => SavedWasShown
<1>1. DeskSpec => []DeskInv
  BY DeskInvInit, DeskInvStep, PTL DEF DeskSpec
<1>2. DeskInv /\ [DeskNext]_deskVars =>
        [\A o \in SettingKeys \cup Releases : thing'[o] # thing[o] =>
          \E c \in DeskCalls :
              /\ TakenBy(c, o)
              /\ deskCall[c].seen # NoThing
              /\ IF o \in SettingKeys THEN deskCall[c].seen.version = thing[o].version
                 ELSE deskCall[c].seen.status = thing[o].status]_deskVars
  BY SavedStep
<1> QED
  BY <1>1, <1>2, PTL DEF DeskSpec, SavedWasShown

------------------------------------------------------------------------------
(* All parts together. They share no variable, so the invariant of each holds *)
(* whichever of them a behaviour looks at.                                    *)

\* What every part keeps.
WindowsInv ==
    /\ focus \in Focus
    /\ SyncInv /\ AdminTypes /\ DeskInv /\ WindowInv /\ PagesInv

\* All parts start as they should.
LEMMA WindowsInvInit == MCInit => WindowsInv
<1>1. AdminInit => AdminTypes
  BY AdminSessionAssumption DEF AdminInit, AdminTypes, TabRequests
<1> QED
  BY <1>1, InitSync, DeskInvInit, WindowInvInit, PagesInvInit, WindowsAssumption DEF MCInit, WindowsInv

\* A step of one part leaves the others alone.
LEMMA WindowsInvStep == WindowsInv /\ [MCNext]_allVars => WindowsInv'
<1> SUFFICES ASSUME WindowsInv, [MCNext]_allVars PROVE WindowsInv'
  OBVIOUS
<1> USE DEF WindowsInv
<1>1. focus' = focus
  BY DEF MCNext, allVars
<1>2. SyncInv'
  <2>1. [Next]_vars
    BY DEF MCNext, allVars
  <2> QED
    BY <2>1, StepSync
<1>3. AdminTypes'
  <2>1. [AdminNext]_adminVars
    BY DEF MCNext, allVars
  <2> QED
    BY <2>1, AdminTypesStep
<1>4. DeskInv'
  <2>1. [DeskNext]_deskVars
    BY DEF MCNext, allVars, DeskStep
  <2> QED
    BY <2>1, DeskInvStep
<1>5. WindowInv'
  <2>1. View!WindowNext \/ UNCHANGED windowVars
    BY DEF MCNext, allVars, WindowStep
  <2> QED
    BY <2>1, WindowInvStep, WindowStutter, WindowsAssumption
<1>6. PagesInv'
  <2>1. Pages!PanelsNext \/ Pages!WizardNext \/ UNCHANGED pagesVars
    BY DEF MCNext, allVars
  <2>2. CASE Pages!PanelsNext
    BY <2>2, PanelStep, WizardStutter, WindowsAssumption DEF PagesInv, Pages!PanelsNext, Pages!wizardVars
  <2>3. CASE Pages!WizardNext
    BY <2>3, WizardStep, PanelStutter DEF PagesInv, Pages!WizardNext, Pages!panelVars
  <2>4. CASE UNCHANGED pagesVars
    BY <2>4, PanelStutter, WizardStutter DEF PagesInv, pagesVars
  <2> QED
    BY <2>1, <2>2, <2>3, <2>4
<1> QED
  BY <1>1, <1>2, <1>3, <1>4, <1>5, <1>6

\* The invariant holds throughout.
THEOREM WindowsInvariance == MCSpec => []WindowsInv
BY WindowsInvInit, WindowsInvStep, PTL DEF MCSpec

\* Type correctness of the window (App), of its local page and wizard, of the pages and tabs of
\* the web administration and of the events that leave the desktop.
THEOREM WindowsTypesCorrect == MCSpec => []WindowsTypeOK
<1>1. WindowsInv => WindowsTypeOK
  <2> SUFFICES ASSUME WindowsInv PROVE WindowsTypeOK
    OBVIOUS
  <2>1. TypeOK /\ DeskTypeOK /\ View!WindowTypeOK /\ Pages!PagesTypeOK
    BY DeskInvTypes, WindowSettles, PagesTypes DEF WindowsInv, SyncInv
  <2>2. \A c \in TabCalls : tabCall[c].kind \in {"none", "login", "me"}
    BY DEF WindowsInv, AdminTypes, TabRequests, NoRequest
  <2>3. AdminTypeOK
    BY <2>2 DEF WindowsInv, AdminTypes, AdminTypeOK
  <2> QED
    BY <2>1, <2>3 DEF WindowsTypeOK
<1> QED
  BY <1>1, WindowsInvariance, PTL

\* The screen never waits for nothing, in whatever order requests are sent and answered, panels
\* opened and left, and start-ups failed and mended (App, LocalPage).
THEOREM EverySpinnerIsWaitedFor == MCSpec => []SpinnersEnd
<1>1. WindowsInv => SpinnersEnd
  BY WindowSettles, PanelsSettled DEF WindowsInv, PagesInv, SpinnersEnd
<1> QED
  BY <1>1, WindowsInvariance, PTL

\* What the publish wizard shows and sends of a package is an inspection of the file it would send,
\* whichever files and kinds are chosen while inspections are under way (PublishWizard).
THEOREM WizardShowsItsFile == MCSpec => []InspectionIsOfTheFile
<1>1. WindowsInv => InspectionIsOfTheFile
  BY InspectionsFollow DEF WindowsInv, PagesInv, InspectionIsOfTheFile
<1> QED
  BY <1>1, WindowsInvariance, PTL
==============================================================================
