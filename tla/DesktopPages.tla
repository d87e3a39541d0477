----------------------------- MODULE DesktopPages -----------------------------
(* Two parts of the desktop's window that keep a state of their own: the     *)
(* panels of the local page, each with a button that is disabled while its   *)
(* request is under way and gone when the page no longer shows the panel, and *)
(* the publish wizard, which inspects the file somebody chooses while they   *)
(* may already choose another.                                               *)
EXTENDS Naturals, FiniteSets

CONSTANTS
    PageCalls,      \* requests of the panels under way at a time
    MaxTargets,     \* bound on the places kits are installed at by one click
    Files,          \* the files to choose from
    Rooted,         \* those with a SKILL.md at the top
    MaxInspections, \* bound on the inspections under way at a time
    None

VARIABLES
    place,          \* where the local page is
    busyPanels,     \* the panels whose button is disabled
    pageCall,       \* the requests
    draft,          \* the wizard, if it is open
    inspections,    \* the files being inspected for it
    submitting,     \* the window waits for the answer to a submission
    sent            \* what was submitted last

panelVars == <<place, busyPanels, pageCall>>
wizardVars == <<draft, inspections, submitting, sent>>
pagesVars == <<panelVars, wizardVars>>

------------------------------------------------------------------------------
(* The panels of the local page                                            *)

LocalTabs == {"overview", "agents", "projects", "toolkits"}
KitDialogs == {"install", "removeKit", "deleteKit", "exportKit", "editKit"}
Free == [panel |-> "none"]

\* Which panels are on the screen. The audit's button is in the head of every tab.
Mounted(p) ==
    IF p.tab = "away" THEN {}
    ELSE {"audit"}
         \cup (IF p.tab = "agents" THEN {"checkEntry", "previewEntry", "profile"} ELSE {})
         \cup (IF p.tab = "projects" THEN {"removeProject"} ELSE {})
         \cup (IF p.tab = "toolkits" THEN {"kitActions"} \cup ({p.dialog} \ {"none"}) ELSE {})
         \cup (IF p.tab = "toolkits" /\ p.workbench THEN {"workbench", "editor"} ELSE {})
         \cup (IF p.drawer THEN {"checkPath", "previewFile"} ELSE {})

\* Elsewhere: a panel that leaves the screen takes its state along, and the answer to
\* what it asked finds nobody.
GoTo(p) ==
    /\ place' = p
    /\ busyPanels' = busyPanels \cap Mounted(p)
    /\ pageCall' = [c \in PageCalls |->
           IF pageCall[c] # Free /\ pageCall[c].panel \notin Mounted(p)
           THEN [pageCall[c] EXCEPT !.live = FALSE] ELSE pageCall[c]]

SwitchTab(t) ==
    /\ place.tab # t
    /\ GoTo([place EXCEPT !.tab = t, !.drawer = FALSE, !.dialog = "none",
                          !.workbench = IF "away" \in {t, place.tab} THEN FALSE ELSE @])

ToggleWorkbench == place.tab = "toolkits" /\ GoTo([place EXCEPT !.workbench = ~@])

KitDialog(k) ==
    /\ place.tab = "toolkits" /\ place.dialog # k
    /\ GoTo([place EXCEPT !.dialog = k])

\* The details of a resource; another one is shown in the same drawer.
ToggleDrawer == place.tab # "away" /\ GoTo([place EXCEPT !.drawer = ~@])

\* The button that shows where kits are imported also enables the audit's button.
ShowImportPanel ==
    /\ place.tab = "toolkits"
    /\ place' = [place EXCEPT !.workbench = TRUE]
    /\ busyPanels' = busyPanels \ {"audit"}
    /\ UNCHANGED pageCall

\* A click on the panel's button: kits are installed at one place after the other.
Run(c, p) ==
    /\ pageCall[c] = Free
    /\ p \in Mounted(place) /\ p \notin busyPanels
    /\ busyPanels' = busyPanels \cup {p}
    /\ \E n \in IF p = "install" THEN 1..MaxTargets ELSE {1} :
           pageCall' = [pageCall EXCEPT ![c] = [panel |-> p, live |-> TRUE, left |-> n]]
    /\ UNCHANGED place

\* The panel's button is enabled again, whether the request was carried out or not.
Finished(c) ==
    /\ pageCall' = [pageCall EXCEPT ![c] = Free]
    /\ busyPanels' = IF pageCall[c].live THEN busyPanels \ {pageCall[c].panel} ELSE busyPanels

\* An installation that is refused at one place goes on to the next; one that fails leaves
\* the places after it alone.
Answered(c) ==
    /\ pageCall[c] # Free
    /\ \/ Finished(c)
       \/ /\ pageCall[c].left > 1
          /\ pageCall' = [pageCall EXCEPT ![c].left = @ - 1]
          /\ UNCHANGED busyPanels
    /\ UNCHANGED place

PanelsNext ==
    /\ \/ \E t \in LocalTabs \cup {"away"} : SwitchTab(t)
       \/ \E k \in KitDialogs \cup {"none"} : KitDialog(k)
       \/ ToggleWorkbench \/ ToggleDrawer \/ ShowImportPanel
       \/ \E c \in PageCalls : Answered(c) \/ (\E p \in Mounted(place) : Run(c, p))
    /\ UNCHANGED wizardVars

------------------------------------------------------------------------------
(* The publish wizard                                                      *)

ExtensionKinds == {"skill", "mcp", "plugin"}
NewDraft == [step |-> 0, kind |-> "skill", file |-> None, inspection |-> None,
             named |-> FALSE, checking |-> FALSE]

\* A wizard opened again starts over; inspections for the one before are lost.
OpenWizard ==
    /\ draft = None
    /\ draft' = NewDraft
    /\ UNCHANGED <<inspections, submitting, sent>>
CloseWizard ==
    /\ draft # None
    /\ draft' = None
    /\ inspections' = {}
    /\ UNCHANGED <<submitting, sent>>

\* What keeps the wizard at a step: a file that lacks the SKILL.md a skill needs, if the
\* inspection has said so, or a name that is missing.
ValidationPasses(d, step) ==
    /\ ~d.checking
    /\ step = 0 => d.file # None /\ (d.kind = "skill" /\ d.inspection # None => d.inspection.root # FALSE)
    /\ step = 1 => d.named

GoToStep(s) ==
    /\ draft # None /\ ~submitting
    /\ draft.step # s
    /\ \A passed \in draft.step..(s - 1) : ValidationPasses(draft, passed)
    /\ draft' = [draft EXCEPT !.step = s]
    /\ UNCHANGED <<inspections, submitting, sent>>

\* A file, or none, is chosen at the first step, and inspected as the kind chosen by then.
HandleFileSelected(f) ==
    /\ draft # None /\ draft.step = 0
    /\ Cardinality(inspections) < MaxInspections
    /\ draft' = [draft EXCEPT !.file = f, !.inspection = None, !.checking = IF f = None THEN @ ELSE TRUE]
    /\ inspections' = inspections \cup ({[file |-> f, kind |-> draft.kind]} \ {[file |-> None, kind |-> draft.kind]})
    /\ UNCHANGED <<submitting, sent>>

SelectKind(k) ==
    /\ draft # None /\ draft.step = 0
    /\ draft' = [draft EXCEPT !.kind = k, !.inspection = None]
    /\ UNCHANGED <<inspections, submitting, sent>>

\* What an inspection finds: whether a skill's file has its SKILL.md at the top.
InspectPublishPackage(i) ==
    [file |-> i.file, root |-> IF i.kind = "skill" THEN i.file \in Rooted ELSE None]

Inspected_KeepsFile(i) ==
    \E name \in {FALSE, i.kind = "skill" /\ i.file \in Rooted} :
        draft' = [draft EXCEPT !.inspection = InspectPublishPackage(i),
                               !.named = @ \/ name, !.checking = FALSE]

\* The file inspected is the file chosen, from then on, and what the SKILL.md says fills in
\* the names that are missing.
Inspected(i) ==
    \E name \in {FALSE, i.kind = "skill" /\ i.file \in Rooted} :
        draft' = [draft EXCEPT !.file = i.file, !.inspection = InspectPublishPackage(i),
                               !.named = @ \/ name, !.checking = FALSE]

\* An inspection ends, in whatever order they were begun, or fails.
InspectionEnds(i) ==
    /\ i \in inspections
    /\ inspections' = inspections \ {i}
    /\ Inspected(i) \/ draft' = [draft EXCEPT !.checking = FALSE]
    /\ UNCHANGED <<submitting, sent>>

FillMetadata ==
    /\ draft # None /\ draft.step = 1
    /\ draft' = [draft EXCEPT !.named = TRUE]
    /\ UNCHANGED <<inspections, submitting, sent>>

\* The last step hands the draft over, which looks at the file and the names again.
Submit ==
    /\ draft # None /\ draft.step = 3 /\ ~submitting
    /\ ValidationPasses(draft, 0) /\ ValidationPasses(draft, 1)
    /\ submitting' = TRUE
    /\ sent' = [file |-> draft.file, inspection |-> draft.inspection]
    /\ UNCHANGED <<draft, inspections>>
SubmitAnswered ==
    /\ submitting
    /\ submitting' = FALSE
    /\ UNCHANGED <<draft, inspections, sent>>

WizardNext ==
    /\ \/ OpenWizard \/ CloseWizard \/ FillMetadata \/ Submit \/ SubmitAnswered
       \/ \E s \in 0..3 : GoToStep(s)
       \/ \E f \in Files \cup {None} : HandleFileSelected(f)
       \/ \E k \in ExtensionKinds : SelectKind(k)
       \/ \E i \in inspections : InspectionEnds(i)
    /\ UNCHANGED panelVars

------------------------------------------------------------------------------

PagesInit ==
    /\ place = [tab |-> "overview", workbench |-> FALSE, dialog |-> "none", drawer |-> FALSE]
    /\ busyPanels = {}
    /\ pageCall = [c \in PageCalls |-> Free]
    /\ draft = None
    /\ inspections = {}
    /\ submitting = FALSE
    /\ sent = None

PagesNext == PanelsNext \/ WizardNext

PagesSpec == PagesInit /\ [][PagesNext]_pagesVars

------------------------------------------------------------------------------
(* Properties                                                              *)

PagesTypeOK ==
    /\ place.tab \in LocalTabs \cup {"away"} /\ place.dialog \in KitDialogs \cup {"none"}
    /\ busyPanels \subseteq Mounted(place)
    /\ \A c \in PageCalls : pageCall[c] = Free \/ pageCall[c].left \in 1..MaxTargets
    /\ draft # None => draft.step \in 0..3 /\ draft.file \in Files \cup {None}
    /\ \A i \in inspections : i.file \in Files /\ i.kind \in ExtensionKinds
    /\ submitting \in BOOLEAN

\* A panel's button is disabled exactly while the panel waits for an answer, so that no kit is
\* installed, and no project removed, twice by two clicks and no button stays disabled, wherever
\* one goes meanwhile. Only the audit can be begun again, after ShowImportPanel.
PanelsSettle ==
    LET Waiting == {pageCall[c].panel : c \in {k \in PageCalls : pageCall[k] # Free /\ pageCall[k].live}}
    IN busyPanels \subseteq Waiting /\ Waiting \subseteq busyPanels \cup {"audit"}

\* What the wizard shows of a package, and judges it by, is always an inspection of the very
\* file that it would send, though the inspections end in any order (handleFileSelected).
InspectionIsOfTheFile ==
    \A d \in {draft, sent} \ {None} : d.inspection # None => d.inspection.file = d.file
===============================================================================
