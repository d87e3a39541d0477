------------------------------ MODULE MCWindows ------------------------------
(* What people look at, for TLC: the window of the desktop with its local    *)
(* page and publish wizard, the desks and tabs of the web administration,    *)
(* and the events that leave the desktop meanwhile. They share no variable;  *)
(* a behaviour follows one of them, chosen at the start.                     *)
EXTENDS LocalEventSync, AdminDesk, AdminSession, TLC

CONSTANTS WindowCalls, MaxLoads, PageCalls, MaxTargets, Files, Rooted, MaxInspections, None,
          c1, c2, d1, d2

ASSUME WindowsAssumption ==
    /\ MaxLoads \in Nat
    /\ MaxTargets \in Nat \ {0}
    /\ None # "loading"

VARIABLES
    focus,
    window, loads, windowCall, reloading,
    place, busyPanels, pageCall, draft, inspections, submitting, sent

View == INSTANCE AppView
Pages == INSTANCE DesktopPages

windowVars == <<window, loads, windowCall, reloading>>
pagesVars == <<place, busyPanels, pageCall, draft, inspections, submitting, sent>>
allVars == <<vars, deskVars, adminVars, windowVars, pagesVars, focus>>

Studied(f) == focus = f

\* What of the window, of the local page and of the web administration is looked at at a
\* time: the requests, the dialogs, the tabs and the errors.
Sights ==
    [doors   |-> [ops |-> {"boot", "clear", "rebuild", "retry", "login", "logout", "password"},
                  modals |-> {"login", "account", "password"}, tabs |-> {"agent"},
                  faults |-> {"none", "recoverable", "fatal"}],
     pages   |-> [ops |-> {"boot", "login", "search", "detail", "action"}, modals |-> {"login"},
                  tabs |-> {"agent", "community", "search", "local"}, faults |-> {"none"}],
     publish |-> [ops |-> {"boot", "login", "publish", "withdraw"},
                  modals |-> {"login", "publish", "submissions"},
                  tabs |-> {"agent", "community"}, faults |-> {"none"}],
     dialogs |-> [ops |-> {"boot", "login", "logout", "settings", "password", "check", "download",
                           "cancel", "install"},
                  modals |-> {"login", "account", "settings", "password", "update", "notifications"},
                  tabs |-> {"agent"}, faults |-> {"none"}]]
PagesFocus == {"panels", "wizard"}
DeskFocus == {"reviews", "extensions", "settings", "updates", "organization"}
Focus == DOMAIN Sights \cup PagesFocus \cup DeskFocus \cup {"tabs", "sync"}

MCInit ==
    /\ focus \in Focus
    /\ Init /\ DeskInit /\ AdminInit /\ View!WindowInit /\ Pages!PagesInit

\* A step of the window, with three things under way at most.
WindowStep ==
    /\ focus \in DOMAIN Sights
    /\ View!WindowNext
    /\ window'.tab \in Sights[focus].tabs /\ window'.fault \in Sights[focus].faults
    /\ window'.modal \in Sights[focus].modals \cup {"none"}
    /\ \A c \in WindowCalls : windowCall'[c].op \in Sights[focus].ops \cup {"none"}
    /\ Cardinality({c \in WindowCalls : windowCall'[c].op # "none"})
       + Cardinality({k \in DOMAIN loads : loads'[k] > 0}) <= 3

\* A step of the administration: the desks are on the page in focus, or between pages. On
\* the pages that read what they show just before they send, or never again, one desk is.
DeskStep ==
    /\ focus \in DeskFocus
    /\ DeskNext
    /\ \A d \in Desks : page'[d] \in {"overview", focus}
    /\ focus \in {"reviews", "extensions", "organization"} =>
           Cardinality({d \in Desks : page'[d] # "overview"}) < 2

MCNext ==
    /\ UNCHANGED focus
    /\ \/ WindowStep /\ UNCHANGED <<vars, deskVars, adminVars, pagesVars>>
       \/ /\ focus \in PagesFocus
          /\ IF Studied("panels") THEN Pages!PanelsNext ELSE Pages!WizardNext
          /\ UNCHANGED <<vars, deskVars, adminVars, windowVars>>
       \/ DeskStep /\ UNCHANGED <<vars, adminVars, windowVars, pagesVars>>
       \/ Studied("tabs") /\ AdminNext /\ UNCHANGED <<vars, deskVars, windowVars, pagesVars>>
       \/ Studied("sync") /\ Next /\ UNCHANGED <<deskVars, adminVars, windowVars, pagesVars>>

\* Nothing tells one request, or sync pass, from another, nor one desk, tab or event.
Symmetry == Permutations({c1, c2}) \cup Permutations({d1, d2})

MCSpec == MCInit /\ [][MCNext]_allVars

\* The state of every part is of its type.
WindowsTypeOK ==
    CASE Studied("sync") -> TypeOK
      [] Studied("tabs") -> AdminTypeOK
      [] focus \in DeskFocus -> DeskTypeOK
      [] focus \in DOMAIN Sights -> View!WindowTypeOK
      [] OTHER -> Pages!PagesTypeOK

\* The screen never waits for nothing: every spinner and every disabled button of the window
\* (App) and of the local page's panels belongs to a request whose answer is to come, whatever
\* is opened, closed and answered in between, and no panel sends a second one.
SpinnersEnd == View!WindowSpinnersEnd /\ Pages!PanelsSettle

\* What the publish wizard shows of a package is an inspection of the file that it would send.
InspectionIsOfTheFile == Pages!InspectionIsOfTheFile
=============================================================================
