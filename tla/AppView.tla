------------------------------- MODULE AppView -------------------------------
(* The window of the desktop client: what it shows while the main process    *)
(* answers. Every request sets a spinner, or disables a button, and its      *)
(* answer is to end that, in whatever order the answers come. What lists and *)
(* details hold is left out; stars and read marks set no spinner.            *)
EXTENDS Naturals, FiniteSets

CONSTANTS
    WindowCalls,    \* requests under way at a time
    MaxLoads,       \* bound on the loads of one list under way at a time
    None

VARIABLES
    window,     \* what the window shows
    loads,      \* how many loads of each list are under way
    windowCall, \* the other requests
    reloading   \* the window is about to be loaded anew

windowVars == <<window, loads, windowCall, reloading>>

Lists == {"catalog", "scan", "submissions", "notifications"}
People == {"user", "mustChangePassword"}
Idle == [op |-> "none"]

\* initialView: tab (search: the results shown on the community tab), the state of
\* the start-up and the error shown for it, who is signed in, the dialog, whether an
\* extension is chosen to be acted on, its details, the update and the spinners.
InitialView ==
    [tab |-> "agent", boot |-> "idle", fault |-> "none", user |-> None, modal |-> "none",
     chosen |-> FALSE, detail |-> None, update |-> None, spinning |-> {}]

WindowInit ==
    /\ window = InitialView
    /\ loads = [k \in Lists |-> 0]
    /\ windowCall = [c \in WindowCalls |-> Idle]
    /\ reloading = FALSE

------------------------------------------------------------------------------
(* Requests and loads                                                      *)

Spin(w, flags) == [w EXCEPT !.spinning = @ \cup flags]
Still(w, flags) == [w EXCEPT !.spinning = @ \ flags]

\* A click sends request c, and the window is w until the answer.
Send(c, op, w) ==
    /\ windowCall[c] = Idle
    /\ windowCall' = [windowCall EXCEPT ![c] = [op |-> op]]
    /\ window' = w
    /\ UNCHANGED <<loads, reloading>>

\* Request c is answered, and the window is w.
End(c, op, w) ==
    /\ windowCall[c].op = op
    /\ windowCall' = [windowCall EXCEPT ![c] = Idle]
    /\ window' = w
    /\ UNCHANGED reloading

\* The window is w and the lists are loaded.
ThenLoad(w, lists) ==
    /\ \A k \in lists : loads[k] < MaxLoads
    /\ loads' = [k \in Lists |-> IF k \in lists THEN loads[k] + 1 ELSE loads[k]]
    /\ window' = Spin(w, lists \ {"notifications"})

\* A list has come, or failed. The scan of the machine and the reading of its
\* resources both end before the list is shown.
LoadEnds(k) ==
    /\ loads[k] > 0
    /\ loads' = [loads EXCEPT ![k] = @ - 1]
    /\ window' = Still(window, {k})
    /\ UNCHANGED <<windowCall, reloading>>

------------------------------------------------------------------------------
(* Start-up                                                                *)

Faults == {"recoverable", "fatal"}

BeginBoot(c) ==
    /\ window.boot = "idle"
    /\ windowCall[c] = Idle
    /\ windowCall' = [windowCall EXCEPT ![c] = [op |-> "boot", stage |-> "startup", waits |-> {}]]
    /\ window' = [window EXCEPT !.boot = "loading"]
    /\ UNCHANGED <<loads, reloading>>

BootAt(c, stage) == windowCall[c].op = "boot" /\ windowCall[c].stage = stage
BootTo(c, stage, waits) ==
    windowCall' = [windowCall EXCEPT ![c] = [op |-> "boot", stage |-> stage, waits |-> waits]]

BootFails(c, faults) ==
    \E f \in faults : End(c, "boot", [window EXCEPT !.boot = "error", !.fault = f, !.modal = "login"])

\* The services of the client are waited for, and their failure or nine seconds end it.
WaitForStartupReady(c) ==
    /\ BootAt(c, "startup")
    /\ \/ BootTo(c, "session", {}) /\ UNCHANGED <<window, reloading>>
       \/ BootFails(c, Faults)
    /\ UNCHANGED loads

\* The session, the device and the settings are read.
BootSession(c) ==
    /\ BootAt(c, "session")
    /\ \/ \E next \in {"me", "autoLogin", "nobody"} : BootTo(c, next, {}) /\ UNCHANGED <<window, reloading>>
       \/ BootFails(c, Faults)
    /\ UNCHANGED loads

\* The window is ready: with who, if there is a session, the error met on the way, and
\* the update the main process keeps, if it keeps one.
BootReady(hasSession, u, f) ==
    {[window EXCEPT !.boot = "ready", !.fault = f, !.user = u,
                    !.update = update, !.modal = IF hasSession THEN @ ELSE "login"] :
        update \in {window.update, "available", "verified"}}

\* Who it is, or a login with what was remembered; then what waits to be sent is sent.
BootUser(c) ==
    \/ /\ BootAt(c, "me") \/ BootAt(c, "autoLogin")
       /\ \E u \in People : window' \in BootReady(TRUE, u, "none")
       /\ BootTo(c, "sync", {})
       /\ UNCHANGED <<loads, reloading>>
    \/ /\ BootAt(c, "me")
       /\ \E f \in {"none", "recoverable"} : \E w \in BootReady(TRUE, None, f) : ThenLoad(w, {"scan"})
       /\ windowCall' = [windowCall EXCEPT ![c] = Idle]
       /\ UNCHANGED reloading
    \/ BootAt(c, "me") /\ BootFails(c, {"fatal"}) /\ UNCHANGED loads
    \/ /\ BootAt(c, "autoLogin")
       /\ \E f \in Faults \cup {"none"} : \E w \in BootReady(FALSE, None, f) : End(c, "boot", w)
       /\ UNCHANGED loads
    \/ /\ BootAt(c, "nobody")
       /\ \E w \in BootReady(FALSE, None, "none") : End(c, "boot", w)
       /\ UNCHANGED loads

\* The lists of the first screen, whose end the start-up waits for.
BootLists == {"catalog", "scan", "notifications"}
BootLoads(c) ==
    /\ BootAt(c, "sync")
    /\ BootTo(c, "loads", BootLists)
    /\ window' = Spin(window, BootLists \ {"notifications"})
    /\ UNCHANGED <<loads, reloading>>
BootLoadEnds(c, k) ==
    /\ BootAt(c, "loads") /\ k \in windowCall[c].waits
    /\ BootTo(c, "loads", windowCall[c].waits \ {k})
    /\ window' = Still(window, {k})
    /\ UNCHANGED <<loads, reloading>>

\* Whoever must change the password is then asked to: the user the start-up found.
BootEnds(c) ==
    /\ BootAt(c, "loads") /\ windowCall[c].waits = {}
    /\ \/ End(c, "boot", [window EXCEPT !.modal = "password"])
       \/ End(c, "boot", window)
    /\ UNCHANGED loads

Reload ==
    /\ reloading
    /\ window' = InitialView
    /\ loads' = [k \in Lists |-> 0]
    /\ windowCall' = [c \in WindowCalls |-> Idle]
    /\ reloading' = FALSE

\* The panel that offers to mend a start-up that failed.
RecoveryOffered ==
    /\ window.boot = "error" /\ window.user = None /\ window.fault # "recoverable"
    /\ "recovery" \notin window.spinning

ClearStartupSession(c) ==
    \/ RecoveryOffered /\ Send(c, "clear", Spin(window, {"recovery"}))
    \/ /\ \/ End(c, "clear", [Still(window, {"recovery"}) EXCEPT
                                  !.boot = "ready", !.fault = "none", !.user = None, !.modal = "login"])
          \/ \E f \in Faults : End(c, "clear", [Still(window, {"recovery"}) EXCEPT !.fault = f, !.modal = "login"])
       /\ UNCHANGED loads

\* After the rebuild the start-up is tried again, and the window loaded anew.
RebuildStartupDatabase(c) ==
    \/ RecoveryOffered /\ Send(c, "rebuild", Spin(window, {"recovery"}))
    \/ /\ windowCall[c].op = "rebuild"
       /\ windowCall' = [windowCall EXCEPT ![c] = Idle]
       /\ window' = [Still(window, {"recovery"}) EXCEPT !.boot = "loading"]
       /\ reloading' = TRUE
       /\ UNCHANGED loads
    \/ /\ \E f \in Faults : End(c, "rebuild", [Still(window, {"recovery"}) EXCEPT !.fault = f])
       /\ UNCHANGED loads

\* The main process never refuses to try again.
RetryStartup(c) ==
    \/ RecoveryOffered /\ Send(c, "retry", [Spin(window, {"recovery"}) EXCEPT !.boot = "loading"])
    \/ /\ windowCall[c].op = "retry"
       /\ windowCall' = [windowCall EXCEPT ![c] = Idle]
       /\ reloading' = TRUE
       /\ UNCHANGED <<window, loads>>

------------------------------------------------------------------------------
(* Who is signed in                                                        *)

Login(c) ==
    /\ window.modal = "login" /\ window.boot # "loading"
    /\ Send(c, "login", [window EXCEPT !.boot = "loading", !.fault = "none"])

LoginFails_StillLoading(c) ==
    /\ \E f \in Faults : End(c, "login", [window EXCEPT !.fault = f, !.modal = "login"])
    /\ UNCHANGED loads

\* The login is refused, or the question who it is fails after it.
LoginFails(c) ==
    /\ \E f \in Faults : End(c, "login", [window EXCEPT !.boot = "ready", !.fault = f, !.modal = "login"])
    /\ UNCHANGED loads

LoginAnswered(c) ==
    \/ /\ windowCall[c].op = "login"
       /\ \E u \in People :
              ThenLoad([window EXCEPT !.user = u, !.boot = "ready",
                                      !.modal = IF u = "user" THEN "none" ELSE "password"], BootLists)
       /\ windowCall' = [windowCall EXCEPT ![c] = Idle]
       /\ UNCHANGED reloading
    \/ LoginFails(c)

Logout(c) ==
    \/ window.modal = "account" /\ window.user # None /\ Send(c, "logout", window)
    \/ End(c, "logout", [window EXCEPT !.user = None, !.modal = "login"]) /\ UNCHANGED loads

ChangePassword(c) ==
    \/ /\ window.modal = "password" /\ "password" \notin window.spinning
       /\ Send(c, "password", Spin(window, {"password"}))
    \/ /\ \/ End(c, "password", [Still(window, {"password"}) EXCEPT !.user = None, !.modal = "login"])
          \/ End(c, "password", Still(window, {"password"}))
       /\ UNCHANGED loads

------------------------------------------------------------------------------
(* Pages and dialogs                                                       *)

\* Another tab: results found stay behind the community tab only. A tab's list is loaded.
ChangeTab(t) ==
    /\ t \in {"agent", "community", "local"}
    /\ LET w == [window EXCEPT !.tab = IF t = "community" /\ @ = "search" THEN @ ELSE t]
       IN ThenLoad(w, CASE t = "community" -> {"catalog"} [] t = "local" -> {"scan"} [] OTHER -> {})
    /\ UNCHANGED <<windowCall, reloading>>

\* The buttons that load a list again.
Refresh ==
    /\ \/ window.tab = "local" /\ ThenLoad(window, {"scan"})
       \/ window.modal = "submissions" /\ ThenLoad(window, {"submissions"})
    /\ UNCHANGED <<windowCall, reloading>>

\* The dialogs the buttons on the screen open.
Openable ==
    {"notifications", IF window.user = None THEN "login" ELSE "account"}
        \cup (IF window.tab = "agent" \/ window.modal = "settings" THEN {"update"} ELSE {})
        \cup (IF window.tab = "agent" \/ window.modal = "account" THEN {"settings"} ELSE {})
        \cup (IF window.tab = "community" THEN {"publish", "submissions"} ELSE {})
        \cup (IF window.modal \in {"account", "settings"} /\ window.user # None THEN {"password"} ELSE {})

OpenModal(m) ==
    /\ m \in Openable
    /\ ThenLoad([window EXCEPT !.modal = m], {m} \cap {"submissions", "notifications"})
    /\ UNCHANGED <<windowCall, reloading>>

CloseModal ==
    /\ window.modal # "none"
    /\ ~(window.modal = "password" /\ window.user = "mustChangePassword")
    /\ window' = [window EXCEPT !.modal = "none"]
    /\ UNCHANGED <<loads, windowCall, reloading>>

\* A search shows its results on the community tab, and so does its late answer.
Search(c) ==
    \/ window.tab = "community" /\ Send(c, "search", [Spin(window, {"search"}) EXCEPT !.tab = "search"])
    \/ End(c, "search", Still(window, {"search"})) /\ UNCHANGED loads

BackToCommunity ==
    /\ window.tab = "search"
    /\ window' = [Still(window, {"search"}) EXCEPT !.tab = "community"]
    /\ UNCHANGED <<loads, windowCall, reloading>>

\* The details of an extension, from the server or from what is known here. An answer
\* that comes late opens them again.
OpenDetail(c) ==
    \/ /\ window.tab \in {"community", "search"}
       /\ Send(c, "detail", [window EXCEPT !.detail = "loading"])
    \/ /\ \E d \in {"ready", "error"} : End(c, "detail", [window EXCEPT !.detail = d])
       /\ UNCHANGED loads

CloseDetail ==
    /\ window.detail # None
    /\ window' = [window EXCEPT !.detail = None]
    /\ UNCHANGED <<loads, windowCall, reloading>>

OpenAction ==
    /\ window.tab = "search" \/ window.detail # None
    /\ window' = [window EXCEPT !.chosen = TRUE]
    /\ UNCHANGED <<loads, windowCall, reloading>>

CloseAction ==
    /\ window.chosen
    /\ window' = [window EXCEPT !.chosen = FALSE]
    /\ UNCHANGED <<loads, windowCall, reloading>>

\* An installation or configuration, or its dry run; what it did is then looked for.
RunAction(c) ==
    \/ /\ window.chosen /\ "action" \notin window.spinning
       /\ Send(c, "action", Spin(window, {"action"}))
    \/ /\ windowCall[c].op = "action"
       /\ windowCall' = [windowCall EXCEPT ![c] = Idle]
       /\ \E lists \in {{}, {"scan"}} : ThenLoad(Still(window, {"action"}), lists)
       /\ UNCHANGED reloading

\* From the settings, while no other save is under way, or by the switch of the theme.
SaveSettings(c) ==
    \/ /\ \/ window.modal = "settings" /\ "settings" \notin window.spinning
          \/ window.modal = "account"
       /\ Send(c, "settings", Spin(window, {"settings"}))
    \/ End(c, "settings", Still(window, {"settings"})) /\ UNCHANGED loads

\* The buttons of the update: one request at a time.
UpdateButton(state) ==
    /\ window.modal = "update" /\ "update" \notin window.spinning
    /\ window.update \in state

Updated(c, op, states) ==
    /\ \E s \in states \cup {window.update} :
           End(c, op, [Still(window, {"update"}) EXCEPT !.update = s])
    /\ UNCHANGED loads

CheckUpdate(c) ==
    \/ UpdateButton({window.update}) /\ Send(c, "check", Spin(window, {"update"}))
    \/ Updated(c, "check", {None, "available"})
DownloadUpdate(c) ==
    \/ UpdateButton({"available"}) /\ Send(c, "download", Spin(window, {"update"}))
    \/ Updated(c, "download", {"verified"})
CancelUpdate(c) ==
    \/ UpdateButton({window.update} \ {None}) /\ Send(c, "cancel", Spin(window, {"update"}))
    \/ Updated(c, "cancel", {"cancelled"})
InstallUpdate(c) ==
    \/ UpdateButton({"verified"}) /\ Send(c, "install", Spin(window, {"update"}))
    \/ Updated(c, "install", {"launched"})

\* A package is uploaded and submitted, and the list of submissions loaded.
SubmitPublish(c) ==
    /\ window.modal = "publish" /\ "publish" \notin window.spinning
    /\ Send(c, "publish", Spin(window, {"publish"}))
SubmitPublishAnswered(c) ==
    /\ windowCall[c].op = "publish"
    /\ windowCall' = [windowCall EXCEPT ![c] = Idle]
    /\ \E lists \in {{}, {"submissions"}} : ThenLoad(Still(window, {"publish"}), lists)
    /\ UNCHANGED reloading

\* A withdrawal has no spinner; its failure shows an error in place of the list's own.
WithdrawSubmission(c) ==
    \/ window.modal = "submissions" /\ "submissions" \notin window.spinning /\ Send(c, "withdraw", window)
    \/ /\ windowCall[c].op = "withdraw"
       /\ windowCall' = [windowCall EXCEPT ![c] = Idle]
       /\ ThenLoad(window, {"submissions"})
       /\ UNCHANGED reloading
    \/ End(c, "withdraw", Still(window, {"submissions"})) /\ UNCHANGED loads

WindowNext ==
    \/ \E c \in WindowCalls :
           \/ BeginBoot(c) \/ WaitForStartupReady(c) \/ BootSession(c) \/ BootUser(c)
           \/ BootLoads(c) \/ BootEnds(c) \/ \E k \in Lists : BootLoadEnds(c, k)
           \/ ClearStartupSession(c) \/ RebuildStartupDatabase(c) \/ RetryStartup(c)
           \/ Login(c) \/ LoginAnswered(c) \/ Logout(c) \/ ChangePassword(c)
           \/ Search(c) \/ OpenDetail(c) \/ RunAction(c) \/ SaveSettings(c)
           \/ CheckUpdate(c) \/ DownloadUpdate(c) \/ CancelUpdate(c) \/ InstallUpdate(c)
           \/ SubmitPublish(c) \/ SubmitPublishAnswered(c) \/ WithdrawSubmission(c)
    \/ \E k \in Lists : LoadEnds(k)
    \/ Reload
    \/ \E t \in {"agent", "community", "local"} : ChangeTab(t)
    \/ Refresh
    \/ \E m \in Openable : OpenModal(m)
    \/ CloseModal \/ BackToCommunity \/ CloseDetail \/ OpenAction \/ CloseAction

------------------------------------------------------------------------------
(* Properties                                                              *)

\* The request each spinner is for.
SpinnerOps(f) ==
    CASE f = "search" -> {"search"}
      [] f = "action" -> {"action"}
      [] f = "settings" -> {"settings"}
      [] f = "password" -> {"password"}
      [] f = "publish" -> {"publish"}
      [] f = "update" -> {"check", "download", "cancel", "install"}
      [] f = "recovery" -> {"clear", "rebuild", "retry"}
      [] OTHER -> {}

WindowTypeOK ==
    /\ window.tab \in {"agent", "community", "search", "local"}
    /\ window.boot \in {"idle", "loading", "ready", "error"}
    /\ window.fault \in Faults \cup {"none"}
    /\ window.user \in People \cup {None}
    /\ window.detail \in {None, "loading", "ready", "error"}
    /\ loads \in [Lists -> 0..MaxLoads]
    /\ reloading \in BOOLEAN

\* The window never waits for nothing: each spinner, each disabled button and a start-up
\* shown as under way belong to a request whose answer is still to come, or to a window
\* about to be loaded anew, whatever was opened, closed and answered in between.
WindowSpinnersEnd ==
    LET Pending(ops) == \E c \in WindowCalls : windowCall[c].op \in ops
    IN reloading \/
       /\ \A f \in window.spinning \cap Lists :
              loads[f] > 0 \/ \E c \in WindowCalls : windowCall[c].op = "boot" /\ f \in windowCall[c].waits
       /\ \A f \in window.spinning \ Lists : Pending(SpinnerOps(f))
       /\ window.boot = "loading" => Pending({"boot", "login", "retry"})
       /\ window.detail = "loading" => Pending({"detail"})
==============================================================================
