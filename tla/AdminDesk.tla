------------------------------ MODULE AdminDesk ------------------------------
(* The pages of the web administration on which somebody decides: reviews,   *)
(* extensions, settings, client updates, the organisation. A desk is a tab   *)
(* of an administrator's browser. It shows what a request has read from the  *)
(* server, so what it shows may be old, and what it sends may reach a        *)
(* server that somebody else has changed.                                    *)
EXTENDS Naturals, FiniteSets

CONSTANTS
    Desks,
    Submissions, Governed, SettingKeys, Releases, Accounts, \* what the pages are about
    DeskCalls,      \* requests under way at a time
    MaxVersion,     \* bound on the revisions of a submission and the versions of a setting
    NoThing

\* The status of a submission (SubmissionStatus), an extension, a setting, a release or an
\* account: the ones their decisions lead to.
Statuses ==
    {"PENDING_REVIEW", "APPROVED", "CHANGES_REQUESTED", "REJECTED", "DELISTED", "SECURITY_DELISTED",
     "PUBLISHED", "ARCHIVED", "DRAFT", "PAUSED", "WITHDRAWN", "FROZEN", "DELETED", "ACTIVE"}

\* Ids are of one kind of thing each, and NoThing is told from all a desk can have instead.
ASSUME DeskAssumption ==
    /\ MaxVersion \in Nat \ {0}
    /\ Submissions \cap (Governed \cup SettingKeys \cup Releases \cup Accounts) = {}
    /\ Governed \cap (SettingKeys \cup Releases \cup Accounts) = {}
    /\ SettingKeys \cap (Releases \cup Accounts) = {}
    /\ Releases \cap Accounts = {}
    /\ NoThing \notin Submissions \cup Governed \cup SettingKeys \cup Releases \cup Accounts
    /\ NoThing \notin [version : 1..MaxVersion, status : Statuses]
    /\ NoThing \notin {"done", "lost", "conflict"}

VARIABLES
    thing,      \* what the server has of each: its status and its version
    page,       \* the page a desk is on
    chosen,     \* the row chosen in the list of a page with details
    pane,       \* what the page shows: a Resource
    busy,       \* the decision the buttons are disabled for
    reason,     \* whether the reason, or the comment, is filled in
    deskCall    \* the requests

deskVars == <<thing, page, chosen, pane, busy, reason, deskCall>>

Things == Submissions \cup Governed \cup SettingKeys \cup Releases \cup Accounts
DetailPages == {"reviews", "extensions", "settings"}
DeskPages == DetailPages \cup {"overview", "updates", "organization"}

\* What a page is about.
On(p) == CASE p = "reviews" -> Submissions
           [] p = "extensions" -> Governed
           [] p = "settings" -> SettingKeys
           [] p = "updates" -> Releases
           [] p = "organization" -> Accounts
           [] OTHER -> {}

\* A Resource: being loaded, or loaded with the rows the server had, or failed.
Loading == [state |-> "loading", rows |-> <<>>]
Failed == [state |-> "error", rows |-> <<>>]
Loaded(rows) == [state |-> "success", rows |-> rows]

NoDeskCall == [stage |-> "none"]
Load(d, about) == [stage |-> "load", desk |-> d, about |-> about, live |-> TRUE, answer |-> NoThing]

DeskInit ==
    /\ thing = [o \in Things |->
                    [version |-> 1,
                     status |-> CASE o \in Submissions -> "PENDING_REVIEW"
                                  [] o \in Governed -> "PUBLISHED"
                                  [] o \in Releases -> "DRAFT"
                                  [] OTHER -> "ACTIVE"]]
    /\ page = [d \in Desks |-> "overview"]
    /\ chosen = [d \in Desks |-> NoThing]
    /\ pane = [d \in Desks |-> Loaded(<<>>)]
    /\ busy = [d \in Desks |-> NoThing]
    /\ reason = [d \in Desks |-> FALSE]
    /\ deskCall = [c \in DeskCalls |-> NoDeskCall]

------------------------------------------------------------------------------
(* Loading                                                                 *)

\* The requests at these stages no longer matter to the desk that sent them.
Abandoned(calls, d, stages) ==
    [c \in DeskCalls |->
        IF calls[c] # NoDeskCall /\ calls[c].desk = d /\ calls[c].stage \in stages
        THEN [calls[c] EXCEPT !.live = FALSE] ELSE calls[c]]

\* What a page asks the server for: the row chosen, or all of its list.
Asked(p, o) == IF p \notin DetailPages THEN On(p) ELSE IF o = NoThing THEN {} ELSE {o}

\* The effect of useResource: the request before is cancelled, the pane is
\* emptied, and call c asks again. Without a row there is nothing to ask.
UseResource(calls, d, c, about) ==
    LET left == Abandoned(calls, d, {"load"})
    IN IF about = {}
       THEN /\ pane' = [pane EXCEPT ![d] = Loaded(<<>>)]
            /\ deskCall' = [left EXCEPT ![c] = NoDeskCall]
       ELSE /\ pane' = [pane EXCEPT ![d] = Loading]
            /\ deskCall' = [left EXCEPT ![c] = Load(d, about)]

\* The server reads the rows, for a pane or for a reviewer's fresh payload,
\* or the request fails.
Read(c) ==
    /\ deskCall[c] # NoDeskCall
    /\ deskCall[c].stage \in {"load", "fresh"}
    /\ deskCall[c].answer = NoThing
    /\ \E answer \in {Failed, Loaded([o \in deskCall[c].about |-> thing[o]])} :
           deskCall' = [deskCall EXCEPT ![c].answer = answer]
    /\ UNCHANGED <<thing, page, chosen, pane, busy, reason>>

Show_Uncancelled(c) ==
    /\ deskCall[c] # NoDeskCall
    /\ deskCall[c].stage = "load" /\ deskCall[c].answer # NoThing
    /\ pane' = [pane EXCEPT ![deskCall[c].desk] = deskCall[c].answer]
    /\ deskCall' = [deskCall EXCEPT ![c] = NoDeskCall]
    /\ UNCHANGED <<thing, page, chosen, busy, reason>>

\* The answer reaches the pane, unless it has been cancelled.
Show(c) ==
    /\ deskCall[c] # NoDeskCall
    /\ deskCall[c].stage = "load" /\ deskCall[c].answer # NoThing
    /\ pane' = IF deskCall[c].live THEN [pane EXCEPT ![deskCall[c].desk] = deskCall[c].answer] ELSE pane
    /\ deskCall' = [deskCall EXCEPT ![c] = NoDeskCall]
    /\ UNCHANGED <<thing, page, chosen, busy, reason>>

\* Another page: the components of the last are gone with their state.
OpenPage(d, c, p) ==
    /\ page[d] # p
    /\ deskCall[c] = NoDeskCall
    /\ page' = [page EXCEPT ![d] = p]
    /\ chosen' = [chosen EXCEPT ![d] = NoThing]
    /\ busy' = [busy EXCEPT ![d] = NoThing]
    /\ reason' = [reason EXCEPT ![d] = FALSE]
    /\ UseResource(Abandoned(deskCall, d, {"load", "fresh", "act"}), d, c, Asked(p, NoThing))
    /\ UNCHANGED thing

\* A row of the list, whose detail is asked for. The buttons, the comment and
\* a decision under way stay as they are: the panel is the same.
Select(d, c, o) ==
    /\ page[d] \in DetailPages
    /\ o \in On(page[d])
    /\ chosen[d] # o
    /\ deskCall[c] = NoDeskCall
    /\ chosen' = [chosen EXCEPT ![d] = o]
    /\ UseResource(deskCall, d, c, {o})
    /\ UNCHANGED <<thing, page, busy, reason>>

\* A list without details is filtered, and so asked for again.
Filter(d, c) ==
    /\ page[d] \in {"updates", "organization"}
    /\ deskCall[c] = NoDeskCall
    /\ UseResource(deskCall, d, c, On(page[d]))
    /\ UNCHANGED <<thing, page, chosen, busy, reason>>

\* The reason, or the comment, is filled in. The other pages send one of their own.
WriteReason(d) ==
    /\ page[d] \in DetailPages
    /\ ~reason[d]
    /\ reason' = [reason EXCEPT ![d] = TRUE]
    /\ UNCHANGED <<thing, page, chosen, pane, busy, deskCall>>

------------------------------------------------------------------------------
(* Deciding                                                                *)

\* What the buttons of each page ask for, those left out that change no status.
ReviewActions == {"approve", "request-changes", "reject"}
GovernanceActions == {"delist", "security-delist", "relist", "archive"}
ReleaseActions == {"publish", "pause", "withdraw"}
AccountActions == {"freeze", "unfreeze", "delete"}

\* The buttons of a review: one decision at a time, and a reason unless it approves.
ReviewButtons(d) ==
    IF busy[d] # NoThing THEN {} ELSE IF reason[d] THEN ReviewActions ELSE {"approve"}

\* Those of an extension: one at a time, and none without its reason.
GovernanceButtons(d) == IF busy[d] = NoThing /\ reason[d] THEN GovernanceActions ELSE {}

\* The other pages have no busy state: a second click sends a second request.
Buttons(d) ==
    CASE page[d] = "reviews" -> ReviewButtons(d)
      [] page[d] = "extensions" -> GovernanceButtons(d)
      [] page[d] = "settings" -> {"save"}
      [] page[d] = "updates" -> ReleaseActions
      [] page[d] = "organization" -> AccountActions
      [] OTHER -> {}

\* What a decision is about: the row chosen, or the row the button stands in.
Subjects(d) == IF page[d] \in DetailPages THEN {chosen[d]} \ {NoThing} ELSE DOMAIN pane[d].rows

\* The row the pane has for it; on a page with details whatever row it has.
RowShown(d, o) ==
    IF page[d] \in DetailPages THEN pane[d].rows[CHOOSE r \in DOMAIN pane[d].rows : TRUE]
    ELSE pane[d].rows[o]

\* A click. The request of a setting carries the version on the screen, that
\* of an update the status; a reviewer's is put together in a moment. What the
\* administrator saw of this very thing (seen) is not sent.
Decide(d, c, o, a) ==
    /\ deskCall[c] = NoDeskCall
    /\ a \in Buttons(d)
    /\ pane[d].state = "success" /\ DOMAIN pane[d].rows # {}
    /\ o \in Subjects(d)
    /\ thing[o].version < MaxVersion \/ page[d] # "settings"
    /\ deskCall' = [deskCall EXCEPT ![c] =
           [stage |-> IF page[d] = "reviews" THEN "fresh" ELSE "act",
            desk |-> d, about |-> {o}, action |-> a, live |-> TRUE, answer |-> NoThing,
            reason |-> reason[d],
            carried |-> RowShown(d, o),
            seen |-> IF o \in DOMAIN pane[d].rows THEN pane[d].rows[o] ELSE NoThing]]
    /\ busy' = IF page[d] \in {"reviews", "extensions"} THEN [busy EXCEPT ![d] = a] ELSE busy
    /\ UNCHANGED <<thing, page, chosen, pane, reason>>

\* A reviewer's request carries the revision the server has by now, whatever
\* the screen shows. If that cannot be read, nothing is sent.
BuildFreshReviewDecisionPayload(c) ==
    /\ deskCall[c] # NoDeskCall
    /\ deskCall[c].stage = "fresh" /\ deskCall[c].answer # NoThing
    /\ deskCall' = [deskCall EXCEPT ![c] =
           IF deskCall[c].answer = Failed THEN [@ EXCEPT !.stage = "act", !.answer = "lost"]
           ELSE [@ EXCEPT !.stage = "act", !.answer = NoThing,
                          !.carried = CHOOSE row \in {deskCall[c].answer.rows[o] : o \in deskCall[c].about} : TRUE]]
    /\ UNCHANGED <<thing, page, chosen, pane, busy, reason>>

\* What the server makes of the decision, if it takes it.
After(o, a) ==
    CASE a = "approve" -> "APPROVED"
      [] a = "request-changes" -> "CHANGES_REQUESTED"
      [] a = "reject" -> "REJECTED"
      [] a = "delist" -> "DELISTED"
      [] a = "security-delist" -> "SECURITY_DELISTED"
      [] a \in {"relist", "publish"} -> "PUBLISHED"
      [] a = "archive" -> "ARCHIVED"
      [] a = "pause" -> "PAUSED"
      [] a = "withdraw" -> "WITHDRAWN"
      [] a = "freeze" -> "FROZEN"
      [] a = "delete" -> "DELETED"
      [] OTHER -> "ACTIVE"

\* The server decides a review of the revision it has, while it is open.
TakesReview(o, call) ==
    thing[o].status = "PENDING_REVIEW" /\ call.carried.version = thing[o].version

\* It takes an extension to the status asked for from whatever status it has, whatever
\* the desk has shown; only out of the archive nothing goes on sale again.
TakesGovernance(o, call) == ~(call.action = "relist" /\ thing[o].status = "ARCHIVED")

\* It changes a setting from the version the request names, for a reason.
TakesSetting(o, call) == call.reason /\ call.carried.version = thing[o].version

\* It moves a release from the status the request names, where that move exists.
TakesRelease(o, call) ==
    /\ call.carried.status = thing[o].status
    /\ \/ call.action = "publish" /\ thing[o].status \in {"DRAFT", "PAUSED"}
       \/ call.action = "pause" /\ thing[o].status = "PUBLISHED"
       \/ call.action = "withdraw"

Takes(o, call) ==
    CASE o \in Submissions -> TakesReview(o, call)
      [] o \in Governed -> TakesGovernance(o, call)
      [] o \in SettingKeys -> TakesSetting(o, call)
      [] o \in Releases -> TakesRelease(o, call)
      [] OTHER -> thing[o].status # "DELETED"

\* The server decides: it takes the request or refuses it. The answer, or the
\* request itself, may be lost.
Serve(c) ==
    /\ deskCall[c] # NoDeskCall
    /\ deskCall[c].stage = "act" /\ deskCall[c].answer = NoThing
    /\ LET call == deskCall[c]
           o == CHOOSE r \in call.about : TRUE
       IN \/ /\ Takes(o, call)
             /\ thing' = [thing EXCEPT ![o] =
                    [status |-> After(o, call.action),
                     version |-> IF o \in SettingKeys THEN @.version + 1 ELSE @.version]]
             /\ \E answer \in {"done", "lost"} : deskCall' = [deskCall EXCEPT ![c].answer = answer]
          \/ /\ ~Takes(o, call)
             /\ deskCall' = [deskCall EXCEPT ![c].answer = "conflict"]
             /\ UNCHANGED thing
          \/ /\ deskCall' = [deskCall EXCEPT ![c].answer = "lost"]
             /\ UNCHANGED thing
    /\ UNCHANGED <<page, chosen, pane, busy, reason>>

\* What the answer does to the page, if the page is still there. A review is
\* shown again when it is decided and when it had changed; an extension is not
\* shown again; the other pages are only after a success.
ShownAgain(d, answer) ==
    \/ page[d] = "reviews" /\ answer \in {"done", "conflict"}
    \/ page[d] \in {"settings", "updates", "organization"} /\ answer = "done"

\* A comment is cleared by a decision taken; a failure leaves all but the buttons.
Settle(c) ==
    /\ deskCall[c] # NoDeskCall
    /\ deskCall[c].stage = "act" /\ deskCall[c].answer # NoThing
    /\ LET call == deskCall[c]
           d == call.desk
       IN IF ~call.live
          THEN /\ deskCall' = [deskCall EXCEPT ![c] = NoDeskCall]
               /\ UNCHANGED <<pane, busy, reason>>
          ELSE /\ busy' = IF page[d] \in {"reviews", "extensions"} THEN [busy EXCEPT ![d] = NoThing] ELSE busy
               /\ reason' = IF page[d] = "reviews" /\ call.answer = "done"
                            THEN [reason EXCEPT ![d] = FALSE] ELSE reason
               /\ IF ShownAgain(d, call.answer)
                  THEN UseResource(deskCall, d, c, Asked(page[d], chosen[d]))
                  ELSE deskCall' = [deskCall EXCEPT ![c] = NoDeskCall] /\ UNCHANGED pane
    /\ UNCHANGED <<thing, page, chosen>>

\* The submitter sends a new revision of what has been sent back.
Resubmit(o) ==
    /\ o \in Submissions
    /\ thing[o].status = "CHANGES_REQUESTED" /\ thing[o].version < MaxVersion
    /\ thing' = [thing EXCEPT ![o] = [status |-> "PENDING_REVIEW", version |-> @.version + 1]]
    /\ UNCHANGED <<page, chosen, pane, busy, reason, deskCall>>

DeskNext ==
    \/ \E c \in DeskCalls : Read(c) \/ Show(c) \/ BuildFreshReviewDecisionPayload(c) \/ Serve(c) \/ Settle(c)
    \/ \E d \in Desks, c \in DeskCalls :
           \/ \E p \in DeskPages : OpenPage(d, c, p)
           \/ Filter(d, c)
           \/ \E o \in On(page[d]) : Select(d, c, o)
           \/ \E a \in Buttons(d) : \E o \in Subjects(d) : Decide(d, c, o, a)
    \/ \E d \in Desks : WriteReason(d)
    \/ \E o \in Submissions : Resubmit(o)

DeskSpec == DeskInit /\ [][DeskNext]_deskVars

------------------------------------------------------------------------------
(* Properties                                                              *)

DeskTypeOK ==
    /\ \A o \in Things : thing[o].status \in Statuses /\ thing[o].version \in 1..MaxVersion
    /\ \A d \in Desks :
           /\ page[d] \in DeskPages
           /\ chosen[d] \in On(page[d]) \cup {NoThing}
           /\ pane[d].state \in {"loading", "success", "error"}
           /\ DOMAIN pane[d].rows \subseteq Things
           /\ busy[d] \in ReviewActions \cup GovernanceActions \cup {NoThing}
           /\ reason[d] \in BOOLEAN
    /\ \A c \in DeskCalls : deskCall[c].stage \in {"none", "load", "fresh", "act"}

\* The decision that call c brings to the server in this step.
TakenBy(c, o) ==
    /\ deskCall[c] # NoDeskCall
    /\ deskCall[c].stage = "act" /\ deskCall[c].about = {o}
    /\ deskCall'[c] # deskCall[c]

\* A setting is changed, and a release moved, only by somebody who had it on the screen as
\* the server had it: no second administrator, late answer or change of the row chosen
\* (useResource, SettingsPage.save, ClientUpdatesPage.transition) lets a decision fall on
\* a state nobody has seen.
SavedWasShown ==
    [][\A o \in SettingKeys \cup Releases : thing'[o] # thing[o] =>
          \E c \in DeskCalls :
              /\ TakenBy(c, o)
              /\ deskCall[c].seen # NoThing
              /\ IF o \in SettingKeys THEN deskCall[c].seen.version = thing[o].version
                 ELSE deskCall[c].seen.status = thing[o].status]_deskVars

\* A review is decided only of the revision that the reviewer had on the screen: the core
\* flow promises that a decision fails once the revision has changed.
StaleDecisionFails ==
    [][\A o \in Submissions : thing'[o].status # thing[o].status /\ thing'[o].version = thing[o].version =>
          \E c \in DeskCalls : TakenBy(c, o) /\ deskCall[c].seen.version = thing[o].version]_deskVars
===============================================================================
