----------------------------- MODULE AdminSession -----------------------------
(* Who is signed in to the web administration. Each tab of the browser keeps *)
(* the session it shows in memory and takes the token of every request from  *)
(* the storage: the tabs have one local storage between them, and each has a *)
(* session storage of its own. Answers come late.                            *)
EXTENDS Naturals

CONSTANTS
    Tabs, Members,
    Administrators,     \* the members whose role may use the administration
    TabCalls,           \* requests under way at a time
    MaxTabTurns,        \* bound on the sign-ins, sign-outs and reloads
    Nobody

ASSUME AdminSessionAssumption ==
    /\ Administrators \subseteq Members
    /\ Nobody \notin Members
    /\ MaxTabTurns \in Nat

VARIABLES
    local,      \* whose token and user the local storage keeps
    own,        \* and the session storage of each tab
    shown,      \* the session each tab shows: whose token, and which user
    loading,    \* the sign-in screen of a tab waits for its answer
    tabCall,    \* the requests
    out,        \* the tabs that signed out and where nobody has signed in since
    tabTurns    \* how many sign-ins, sign-outs and reloads there were

adminVars == <<local, own, shown, loading, tabCall, out, tabTurns>>

NoRequest == [kind |-> "none"]

AdminInit ==
    /\ local = Nobody
    /\ own = [t \in Tabs |-> Nobody]
    /\ shown = [t \in Tabs |-> Nobody]
    /\ loading = [t \in Tabs |-> FALSE]
    /\ tabCall = [c \in TabCalls |-> NoRequest]
    /\ out = {}
    /\ tabTurns = 0

Turn == tabTurns < MaxTabTurns /\ tabTurns' = tabTurns + 1

\* The token a tab finds: the local storage first, then its own.
GetStored(t) == IF local # Nobody THEN local ELSE own[t]

\* A session is kept in the one storage and removed from the other, as this
\* tab sees it: the session storages of the other tabs stay.
StoreSession(t, m, keepSignedIn) ==
    /\ local' = IF keepSignedIn THEN m ELSE Nobody
    /\ own' = [own EXCEPT ![t] = IF keepSignedIn THEN Nobody ELSE m]
    /\ out' = IF keepSignedIn THEN {} ELSE out \ {t}

ClearSession_LocalOnly(t) ==
    /\ local' = Nobody
    /\ UNCHANGED own

\* It is removed from both.
ClearSession(t) ==
    /\ local' = Nobody
    /\ own' = [own EXCEPT ![t] = Nobody]

\* A tab that shows a session of another token asks who it is: the request
\* carries whatever token is stored by now.
AskMe(calls, c, t, token, as) ==
    [calls EXCEPT ![c] = IF token = Nobody THEN NoRequest
                         ELSE [kind |-> "me", tab |-> t, token |-> token, as |-> as]]

\* The tab is opened or reloaded: what it waited for is gone.
OpenTab(t, c) ==
    /\ Turn
    /\ LET left == [k \in TabCalls |-> IF tabCall[k] # NoRequest /\ tabCall[k].tab = t THEN NoRequest ELSE tabCall[k]]
           kept == GetStored(t)
       IN /\ left[c] = NoRequest
          /\ shown' = [shown EXCEPT ![t] = IF kept = Nobody THEN Nobody ELSE [token |-> kept, user |-> kept]]
          /\ tabCall' = AskMe(left, c, t, kept, kept)
    /\ loading' = [loading EXCEPT ![t] = FALSE]
    /\ UNCHANGED <<local, own, out>>

\* The sign-in screen sends the phone and the password of a member.
Submit(t, c, m, keepSignedIn) ==
    /\ Turn
    /\ shown[t] = Nobody /\ ~loading[t]
    /\ tabCall[c] = NoRequest
    /\ loading' = [loading EXCEPT ![t] = TRUE]
    /\ tabCall' = [tabCall EXCEPT ![c] = [kind |-> "login", tab |-> t, member |-> m, keep |-> keepSignedIn]]
    /\ UNCHANGED <<local, own, shown, out>>

\* The answer: an administrator's session is stored and shown, anybody else's
\* takes with it what was stored. It is answered, too, when the screen is gone.
LoginAnswered(c) ==
    /\ tabCall[c] # NoRequest /\ tabCall[c].kind = "login"
    /\ LET t == tabCall[c].tab
           m == tabCall[c].member
       IN /\ loading' = [loading EXCEPT ![t] = FALSE]
          /\ \/ /\ m \in Administrators
                /\ StoreSession(t, m, tabCall[c].keep)
                /\ shown' = [shown EXCEPT ![t] = [token |-> m, user |-> m]]
                /\ tabCall' = AskMe(tabCall, c, t, m, m)
             \/ /\ m \notin Administrators
                /\ ClearSession(t)
                /\ tabCall' = [tabCall EXCEPT ![c] = NoRequest]
                /\ UNCHANGED <<shown, out>>
             \/ \* the server refuses, or does not answer
                /\ tabCall' = [tabCall EXCEPT ![c] = NoRequest]
                /\ UNCHANGED <<local, own, shown, out>>
    /\ UNCHANGED tabTurns

\* The codes at which the application ends the session, and the one the server
\* sends for a session it no longer accepts. It is not among them, so the page
\* stays, with an error.
SignOutCodes == {"UNAUTHORIZED", "SESSION_EXPIRED"}
RefusalCode == "unauthenticated"

\* The answer to who it is: the user of the token that was sent, shown beside
\* the token the tab had, also after a sign-out.
MeAnswered(c) ==
    /\ tabCall[c] # NoRequest /\ tabCall[c].kind = "me"
    /\ LET t == tabCall[c].tab
           token == tabCall[c].token
       IN \/ /\ tabCall[c].as # Nobody
             /\ shown' = [shown EXCEPT ![t] = [token |-> token, user |-> tabCall[c].as]]
             /\ tabCall' = IF shown[t] # Nobody /\ shown[t].token = token
                           THEN [tabCall EXCEPT ![c] = NoRequest]
                           ELSE AskMe(tabCall, c, t, token, GetStored(t))
             /\ UNCHANGED <<local, own>>
          \/ /\ IF RefusalCode \in SignOutCodes
                THEN ClearSession(t) /\ shown' = [shown EXCEPT ![t] = Nobody]
                ELSE UNCHANGED <<local, own, shown>>
             /\ tabCall' = [tabCall EXCEPT ![c] = NoRequest]
    /\ loading' = [loading EXCEPT ![tabCall[c].tab] = IF shown' # shown THEN FALSE ELSE @]
    /\ UNCHANGED <<out, tabTurns>>

\* Signing out does not wait for the server.
Logout(t) ==
    /\ Turn
    /\ shown[t] # Nobody
    /\ ClearSession(t)
    /\ shown' = [shown EXCEPT ![t] = Nobody]
    /\ out' = out \cup {t}
    /\ loading' = [loading EXCEPT ![t] = FALSE]
    /\ UNCHANGED tabCall

AdminNext ==
    \/ \E t \in Tabs, c \in TabCalls :
           \/ OpenTab(t, c)
           \/ \E m \in Members, keepSignedIn \in BOOLEAN : Submit(t, c, m, keepSignedIn)
    \/ \E c \in TabCalls : LoginAnswered(c) \/ MeAnswered(c)
    \/ \E t \in Tabs : Logout(t)

AdminSpec == AdminInit /\ [][AdminNext]_adminVars

------------------------------------------------------------------------------
(* Properties                                                              *)

AdminTypeOK ==
    /\ local \in Members \cup {Nobody}
    /\ own \in [Tabs -> Members \cup {Nobody}]
    /\ shown \in [Tabs -> [token : Members, user : Members] \cup {Nobody}]
    /\ loading \in [Tabs -> BOOLEAN]
    /\ \A c \in TabCalls : tabCall[c].kind \in {"none", "login", "me"}
    /\ out \subseteq Tabs
    /\ tabTurns \in 0..MaxTabTurns

\* After a sign-out no token is left to the tab, in either storage, until somebody signs in
\* there or, to be kept signed in, in another tab: a late answer may bring the page of the
\* old session back (App, me), but no request from it carries a token. And whoever signs
\* in without being an administrator leaves no token to anybody (LoginScreen.submit).
SignedOutTabHasNoToken ==
    /\ \A t \in out : GetStored(t) = Nobody
    /\ {local} \cup {own[t] : t \in Tabs} \subseteq Administrators \cup {Nobody}
===============================================================================
