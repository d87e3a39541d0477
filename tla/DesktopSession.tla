---------------------------- MODULE DesktopSession ----------------------------
(***************************************************************************)
(* Who is signed in on the desktop: the calls of the renderer that sign in *)
(* and out (ipc/handlers.ts), the file of secrets they share with the      *)
(* variables of MCP servers (security/secure-store.ts), the recovery of    *)
(* that file (startup-recovery.ts), and the local settings.                *)
(*                                                                         *)
(* Every change of a file reads it whole and writes it whole, and nothing  *)
(* keeps two changes apart: the one that reads first and writes last       *)
(* undoes the other.                                                       *)
(***************************************************************************)
EXTENDS Naturals, Sequences

CONSTANTS
    Users,
    SessionCalls,   \* calls under way at a time
    MaxSessionCalls,\* bound: calls in all
    Missing, Corrupted

ASSUME SessionAssumption == MaxSessionCalls \in Nat

VARIABLES
    store,          \* secure-store.json: the entries, or Corrupted
    sessionActive,  \* runtimeSessionActive
    settings,       \* config.json
    baseURL,        \* the server the client talks to
    sesCall,        \* the calls under way
    sesMade,        \* number of calls made
    signedOut       \* history: a sign-out or a start, and no sign-in since

sessionVars == <<store, sessionActive, settings, baseURL, sesCall, sesMade, signedOut>>
sessionFiles == <<store, sessionActive, settings, baseURL>>

SecretKeys == {"session.token", "auth.remembered-login", "mcp.variable"}
SecretEntries == [SecretKeys -> Users \cup {Missing}]
NoEntries == [k \in SecretKeys |-> Missing]
Urls == {"first", "second"}
Settings == [baseURL : Urls, theme : {"system", "dark"}]

\* What a call still does: requests to the server, and changes of a file.
Set(k, u) == [do |-> "set", key |-> k, user |-> u]
Delete(k) == [do |-> "delete", key |-> k, user |-> Missing]
Request(request, u) == [do |-> request, key |-> "none", user |-> u]
Save(field) == [do |-> "save", key |-> field, user |-> Missing]

\* read is the file as the change under way has read it.
NoCallUnderWay == [todo |-> <<>>, at |-> "ready", read |-> Missing]

SessionTypeOK ==
    /\ store \in SecretEntries \cup {Corrupted}
    /\ sessionActive \in BOOLEAN /\ signedOut \in BOOLEAN
    /\ settings \in Settings /\ baseURL \in Urls
    /\ sesMade \in 0..MaxSessionCalls
    /\ \A c \in SessionCalls :
         /\ sesCall[c].at \in {"ready", "read", "written"}
         /\ sesCall[c].read \in {Missing} \cup SecretEntries \cup Settings

SessionInit ==
    /\ store \in {NoEntries, Corrupted}
         \cup {[NoEntries EXCEPT !["session.token"] = u, !["auth.remembered-login"] = v] :
                  u \in Users, v \in Users \cup {Missing}}
    /\ sessionActive = FALSE
    /\ settings = [baseURL |-> "first", theme |-> "system"] /\ baseURL = "first"
    /\ sesCall = [c \in SessionCalls |-> NoCallUnderWay]
    /\ sesMade = 0
    /\ signedOut = TRUE

-----------------------------------------------------------------------------
First(c) == Head(sesCall[c].todo)
Doing(c, what, at) == sesCall[c].todo # <<>> /\ First(c).do = what /\ sesCall[c].at = at
Continue(c, todo) == sesCall' = [sesCall EXCEPT ![c] = [NoCallUnderWay EXCEPT !.todo = todo]]
Go(c) == Continue(c, Tail(sesCall[c].todo))
Throw(c) == Continue(c, <<>>)
Held(c, at, file) == sesCall' = [sesCall EXCEPT ![c].at = at, ![c].read = file]

(* loginDesktop, and what authLogin does after it.                          *)
SignIn(u, after) == <<Request("login", u), Set("session.token", u), Request("register", u)>> \o after
Remember(u, remember) ==
    <<IF remember THEN Set("auth.remembered-login", u) ELSE Delete("auth.remembered-login")>>

(* The calls, and what each has to do.                                      *)
Programs ==
    {SignIn(u, Remember(u, remember)) : u \in Users, remember \in BOOLEAN}
    \cup {<<Request("auto-login", Missing)>>,
          <<Request("logout", Missing), Delete("session.token")>>,
          <<Request("change-password", Missing), Delete("session.token"), Delete("auth.remembered-login")>>,
          <<Delete("auth.remembered-login")>>,
          <<[do |-> "clear", key |-> "session.token", user |-> Missing]>>,
          <<Save("baseURL")>>, <<Save("theme")>>}
    \cup {<<Set("mcp.variable", u)>> : u \in Users}

CallSession(c) ==
    /\ sesCall[c].todo = <<>>
    /\ sesMade < MaxSessionCalls
    /\ sesMade' = sesMade + 1
    /\ \E program \in Programs : Continue(c, program)
    /\ UNCHANGED <<sessionFiles, signedOut>>

-----------------------------------------------------------------------------
(* The answers.  A sign-in that gives no token returns, one that fails      *)
(* throws; a device that cannot be registered ends the call with the token  *)
(* kept; a sign-out deletes the token whatever the server says.             *)
Answered(c) ==
    /\ \/ Doing(c, "login", "ready") /\ (Go(c) \/ Throw(c))
       \/ Doing(c, "register", "ready") /\ (Go(c) \/ Throw(c))
       \/ Doing(c, "logout", "ready") /\ Go(c)
       \/ Doing(c, "change-password", "ready") /\ (Go(c) \/ Throw(c))
    /\ UNCHANGED <<sessionFiles, sesMade, signedOut>>

(* authAutoLogin: signs in the user whose login is remembered.              *)
ReadRememberedLogin(c) ==
    /\ Doing(c, "auto-login", "ready")
    /\ IF store = Corrupted \/ store["auth.remembered-login"] = Missing
       THEN Throw(c)
       ELSE Continue(c, SignIn(store["auth.remembered-login"], <<>>))
    /\ UNCHANGED <<sessionFiles, sesMade, signedOut>>

(* SafeStorageSecureStore.set and delete: the file is read, then written,   *)
(* and only then does the flag of the session follow.                       *)
ReadStore(c) ==
    /\ Doing(c, "set", "ready") \/ Doing(c, "delete", "ready")
    /\ \/ Throw(c) /\ signedOut' = signedOut
       \/ /\ store # Corrupted
          /\ Held(c, "read", store)
          /\ signedOut' = (signedOut /\ ~(First(c).do = "set" /\ First(c).key = "session.token"))
    /\ UNCHANGED <<sessionFiles, sesMade>>

WriteStore(c) ==
    /\ Doing(c, "set", "read") \/ Doing(c, "delete", "read")
    /\ \/ /\ store' = [sesCall[c].read EXCEPT ![First(c).key] = First(c).user]
          /\ Held(c, "written", Missing)
       \/ Throw(c) /\ store' = store
    /\ UNCHANGED <<sessionActive, settings, baseURL, sesMade, signedOut>>

SigningIn(c) == Doing(c, "set", "read") \/ Doing(c, "set", "written")

FinishStore(c) ==
    LET token == First(c).key = "session.token"
    IN  /\ Doing(c, "set", "written") \/ Doing(c, "delete", "written")
        /\ sessionActive' = IF token THEN First(c).do = "set" ELSE sessionActive
        /\ signedOut' = \/ signedOut
                        \/ /\ token /\ First(c).do = "delete"
                           /\ ~\E d \in SessionCalls : SigningIn(d) /\ First(d).key = "session.token"
        /\ Go(c)
        /\ UNCHANGED <<store, settings, baseURL, sesMade>>

(* clearStartupSession: a file that cannot be understood is put aside; the  *)
(* flag of services that are running is not touched.                        *)
ClearStartupSession(c) ==
    /\ \/ /\ Doing(c, "clear", "ready")
          /\ IF store = Corrupted
             THEN store' = NoEntries /\ Go(c)
             ELSE store' = store /\ Held(c, "read", store)
       \/ /\ Doing(c, "clear", "read")
          /\ store' = IF sesCall[c].read["session.token"] = Missing THEN store
                      ELSE [sesCall[c].read EXCEPT !["session.token"] = Missing]
          /\ Go(c)
    /\ UNCHANGED <<sessionActive, settings, baseURL, sesMade, signedOut>>

(* settingsSaveLocalConfig: what was not given keeps the value that was     *)
(* read; the client then talks to the server of the result.                 *)
SaveSettings(c) ==
    /\ \/ /\ Doing(c, "save", "ready")
          /\ Held(c, "read", settings)
          /\ UNCHANGED <<settings, baseURL>>
       \/ /\ Doing(c, "save", "read")
          /\ \E value \in {"first", "second", "dark"} :
               /\ settings' = [sesCall[c].read EXCEPT ![First(c).key] = value]
               /\ settings' \in Settings
          /\ baseURL' = settings'.baseURL
          /\ Go(c)
    /\ UNCHANGED <<store, sessionActive, sesMade, signedOut>>

(* The client ends, perhaps while it writes the file, and starts again.     *)
RestartClient ==
    /\ \/ store' = store
       \/ store' = Corrupted /\ \E c \in SessionCalls : sesCall[c].at = "read" /\ First(c).do # "save"
    /\ sessionActive' = FALSE
    /\ baseURL' = settings.baseURL
    /\ sesCall' = [c \in SessionCalls |-> NoCallUnderWay]
    /\ signedOut' = TRUE
    /\ UNCHANGED <<settings, sesMade>>

SessionNext ==
    \/ \E c \in SessionCalls :
         \/ CallSession(c) \/ Answered(c) \/ ReadRememberedLogin(c)
         \/ ReadStore(c) \/ WriteStore(c) \/ FinishStore(c)
         \/ ClearStartupSession(c) \/ SaveSettings(c)
    \/ RestartClient

SessionSpec == SessionInit /\ [][SessionNext]_sessionVars

-----------------------------------------------------------------------------
Token_OfFile == IF store # Corrupted THEN store["session.token"] ELSE Missing \* mutant

(* SafeStorageSecureStore.get of the token: what a request carries.         *)
Token ==
    IF sessionActive /\ store # Corrupted THEN store["session.token"] ELSE Missing

(* After a sign-out or a start, until somebody signs in again, no request   *)
(* carries a token: not the one an earlier run left in the file, and not    *)
(* one that a change of another secret, which had read the file before,     *)
(* writes back (runtimeSessionActive).                                      *)
SignedOutStaysOut == signedOut => Token = Missing
=============================================================================
