----------------------------- MODULE MCBackground -----------------------------
(* What goes on in the background of the desktop, for TLC: the attempts to   *)
(* start its services, and the passes that bring its events to the server.   *)
(* They share no variable; a behaviour follows the one chosen at the start.  *)
EXTENDS LocalEventSync, DesktopStartup

VARIABLE starting

backgroundVars == <<vars, startVars, starting>>

MCInit == starting \in BOOLEAN /\ Init /\ StartInit

MCNext ==
    /\ UNCHANGED starting
    /\ \/ starting /\ StartNext /\ UNCHANGED vars
       \/ ~starting /\ Next /\ UNCHANGED startVars

(* Each part is fair where the behaviour follows it.                        *)
MCSpec ==
    /\ MCInit /\ [][MCNext]_backgroundVars
    /\ starting => StartFairness
    /\ ~starting => Fairness

\* What DesktopStartup promises of a start, where there is one: the page that waits for the
\* services is told that they are ready or that they are not, whatever attempt hangs.
EveryStartSettles == starting => StartupSettles
=============================================================================
