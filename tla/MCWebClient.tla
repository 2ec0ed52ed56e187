---------------------------- MODULE MCWebClient ----------------------------
(***************************************************************************)
(* A small instance of WebClient for TLC.  Two tabs of one browser and all *)
(* that may fail are too much at once, so a behaviour shows one of two     *)
(* scenes: one tab of one employee with everything that may fail, or       *)
(* several employees with tabs that share the session while nothing fails. *)
(***************************************************************************)
EXTENDS WebClientInvariant

CONSTANTS
    FirstTab, FirstEmployee,  \* where and who logs in first
    ActsAlone,    \* bound: acts of users and failures in the first scene
    ActsTogether  \* bound: acts of users in the second

VARIABLES
    scene,
    acts  \* what users have done and what has failed

mcVars == <<vars, scene, acts>>

\* The second scene begins with the login page in every tab.
MCInit ==
    /\ Init
    /\ doc = [t \in Tab |-> LoginPage]
    /\ scene \in {"failures", "tabs"}
    /\ acts = 0

Bound == IF scene = "failures" THEN ActsAlone ELSE ActsTogether

\* Tabs and employees differ only in name: it does not matter which are the first.
Actors == IF scene = "failures" \/ logins = <<>> THEN {FirstTab} ELSE Tab
Users == IF scene = "failures" \/ logins = <<>> THEN {FirstEmployee} ELSE Employee

Act ==
    /\ acts < Bound
    /\ \/ \E t \in Actors : UserStep(t)
       \/ scene = "failures" /\ Failure
    /\ logins' # logins => logins'[Len(logins')] \in Users
    /\ acts' = acts + 1
    /\ UNCHANGED scene

\* What happens by itself.  Nobody sees the reports of who does not log in; and
\* where tabs share the session, one change of a list is enough.
Happen ==
    /\ \/ \E t \in Tab : BrowserStep(t)
       \/ ServerStep
    /\ scene = "failures" => \A e \in Employee \ Users : reports'[e] = reports[e]
    /\ scene = "tabs" => ChangesMade' <= 1
    /\ UNCHANGED <<scene, acts>>

MCNext == Act \/ Happen

MCSpec == MCInit /\ [][MCNext]_mcVars /\ Fairness

=============================================================================
