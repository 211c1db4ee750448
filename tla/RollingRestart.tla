--------------------------- MODULE RollingRestart ---------------------------
(***************************************************************************)
(* The commands svm-restart and svm-restart-skip: _serviceManagerRestart   *)
(* of src/src/submodules/serviceManager.js on top of rollingRestart of     *)
(* src/src/shared/cloud-foundry.js.                                        *)
(*                                                                         *)
(* A run lists the bound apps, keeps the started ones that are not to be   *)
(* skipped, and restarts them, at most SvmConcurrency at the same time.    *)
(* A restart posts a rolling deployment and polls it until it is final, up *)
(* to a deadline; any reason other than DEPLOYED is an error.  Cloud       *)
(* Foundry and whoever starts and stops apps are external.  Faults are     *)
(* definitive or late as in NormalizeBindings; a deadline that passes is a *)
(* late fault, because the deployment goes on.                             *)
(***************************************************************************)
EXTENDS Naturals, FiniteSets

CONSTANTS
    App,            \* apps in the space that are bound to the svm instance
    Skipped,        \* SKIP_APPS
    SvmConcurrency, \* restarts that may run at the same time
    MaxRefusals,    \* bound: definitive faults
    MaxLate         \* bound: late faults

ASSUME AppAssumption == IsFiniteSet(App) /\ Skipped \subseteq App
ASSUME RestartBoundAssumption == /\ SvmConcurrency \in Nat \ {0}
                                 /\ MaxRefusals \in Nat
                                 /\ MaxLate \in Nat

VARIABLES
    started,     \* Cloud Foundry: apps in state STARTED
    deployment,  \* Cloud Foundry: the latest deployment of every app
    phase,       \* the run: "idle", "listing" or "restarting"
    apps,        \* the run: the apps to restart
    waiting,     \* the run: those whose deployment is not yet requested
    polling,     \* the run: those whose deployment is being polled
    rejected,    \* the run: whether a restart was rejected
    outcome,     \* of the latest run: "none", "ok" or "failed"
    refusals,    \* definitive faults so far
    late         \* late faults so far

cf == <<started, deployment>>
vars == <<started, deployment, phase, apps, waiting, polling, rejected, outcome,
          refusals, late>>

TypeOK ==
    /\ started \subseteq App
    /\ deployment \in [App -> {"none", "ACTIVE", "DEPLOYED", "CANCELED"}]
    /\ phase \in {"idle", "listing", "restarting"}
    /\ apps \subseteq App
    /\ waiting \subseteq apps
    /\ polling \subseteq apps
    /\ rejected \in BOOLEAN
    /\ outcome \in {"none", "ok", "failed"}
    /\ refusals \in 0..MaxRefusals
    /\ late \in 0..MaxLate

Init ==
    /\ started \in SUBSET App
    /\ deployment = [a \in App |-> "none"]
    /\ phase = "idle"
    /\ apps = {}
    /\ waiting = {}
    /\ polling = {}
    /\ rejected = FALSE
    /\ outcome = "none"
    /\ refusals = 0
    /\ late = 0

Start ==
    /\ phase = "idle"
    /\ phase' = "listing"
    /\ outcome' = "none"
    /\ UNCHANGED <<cf, apps, waiting, polling, rejected, refusals, late>>

\* Mutant of List: the apps to skip are restarted, too.
ListSkipped ==
    /\ phase = "listing"
    /\ apps' = started \ Skipped
    /\ waiting' = started
    /\ rejected' = FALSE
    /\ IF started = {}
       THEN phase' = "idle" /\ outcome' = "ok"
       ELSE phase' = "restarting" /\ UNCHANGED outcome
    /\ UNCHANGED <<cf, polling, refusals, late>>

\* The bound apps are listed; without any to restart the run is over.
List ==
    /\ phase = "listing"
    /\ apps' = started \ Skipped
    /\ waiting' = started \ Skipped
    /\ rejected' = FALSE
    /\ IF started \ Skipped = {}
       THEN phase' = "idle" /\ outcome' = "ok"
       ELSE phase' = "restarting" /\ UNCHANGED outcome
    /\ UNCHANGED <<cf, polling, refusals, late>>

ListFails ==
    /\ phase = "listing"
    /\ refusals < MaxRefusals
    /\ refusals' = refusals + 1
    /\ phase' = "idle"
    /\ outcome' = "failed"
    /\ UNCHANGED <<cf, apps, waiting, polling, rejected, late>>

Ready(a) == /\ phase = "restarting"
            /\ a \in waiting
            /\ Cardinality(polling) < SvmConcurrency

\* A deployment is posted and accepted.  It replaces one that is still active.
Submit(a) ==
    /\ Ready(a)
    /\ deployment' = [deployment EXCEPT ![a] = "ACTIVE"]
    /\ waiting' = waiting \ {a}
    /\ polling' = polling \cup {a}
    /\ UNCHANGED <<started, phase, apps, rejected, outcome, refusals, late>>

\* The same, but the response does not arrive.
LoseResponse(a) ==
    /\ Ready(a)
    /\ late < MaxLate
    /\ late' = late + 1
    /\ deployment' = [deployment EXCEPT ![a] = "ACTIVE"]
    /\ waiting' = waiting \ {a}
    /\ rejected' = TRUE
    /\ UNCHANGED <<started, phase, apps, polling, outcome, refusals>>

Refuse(a) ==
    /\ Ready(a)
    /\ refusals < MaxRefusals
    /\ refusals' = refusals + 1
    /\ waiting' = waiting \ {a}
    /\ rejected' = TRUE
    /\ UNCHANGED <<cf, phase, apps, polling, outcome, late>>

\* Mutants of Poll: the reason of the final status is not looked at, and only
\* DEPLOYED ends the polling.
PollAnyReason(a) ==
    /\ a \in polling
    /\ deployment[a] # "ACTIVE"
    /\ polling' = polling \ {a}
    /\ UNCHANGED <<cf, phase, apps, waiting, rejected, outcome, refusals, late>>
PollUntilDeployed(a) ==
    /\ a \in polling
    /\ deployment[a] = "DEPLOYED"
    /\ polling' = polling \ {a}
    /\ UNCHANGED <<cf, phase, apps, waiting, rejected, outcome, refusals, late>>

\* A poll finds the deployment final.
Poll(a) ==
    /\ a \in polling
    /\ deployment[a] # "ACTIVE"
    /\ polling' = polling \ {a}
    /\ rejected' = (rejected \/ deployment[a] # "DEPLOYED")
    /\ UNCHANGED <<cf, phase, apps, waiting, outcome, refusals, late>>

\* A poll request fails or the deadline passes while the deployment is active.
PollFails(a) ==
    /\ a \in polling
    /\ late < MaxLate
    /\ late' = late + 1
    /\ polling' = polling \ {a}
    /\ rejected' = TRUE
    /\ UNCHANGED <<cf, phase, apps, waiting, outcome, refusals>>

\* Mutants of Finish: the first rejection ends the run, and deployments are
\* posted but not waited for.
FinishOnRejection ==
    /\ phase = "restarting"
    /\ rejected \/ (waiting = {} /\ polling = {})
    /\ phase' = "idle"
    /\ outcome' = IF rejected THEN "failed" ELSE "ok"
    /\ waiting' = {}
    /\ polling' = {}
    /\ UNCHANGED <<cf, apps, rejected, refusals, late>>
FinishUnpolled ==
    /\ phase = "restarting"
    /\ waiting = {}
    /\ phase' = "idle"
    /\ outcome' = IF rejected THEN "failed" ELSE "ok"
    /\ polling' = {}
    /\ UNCHANGED <<cf, apps, waiting, rejected, refusals, late>>

Finish ==
    /\ phase = "restarting"
    /\ waiting = {}
    /\ polling = {}
    /\ phase' = "idle"
    /\ outcome' = IF rejected THEN "failed" ELSE "ok"
    /\ UNCHANGED <<cf, apps, waiting, polling, rejected, refusals, late>>

Crash ==
    /\ phase # "idle"
    /\ late < MaxLate
    /\ late' = late + 1
    /\ phase' = "idle"
    /\ waiting' = {}
    /\ polling' = {}
    /\ outcome' = "failed"
    /\ UNCHANGED <<cf, apps, rejected, refusals>>

-----------------------------------------------------------------------------
(* Cloud Foundry and its users                                             *)

Deployed(a) ==
    /\ deployment[a] = "ACTIVE"
    /\ deployment' = [deployment EXCEPT ![a] = "DEPLOYED"]
    /\ UNCHANGED <<started, phase, apps, waiting, polling, rejected, outcome,
                   refusals, late>>

Canceled(a) ==
    /\ deployment[a] = "ACTIVE"
    /\ refusals < MaxRefusals
    /\ refusals' = refusals + 1
    /\ deployment' = [deployment EXCEPT ![a] = "CANCELED"]
    /\ UNCHANGED <<started, phase, apps, waiting, polling, rejected, outcome, late>>

AppStarts(a) ==
    /\ a \notin started
    /\ started' = started \cup {a}
    /\ UNCHANGED <<deployment, phase, apps, waiting, polling, rejected, outcome,
                   refusals, late>>

AppStops(a) ==
    /\ a \in started
    /\ started' = started \ {a}
    /\ UNCHANGED <<deployment, phase, apps, waiting, polling, rejected, outcome,
                   refusals, late>>

-----------------------------------------------------------------------------
Proceed == \/ List
           \/ \E a \in waiting : Submit(a)
           \/ \E a \in polling : Poll(a)
           \/ Finish

Complete == \E a \in App : Deployed(a)

Fault == \/ ListFails
         \/ \E a \in waiting : LoseResponse(a) \/ Refuse(a)
         \/ \E a \in polling : PollFails(a)
         \/ Crash
         \/ \E a \in App : Canceled(a)

Users == \E a \in App : AppStarts(a) \/ AppStops(a)

Next == Start \/ Proceed \/ Complete \/ Fault \/ Users

Fairness == WF_vars(Proceed) /\ WF_vars(Complete)

Spec == Init /\ [][Next]_vars /\ Fairness

-----------------------------------------------------------------------------
(* Properties                                                              *)

\* A successful run has seen every app it listed come out of a deployment of
\* its own: none was refused, canceled or left behind.
OkMeansDeployed ==
    phase = "idle" /\ outcome = "ok" =>
        \A a \in apps : deployment[a] = "DEPLOYED"

\* A run never abandons deployments: unless a late fault happened it ends only
\* when all deployments it requested are final, also when one was rejected.
NothingActiveAtRest ==
    phase = "idle" /\ late = 0 => \A a \in App : deployment[a] # "ACTIVE"

\* A run ends, while apps come and go and deployments are canceled.
RestartEnds == phase # "idle" ~> phase = "idle"
=============================================================================
