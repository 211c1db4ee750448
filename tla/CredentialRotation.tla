------------------------- MODULE CredentialRotation -------------------------
(***************************************************************************)
(* The zero-downtime credential rotation of                                *)
(* src/docs/service-manager/index.md: five commands of the tool, each      *)
(* repeated until it succeeds, while the apps keep using the credentials   *)
(* they hold in memory.  It composes NormalizeBindings (the make-bindings  *)
(* commands and the service-manager) and RollingRestart (the restart       *)
(* commands and Cloud Foundry); the apps' memory and the operator are      *)
(* external.                                                               *)
(***************************************************************************)
EXTENDS Integers, FiniteSets

CONSTANTS
    Instance, Usable, Scopes, InitialState, MaxInitial, MaxBindings,
    App, Skipped,
    SvmConcurrency, MaxRefusals, MaxLate

\* As in NormalizeBindings and RollingRestart.
ASSUME InstanceAssumption == /\ IsFiniteSet(Instance)
                             /\ Instance \subseteq Nat \ {0}
                             /\ Usable \subseteq Instance
                             /\ Scopes \subseteq SUBSET Instance
ASSUME InitialStateAssumption ==
    InitialState \subseteq {"creating", "deleting", "failed", "deleteFailed", "succeeded"}
ASSUME AppAssumption == IsFiniteSet(App) /\ Skipped \subseteq App
ASSUME BoundAssumption == /\ SvmConcurrency \in Nat \ {0}
                          /\ MaxBindings \in Nat
                          /\ MaxInitial \in 0..MaxBindings
                          /\ MaxRefusals \in Nat
                          /\ MaxLate \in Nat

VARIABLES
    \* service-manager and make-bindings, see NormalizeBindings
    lastOp, owner, updatedAt, issued, clock,
    phase, target, scope, seen, waiting, polling, rejected, outcome,
    \* Cloud Foundry and restart, see RollingRestart
    started, deployment,
    rphase, rapps, rwaiting, rpolling, rrejected, routcome,
    \* shared by both
    refusals, late,
    \* the apps
    held,    \* held[a][i]: bindings of instance i in the memory of app a
    fresh,   \* the same, of the processes that an active deployment adds
    \* the operator
    step,     \* the current step, 6 when the rotation is complete
    launched  \* whether its command has been launched

Target == {1, 2}
Svm == INSTANCE NormalizeBindings
Restart == INSTANCE RollingRestart WITH
    phase <- rphase, apps <- rapps, waiting <- rwaiting, polling <- rpolling,
    rejected <- rrejected, outcome <- routcome

svmVars == <<lastOp, owner, updatedAt, issued, clock,
             phase, target, scope, seen, waiting, polling, rejected, outcome>>
restartVars == <<started, deployment,
                 rphase, rapps, rwaiting, rpolling, rrejected, routcome>>
appVars == <<held, fresh>>
operatorVars == <<step, launched>>
vars == <<svmVars, restartVars, refusals, late, appVars, operatorVars>>

TypeOK ==
    /\ Svm!TypeOK
    /\ Restart!TypeOK
    /\ held \in [App -> [Instance -> SUBSET Svm!BindingId]]
    /\ fresh \in [App -> [Instance -> SUBSET Svm!BindingId]]
    /\ step \in 1..6
    /\ launched \in BOOLEAN

Valid(i) == Svm!Succeeded(lastOp, i)
Empty == [i \in Instance |-> {}]

Init ==
    /\ Svm!Init
    /\ Restart!Init
    /\ \E m \in [App -> [Instance -> SUBSET (1..issued)]] :
         /\ \A a \in App, i \in Instance :
              m[a][i] \subseteq IF a \in started THEN Valid(i) ELSE {}
         /\ held = m
    /\ fresh = [a \in App |-> Empty]
    /\ step = 1
    /\ launched = FALSE

-----------------------------------------------------------------------------
(* The apps                                                                *)

\* A process of app a needs the credentials of instance i for the first time.
\* It takes the most recent ones and keeps them in memory.
Load(a, i, b) ==
    /\ a \in started
    /\ b \in Svm!MostRecent(Valid(i))
    /\ \/ held' = [held EXCEPT ![a][i] = @ \cup {b}] /\ UNCHANGED fresh
       \/ /\ deployment[a] = "ACTIVE"
          /\ fresh' = [fresh EXCEPT ![a][i] = @ \cup {b}]
          /\ UNCHANGED held
    /\ UNCHANGED <<svmVars, restartVars, refusals, late, operatorVars>>

\* A deployment starts beside the old processes.  Processes of an earlier
\* deployment that it replaces count as old from now on.
NewDeployment(a) ==
    /\ held' = [held EXCEPT ![a] = [i \in Instance |-> held[a][i] \cup fresh[a][i]]]
    /\ fresh' = [fresh EXCEPT ![a] = Empty]

\* When the deployment is through, only its own processes are left; when it is
\* canceled, only the old ones.
EndDeployment(a, memory) ==
    /\ held' = [held EXCEPT ![a] = memory]
    /\ fresh' = [fresh EXCEPT ![a] = Empty]

-----------------------------------------------------------------------------
(* The operator                                                            *)

\* The command of the current step is launched: restart, single, double,
\* restart, single.
Launch ==
    /\ ~launched
    /\ launched' = TRUE
    /\ \/ step \in {1, 4} /\ Restart!Start /\ UNCHANGED svmVars
       \/ step \in {2, 5} /\ (\E sc \in Scopes : Svm!Start(1, sc)) /\ UNCHANGED restartVars
       \/ step = 3 /\ (\E sc \in Scopes : Svm!Start(2, sc)) /\ UNCHANGED restartVars
    /\ UNCHANGED <<appVars, step>>

\* The command is over.  The operator goes on if it succeeded and tries again
\* if it failed.
Observe ==
    /\ launched
    /\ phase = "idle"
    /\ rphase = "idle"
    /\ launched' = FALSE
    /\ step' = IF (IF step \in {1, 4} THEN routcome ELSE outcome) = "ok"
               THEN step + 1
               ELSE step
    /\ UNCHANGED <<svmVars, restartVars, refusals, late, appVars>>

-----------------------------------------------------------------------------
(* Steps of the commands and of the platform                               *)

SvmStep(A) == A /\ UNCHANGED <<restartVars, appVars, operatorVars>>
RestartStep(A) == A /\ UNCHANGED <<svmVars, operatorVars>>

Proceed ==
    \/ SvmStep(Svm!Proceed)
    \/ RestartStep(Restart!List) /\ UNCHANGED appVars
    \/ \E a \in rwaiting : RestartStep(Restart!Submit(a)) /\ NewDeployment(a)
    \/ \E a \in rpolling : RestartStep(Restart!Poll(a)) /\ UNCHANGED appVars
    \/ RestartStep(Restart!Finish) /\ UNCHANGED appVars

Complete ==
    \/ SvmStep(Svm!Complete)
    \/ \E a \in App : RestartStep(Restart!Deployed(a)) /\ EndDeployment(a, fresh[a])

Fault ==
    \/ SvmStep(Svm!Fault)
    \/ RestartStep(Restart!ListFails \/ Restart!Crash) /\ UNCHANGED appVars
    \/ \E a \in rwaiting : RestartStep(Restart!LoseResponse(a)) /\ NewDeployment(a)
    \/ \E a \in rwaiting : RestartStep(Restart!Refuse(a)) /\ UNCHANGED appVars
    \/ \E a \in rpolling : RestartStep(Restart!PollFails(a)) /\ UNCHANGED appVars
    \/ \E a \in App : RestartStep(Restart!Canceled(a)) /\ EndDeployment(a, held[a])

Users ==
    \/ \E a \in App, i \in Instance, b \in Svm!BindingId : Load(a, i, b)
    \/ \E a \in App : RestartStep(Restart!AppStarts(a)) /\ UNCHANGED appVars
    \/ \E a \in App : RestartStep(Restart!AppStops(a)) /\ EndDeployment(a, Empty)

Next == Launch \/ Observe \/ Proceed \/ Complete \/ Fault \/ Users

\* The operator carries on, and so do the commands and the platform.
Fairness == WF_vars(Launch) /\ WF_vars(Observe) /\ WF_vars(Proceed) /\ WF_vars(Complete)

Spec == Init /\ [][Next]_vars /\ Fairness

-----------------------------------------------------------------------------
(* Properties                                                              *)

InMemory(a, i) == held[a][i] \cup fresh[a][i]

\* Zero downtime: unless a late fault happened, no app ever holds credentials
\* that have been withdrawn, at any point of the choreography, whatever is
\* refused, canceled or repeated.
CredentialsValid ==
    late = 0 => \A a \in App, i \in Instance : InMemory(a, i) \subseteq Valid(i)

\* Before a pruning (steps 2 and 5) all apps are on the most recent binding,
\* which is what makes the pruning harmless (serviceManager.js:228-231).
FleetOnNewest ==
    late = 0 /\ step \in {2, 5} =>
        \A a \in App \ Skipped, i \in Instance :
            InMemory(a, i) \subseteq Svm!MostRecent(Valid(i))

\* Step 3 has left every instance with a second binding, also if it had to be
\* repeated, and step 5 leaves it with one.
CountsPerStep ==
    late = 0 =>
        \A i \in Usable : /\ step = 4 => Cardinality(Valid(i)) = 2
                          /\ step = 6 => Cardinality(Valid(i)) = 1

\* The operator gets to the end of the rotation by repeating failed steps.
RotationCompletes == <>(step = 6)

\* docs/service-manager/index.md:168-175: any step can be retried safely, and
\* in step 3 the credentials in memory stay valid.  Svm-make-bindings-double
\* does not prune a succeeded binding that an app holds.
DoubleSparesInUse ==
    [][\A b \in Svm!BindingId :
         step = 3 /\ seen[b] = "succeeded"
                  /\ lastOp[b] = "succeeded" /\ lastOp'[b] = "deleting"
           => \A a \in App, i \in Instance : b \notin InMemory(a, i)]_vars
=============================================================================
