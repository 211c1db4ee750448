---------------------- MODULE CredentialRotationProofs ----------------------
(***************************************************************************)
(* Proofs about CredentialRotation, for any instances, bindings and apps   *)
(* and any number of refusals.  They build on what NormalizeBindingsProofs *)
(* and RollingRestartProofs prove about the two commands.                  *)
(***************************************************************************)
EXTENDS CredentialRotation, FiniteSetTheorems, TLAPS

SvmP == INSTANCE NormalizeBindingsProofs
RestartP == INSTANCE RollingRestartProofs WITH
    phase <- rphase, apps <- rapps, waiting <- rwaiting, polling <- rpolling,
    rejected <- rrejected, outcome <- routcome

-----------------------------------------------------------------------------
(* The two commands in this module and in the modules with their proofs    *)

LEMMA SameCounting ==
    \A S : /\ SvmP!IsFiniteSet(S) <=> IsFiniteSet(S)
           /\ RestartP!IsFiniteSet(S) <=> IsFiniteSet(S)
           /\ SvmP!Cardinality(S) = Cardinality(S)
           /\ Svm!Cardinality(S) = Cardinality(S)
           /\ RestartP!Cardinality(S) = Cardinality(S)
           /\ Restart!Cardinality(S) = Cardinality(S)
<1>1. \A S : /\ SvmP!IsFiniteSet(S) <=> IsFiniteSet(S)
             /\ RestartP!IsFiniteSet(S) <=> IsFiniteSet(S)
  BY Zenon DEF IsFiniteSet, SvmP!IsFiniteSet, RestartP!IsFiniteSet
<1>2. \A S : /\ SvmP!Cardinality(S) = Cardinality(S)
             /\ Svm!Cardinality(S) = Cardinality(S)
             /\ RestartP!Cardinality(S) = Cardinality(S)
             /\ Restart!Cardinality(S) = Cardinality(S)
  BY Zenon DEF Cardinality, SvmP!Cardinality, RestartP!Cardinality, Svm!Cardinality,
               Restart!Cardinality
<1> QED
  BY <1>1, <1>2

\* The assumptions of the two modules hold.
LEMMA SvmAssumed ==
    /\ SvmP!InstanceAssumption /\ SvmP!TargetAssumption
    /\ SvmP!InitialStateAssumption /\ SvmP!BoundAssumption
<1>1. SvmP!InstanceAssumption
  BY InstanceAssumption, SameCounting DEF SvmP!InstanceAssumption
<1>2. SvmP!TargetAssumption
  BY DEF SvmP!TargetAssumption, Target
<1>3. SvmP!InitialStateAssumption
  BY InitialStateAssumption
     DEF SvmP!InitialStateAssumption, SvmP!InProgress, SvmP!FailedState
<1>4. SvmP!BoundAssumption
  BY BoundAssumption DEF SvmP!BoundAssumption
<1> QED
  BY <1>1, <1>2, <1>3, <1>4

LEMMA RestartAssumed == RestartP!AppAssumption /\ RestartP!RestartBoundAssumption
  BY AppAssumption, BoundAssumption, SameCounting
     DEF RestartP!AppAssumption, RestartP!RestartBoundAssumption

LEMMA SameListing ==
    /\ \A s, i : /\ SvmP!Succeeded(s, i) = Svm!Succeeded(s, i)
                 /\ SvmP!NotSucceeded(s, i) = Svm!NotSucceeded(s, i)
    /\ \A S : SvmP!MostRecent(S) = Svm!MostRecent(S)
    /\ \A s, i, t : /\ SvmP!Missing(s, i, t) = Svm!Missing(s, i, t)
                    /\ SvmP!Ambivalent(s, i, t) = Svm!Ambivalent(s, i, t)
                    /\ SvmP!Changes(s, i, t) = Svm!Changes(s, i, t)
<1>1. \A s, i : /\ SvmP!Listed(s, i) = Svm!Listed(s, i)
                /\ SvmP!Succeeded(s, i) = Svm!Succeeded(s, i)
                /\ SvmP!NotSucceeded(s, i) = Svm!NotSucceeded(s, i)
  BY DEF SvmP!Listed, Svm!Listed, SvmP!Succeeded, Svm!Succeeded, SvmP!NotSucceeded,
         Svm!NotSucceeded, SvmP!BindingId, Svm!BindingId
<1>2. \A S : SvmP!MostRecent(S) = Svm!MostRecent(S)
  BY DEF SvmP!MostRecent, Svm!MostRecent
<1>3. \A s, i, t : SvmP!Missing(s, i, t) = Svm!Missing(s, i, t)
  BY <1>1, SameCounting DEF SvmP!Missing, Svm!Missing, SvmP!Create, Svm!Create
<1>4. \A s, i, t : SvmP!Ambivalent(s, i, t) = Svm!Ambivalent(s, i, t)
  BY <1>1, <1>2, SameCounting DEF SvmP!Ambivalent, Svm!Ambivalent
<1>5. \A s, i, t : SvmP!Changes(s, i, t) = Svm!Changes(s, i, t)
  BY <1>1, <1>3, <1>4
     DEF SvmP!Changes, Svm!Changes, SvmP!Prune, Svm!Prune, SvmP!Cleanup, Svm!Cleanup
<1> QED
  BY <1>1, <1>2, <1>3, <1>4, <1>5

\* What the two commands, the service-manager and Cloud Foundry do by themselves.
SvmMoves == SvmP!Proceed \/ SvmP!Complete \/ SvmP!Fault
RestartMoves == RestartP!Proceed \/ RestartP!Complete \/ RestartP!Fault

LEMMA SameSvmSteps ==
    /\ Svm!Init => SvmP!Init
    /\ \A t, sc : Svm!Start(t, sc) => SvmP!Start(t, sc)
    /\ Svm!Proceed \/ Svm!Complete \/ Svm!Fault => SvmMoves
<1> USE DEF SvmP!BindingId, Svm!BindingId, SvmP!InProgress, Svm!InProgress,
            SvmP!FailedState, Svm!FailedState, SvmP!svm, Svm!svm, SvmP!run, Svm!run
<1>1. Svm!Init => SvmP!Init
  BY DEF Svm!Init, SvmP!Init
<1>2. ASSUME NEW t, NEW sc, Svm!Start(t, sc) PROVE SvmP!Start(t, sc)
  <2>1. {SvmP!Missing(lastOp, i, t) : i \in sc \cap Usable}
          = {Svm!Missing(lastOp, i, t) : i \in sc \cap Usable}
    BY SameListing
  <2>2. SvmP!Room(t, sc)
    BY <1>2, <2>1, SameCounting DEF Svm!Start, SvmP!Room, Svm!Room
  <2> QED
    BY <1>2, <2>2 DEF Svm!Start, SvmP!Start
<1>3. Svm!Read => SvmP!Read
  <2>1. {SvmP!Changes(lastOp, i, target) : i \in scope \cap Usable}
          = {Svm!Changes(lastOp, i, target) : i \in scope \cap Usable}
    BY SameListing
  <2> QED
    BY <2>1 DEF Svm!Read, SvmP!Read
<1>4. \A c : Svm!Ready(c) => SvmP!Ready(c)
  BY SameCounting DEF Svm!Ready, SvmP!Ready, Svm!Before, SvmP!Before
<1>5. \A c, b : Svm!AcceptCreate(c, b) \/ Svm!AcceptDelete(c, b)
                  => SvmP!AcceptCreate(c, b) \/ SvmP!AcceptDelete(c, b)
  BY DEF Svm!AcceptCreate, SvmP!AcceptCreate, Svm!AcceptDelete, SvmP!AcceptDelete
<1>6. \A c, b : Svm!Submit(c, b) => SvmP!Submit(c, b)
  BY <1>4, <1>5 DEF Svm!Submit, SvmP!Submit
<1>7. \A c, b : Svm!LoseResponse(c, b) => SvmP!LoseResponse(c, b)
  BY <1>4, <1>5 DEF Svm!LoseResponse, SvmP!LoseResponse
<1>8. \A c : /\ Svm!RefuseDelete(c) => SvmP!RefuseDelete(c)
             /\ Svm!Refuse(c) => SvmP!Refuse(c)
  BY <1>4 DEF Svm!RefuseDelete, SvmP!RefuseDelete, Svm!Refuse, SvmP!Refuse
<1>9. \A b : /\ Svm!Poll(b) => SvmP!Poll(b)
             /\ Svm!PollFails(b) => SvmP!PollFails(b)
  BY DEF Svm!Poll, SvmP!Poll, Svm!PollFails, SvmP!PollFails
<1>10. /\ Svm!ReadFails => SvmP!ReadFails
       /\ Svm!Finish => SvmP!Finish
       /\ Svm!Crash => SvmP!Crash
  BY DEF Svm!ReadFails, SvmP!ReadFails, Svm!Finish, SvmP!Finish, Svm!Crash, SvmP!Crash
<1>11. \A b : /\ Svm!CreateCompletes(b) => SvmP!CreateCompletes(b)
              /\ Svm!DeleteCompletes(b) => SvmP!DeleteCompletes(b)
              /\ Svm!OperationFails(b) => SvmP!OperationFails(b)
  BY DEF Svm!CreateCompletes, SvmP!CreateCompletes, Svm!DeleteCompletes,
         SvmP!DeleteCompletes, Svm!OperationFails, SvmP!OperationFails
<1>12. Svm!Proceed => SvmP!Proceed
  BY <1>3, <1>6, <1>8, <1>9, <1>10 DEF Svm!Proceed, SvmP!Proceed
<1>13. Svm!Complete => SvmP!Complete
  BY <1>11 DEF Svm!Complete, SvmP!Complete
<1>14. Svm!Fault => SvmP!Fault
  BY <1>7, <1>8, <1>9, <1>10, <1>11 DEF Svm!Fault, SvmP!Fault
<1> QED
  BY <1>1, <1>2, <1>12, <1>13, <1>14 DEF SvmMoves

LEMMA SameRestartSteps ==
    /\ Restart!Init => RestartP!Init
    /\ Restart!Start => RestartP!Start
    /\ Restart!List => RestartP!List
    /\ Restart!Finish => RestartP!Finish
    /\ \A a : Restart!Submit(a) => RestartP!Submit(a)
    /\ \A a : Restart!Poll(a) => RestartP!Poll(a)
    /\ \A a : Restart!Deployed(a) => RestartP!Deployed(a)
    /\ \A a : Restart!Canceled(a) => RestartP!Canceled(a)
    /\ Restart!ListFails => RestartP!ListFails
    /\ Restart!Crash => RestartP!Crash
    /\ \A a : Restart!LoseResponse(a) => RestartP!LoseResponse(a)
    /\ \A a : Restart!Refuse(a) => RestartP!Refuse(a)
    /\ \A a : Restart!PollFails(a) => RestartP!PollFails(a)
    /\ \A a : Restart!AppStarts(a) => RestartP!AppStarts(a)
    /\ \A a : Restart!AppStops(a) => RestartP!AppStops(a)
<1> USE DEF Restart!cf, RestartP!cf
<1>1. Restart!Init => RestartP!Init
  BY DEF Restart!Init, RestartP!Init
<1>2. Restart!Start => RestartP!Start
  BY DEF Restart!Start, RestartP!Start
<1>3. /\ Restart!List => RestartP!List
      /\ Restart!ListFails => RestartP!ListFails
  BY DEF Restart!List, RestartP!List, Restart!ListFails, RestartP!ListFails
<1>4. \A a : Restart!Ready(a) => RestartP!Ready(a)
  BY SameCounting DEF Restart!Ready, RestartP!Ready
<1>5. \A a : /\ Restart!Submit(a) => RestartP!Submit(a)
             /\ Restart!LoseResponse(a) => RestartP!LoseResponse(a)
             /\ Restart!Refuse(a) => RestartP!Refuse(a)
  BY <1>4 DEF Restart!Submit, RestartP!Submit, Restart!LoseResponse,
              RestartP!LoseResponse, Restart!Refuse, RestartP!Refuse
<1>6. \A a : /\ Restart!Poll(a) => RestartP!Poll(a)
             /\ Restart!PollFails(a) => RestartP!PollFails(a)
  BY DEF Restart!Poll, RestartP!Poll, Restart!PollFails, RestartP!PollFails
<1>7. /\ Restart!Finish => RestartP!Finish
      /\ Restart!Crash => RestartP!Crash
  BY DEF Restart!Finish, RestartP!Finish, Restart!Crash, RestartP!Crash
<1>8. \A a : /\ Restart!Deployed(a) => RestartP!Deployed(a)
             /\ Restart!Canceled(a) => RestartP!Canceled(a)
  BY DEF Restart!Deployed, RestartP!Deployed, Restart!Canceled, RestartP!Canceled
<1>9. \A a : /\ Restart!AppStarts(a) => RestartP!AppStarts(a)
             /\ Restart!AppStops(a) => RestartP!AppStops(a)
  BY DEF Restart!AppStarts, RestartP!AppStarts, Restart!AppStops, RestartP!AppStops
<1> QED
  BY <1>1, <1>2, <1>3, <1>5, <1>6, <1>7, <1>8, <1>9

\* A step of the rotation is one of the svm commands, of the restart command or of
\* neither.
LEMMA StepKinds ==
    ASSUME [Next]_vars
    PROVE  \/ SvmP!Next /\ UNCHANGED restartVars
           \/ RestartP!Next /\ UNCHANGED svmVars
           \/ UNCHANGED <<svmVars, restartVars, refusals, late>>
<1>1. ASSUME NEW t \in Target, NEW sc \in Scopes, Svm!Start(t, sc) PROVE SvmP!Next
  BY <1>1, SameSvmSteps DEF SvmP!Next
<1>2. CASE Launch
  BY <1>1, <1>2, SameRestartSteps DEF Launch, Target, RestartP!Next
<1>3. ASSUME Svm!Proceed \/ Svm!Complete \/ Svm!Fault PROVE SvmP!Next
  BY <1>3, SameSvmSteps DEF SvmMoves, SvmP!Next
<1>4. CASE Proceed
  BY <1>3, <1>4, SameRestartSteps
     DEF Proceed, SvmStep, RestartStep, RestartP!Next, RestartP!Proceed
<1>5. CASE Complete
  BY <1>3, <1>5, SameRestartSteps
     DEF Complete, SvmStep, RestartStep, RestartP!Next, RestartP!Complete
<1>6. CASE Fault
  BY <1>3, <1>6, SameRestartSteps
     DEF Fault, SvmStep, RestartStep, RestartP!Next, RestartP!Fault
<1>7. CASE Users
  BY <1>7, SameRestartSteps DEF Users, Load, RestartStep, RestartP!Next, RestartP!Users
<1>8. CASE Observe
  BY <1>8 DEF Observe
<1>9. CASE UNCHANGED vars
  BY <1>9 DEF vars
<1> QED
  BY <1>2, <1>4, <1>5, <1>6, <1>7, <1>8, <1>9 DEF Next

LEMMA SameTypes ==
    /\ SvmP!TypeOK <=> Svm!TypeOK
    /\ RestartP!TypeOK <=> Restart!TypeOK
<1>1. SvmP!TypeOK <=> Svm!TypeOK
  BY DEF SvmP!TypeOK, Svm!TypeOK, SvmP!OpState, Svm!OpState, SvmP!InProgress,
         Svm!InProgress, SvmP!FailedState, Svm!FailedState, SvmP!Change, Svm!Change,
         SvmP!BindingId, Svm!BindingId
<1>2. RestartP!TypeOK <=> Restart!TypeOK
  BY DEF RestartP!TypeOK, Restart!TypeOK
<1> QED
  BY <1>1, <1>2

-----------------------------------------------------------------------------
(* Type correctness                                                        *)

Memory == [App -> [Instance -> SUBSET Svm!BindingId]]

LEMMA MemoryNext ==
    ASSUME held \in Memory, fresh \in Memory, [Next]_vars
    PROVE  held' \in Memory /\ fresh' \in Memory
<1>a. Empty \in [Instance -> SUBSET Svm!BindingId]
  BY DEF Empty
<1>1. ASSUME UNCHANGED appVars PROVE held' \in Memory /\ fresh' \in Memory
  BY <1>1 DEF appVars
<1>2. ASSUME NEW a \in App, NEW i \in Instance, NEW b \in Svm!BindingId, Load(a, i, b)
      PROVE  held' \in Memory /\ fresh' \in Memory
  <2>1. ASSUME NEW m \in Memory PROVE [m EXCEPT ![a][i] = @ \cup {b}] \in Memory
    <3>1. m[a] \in [Instance -> SUBSET Svm!BindingId]
      BY DEF Memory
    <3>2. [m[a] EXCEPT ![i] = @ \cup {b}] \in [Instance -> SUBSET Svm!BindingId]
      BY <3>1
    <3> QED
      BY <3>2 DEF Memory
  <2> QED
    BY <1>2, <2>1 DEF Load
<1>3. ASSUME NEW a, NewDeployment(a) PROVE held' \in Memory /\ fresh' \in Memory
  <2>1. CASE a \in App
    BY <1>3, <1>a, <2>1 DEF NewDeployment, Memory
  <2>2. CASE a \notin App
    BY <1>3, <1>a, <2>2 DEF NewDeployment, Memory
  <2> QED
    BY <2>1, <2>2
<1>4. ASSUME NEW a \in App, NEW m \in [Instance -> SUBSET Svm!BindingId],
             EndDeployment(a, m)
      PROVE  held' \in Memory /\ fresh' \in Memory
  BY <1>4, <1>a DEF EndDeployment, Memory
<1>5. \A a \in App : /\ held[a] \in [Instance -> SUBSET Svm!BindingId]
                     /\ fresh[a] \in [Instance -> SUBSET Svm!BindingId]
  BY DEF Memory
<1>6. CASE Launch \/ Observe \/ UNCHANGED vars
  BY <1>1, <1>6 DEF Launch, Observe, vars
<1>7. CASE Proceed
  BY <1>1, <1>3, <1>7 DEF Proceed, SvmStep
<1>8. CASE Complete
  BY <1>1, <1>4, <1>5, <1>8 DEF Complete, SvmStep
<1>9. CASE Fault
  BY <1>1, <1>3, <1>4, <1>5, <1>9 DEF Fault, SvmStep
<1>10. CASE Users
  BY <1>1, <1>2, <1>4, <1>a, <1>10 DEF Users
<1> QED
  BY <1>6, <1>7, <1>8, <1>9, <1>10 DEF Next

\* After the last step no command is launched any more.
OperatorTyped == step \in 1..6 /\ launched \in BOOLEAN /\ (launched => step # 6)

LEMMA OperatorNext == OperatorTyped /\ [Next]_vars => OperatorTyped'
<1> SUFFICES ASSUME OperatorTyped, [Next]_vars PROVE OperatorTyped'
  OBVIOUS
<1>1. CASE UNCHANGED operatorVars
  BY <1>1 DEF OperatorTyped, operatorVars
<1>2. CASE Launch
  BY <1>2 DEF OperatorTyped, Launch
<1>3. CASE Observe
  <2>1. launched /\ launched' = FALSE /\ step' \in {step, step + 1}
    BY <1>3 DEF Observe
  <2>2. step \in 1..6 /\ step # 6
    BY <2>1 DEF OperatorTyped
  <2>3. step' \in 1..6
    BY <2>1, <2>2
  <2>4. launched' \in BOOLEAN /\ ~launched'
    BY <2>1
  <2> QED
    BY <2>3, <2>4 DEF OperatorTyped
<1> QED
  BY <1>1, <1>2, <1>3
     DEF Next, Proceed, Complete, Fault, Users, SvmStep, RestartStep, Load, vars

Typed == TypeOK /\ RestartP!IInv /\ OperatorTyped

LEMMA TypedInit == Init => Typed
<1> SUFFICES ASSUME Init PROVE Typed
  OBVIOUS
<1>1. Svm!TypeOK
  BY SvmAssumed, SvmP!InitType, SameSvmSteps, SameTypes DEF Init
<1>2. RestartP!IInv
  BY RestartAssumed, RestartP!InvInit, SameRestartSteps DEF Init
<1>3. Restart!TypeOK
  BY <1>2, SameTypes DEF RestartP!IInv
<1>4. held \in Memory
  <2>1. issued \in 0..MaxBindings
    BY <1>1 DEF Svm!TypeOK
  <2>2. 1..issued \subseteq Svm!BindingId
    BY <2>1, BoundAssumption DEF Svm!BindingId
  <2> QED
    BY <2>2 DEF Init, Memory
<1>5. fresh \in Memory
  BY DEF Init, Memory, Empty
<1>6. OperatorTyped
  <2>1. step = 1 /\ launched = FALSE
    BY DEF Init
  <2>2. step \in 1..6
    BY <2>1
  <2>3. launched \in BOOLEAN /\ ~launched
    BY <2>1
  <2> QED
    BY <2>2, <2>3 DEF OperatorTyped
<1> QED
  BY <1>1, <1>2, <1>3, <1>4, <1>5, <1>6 DEF Typed, TypeOK, Memory, OperatorTyped

LEMMA TypedNext == Typed /\ [Next]_vars => Typed'
<1> SUFFICES ASSUME Typed, [Next]_vars PROVE Typed'
  OBVIOUS
<1>a. SvmP!TypeOK /\ RestartP!IInv /\ RestartP!TypeOK
  BY SameTypes DEF Typed, TypeOK
<1>1. held' \in Memory /\ fresh' \in Memory
  BY MemoryNext DEF Typed, TypeOK, Memory
<1>2. SvmP!TypeOK' /\ RestartP!IInv'
  <2>1. CASE SvmP!Next /\ UNCHANGED restartVars
    <3>1. SvmP!TypeOK'
      BY <1>a, <2>1, SvmAssumed, SvmP!NextType
    <3>2. refusals' \in 0..MaxRefusals /\ late' \in 0..MaxLate /\ (late' = 0 => late = 0)
      BY <1>a, <2>1, <3>1, SvmAssumed, SvmP!LateGrows DEF SvmP!TypeOK
    <3> QED
      BY <1>a, <2>1, <3>1, <3>2, RestartAssumed, RestartP!InvBeside
         DEF restartVars, RestartP!cf
  <2>2. CASE RestartP!Next /\ UNCHANGED svmVars
    <3>1. RestartP!IInv'
      BY <1>a, <2>2, RestartAssumed, RestartP!InvNext
    <3> QED
      BY <1>a, <2>2, <3>1 DEF RestartP!IInv, RestartP!TypeOK, SvmP!TypeOK, svmVars
  <2>3. CASE UNCHANGED <<svmVars, restartVars, refusals, late>>
    <3>1. SvmP!TypeOK'
      BY <1>a, <2>3 DEF SvmP!TypeOK, svmVars
    <3> QED
      BY <1>a, <2>3, <3>1, RestartAssumed, RestartP!InvBeside
         DEF SvmP!TypeOK, restartVars, RestartP!cf
  <2> QED
    BY <2>1, <2>2, <2>3, StepKinds
<1>3. Svm!TypeOK' /\ Restart!TypeOK'
  BY <1>2, SameTypes, PTL DEF RestartP!IInv
<1>4. OperatorTyped'
  BY OperatorNext DEF Typed
<1> QED
  BY <1>1, <1>2, <1>3, <1>4 DEF Typed, TypeOK, Memory, OperatorTyped

\* The commands, the platform, the apps and the operator keep their types, and
\* the operator never goes beyond the end of the rotation.
THEOREM RotationTypeCorrect == Spec => []TypeOK
<1>1. Typed => TypeOK
  BY DEF Typed
<1> QED
  BY <1>1, TypedInit, TypedNext, PTL DEF Spec

-----------------------------------------------------------------------------
(* Memory and turns                                                        *)

\* What an app gets when it reads its credentials for instance i now.
Newest(i) == Svm!MostRecent(Valid(i))

\* Only an active deployment has processes of its own, and an app that is not
\* started has none.
IdleMemory ==
    /\ \A a \in App : deployment[a] # "ACTIVE" => fresh[a] = Empty
    /\ \A a \in App \ started, i \in Instance : InMemory(a, i) = {}

\* A command runs only in the steps that launch it, and only once launched.
Turns ==
    /\ step \notin {1, 4} \/ ~launched => rphase = "idle"
    /\ step \notin {2, 3, 5} \/ ~launched => phase = "idle"
    /\ launched /\ step \in {2, 3, 5} => target = IF step = 3 THEN 2 ELSE 1

LEMMA SvmMovesRun ==
    ASSUME SvmMoves
    PROVE  /\ phase = "idle" => phase' = "idle"
           /\ target' = target
  BY DEF SvmMoves, SvmP!Proceed, SvmP!Complete, SvmP!Fault, SvmP!Read, SvmP!ReadFails,
         SvmP!Submit, SvmP!LoseResponse, SvmP!RefuseDelete, SvmP!Refuse, SvmP!Poll,
         SvmP!PollFails, SvmP!Finish, SvmP!Crash, SvmP!CreateCompletes,
         SvmP!DeleteCompletes, SvmP!OperationFails, SvmP!run, SvmP!Ready

LEMMA RestartMovesRun ==
    ASSUME RestartMoves
    PROVE  /\ rphase = "idle" => rphase' = "idle"
           /\ started' = started
  BY DEF RestartMoves, RestartP!Proceed, RestartP!Complete, RestartP!Fault,
         RestartP!List, RestartP!ListFails, RestartP!Submit, RestartP!LoseResponse,
         RestartP!Refuse, RestartP!Poll, RestartP!PollFails, RestartP!Finish,
         RestartP!Crash, RestartP!Deployed, RestartP!Canceled, RestartP!cf

\* What a step of the rotation may be, by what it leaves alone.
LEMMA StepTurns ==
    ASSUME [Next]_vars
    PROVE  \/ Launch
           \/ Observe
           \/ SvmMoves /\ UNCHANGED <<restartVars, appVars, operatorVars>>
           \/ RestartMoves /\ UNCHANGED <<svmVars, operatorVars>>
           \/ /\ UNCHANGED <<svmVars, operatorVars, refusals, late, deployment>>
              /\ UNCHANGED <<rphase, rapps, rwaiting, rpolling, rrejected, routcome>>
<1>1. CASE Proceed
  BY <1>1, SameSvmSteps, SameRestartSteps
     DEF Proceed, SvmStep, RestartStep, RestartMoves, RestartP!Proceed
<1>2. CASE Complete
  BY <1>2, SameSvmSteps, SameRestartSteps
     DEF Complete, SvmStep, RestartStep, RestartMoves, RestartP!Complete
<1>3. CASE Fault
  BY <1>3, SameSvmSteps, SameRestartSteps
     DEF Fault, SvmStep, RestartStep, RestartMoves, RestartP!Fault
<1>4. CASE Users
  BY <1>4 DEF Users, Load, RestartStep, Restart!AppStarts, Restart!AppStops, restartVars
<1>5. CASE UNCHANGED vars
  BY <1>5 DEF vars, restartVars
<1> QED
  BY <1>1, <1>2, <1>3, <1>4, <1>5 DEF Next

LEMMA TurnsNext == OperatorTyped /\ Turns /\ [Next]_vars => Turns'
<1> SUFFICES ASSUME OperatorTyped, Turns, [Next]_vars PROVE Turns'
  OBVIOUS
<1>1. CASE Launch
  <2>1. CASE step \in {1, 4}
    BY <1>1, <2>1 DEF Launch, Turns, svmVars
  <2>2. CASE step \in {2, 5}
    BY <1>1, <2>2 DEF Launch, Turns, restartVars, Svm!Start
  <2>3. CASE step = 3
    BY <1>1, <2>3 DEF Launch, Turns, restartVars, Svm!Start
  <2> QED
    BY <1>1, <2>1, <2>2, <2>3 DEF Launch
<1>2. CASE Observe
  BY <1>2 DEF Observe, Turns, svmVars, restartVars
<1>3. CASE SvmMoves /\ UNCHANGED <<restartVars, appVars, operatorVars>>
  BY <1>3, SvmMovesRun DEF Turns, restartVars, operatorVars
<1>4. CASE RestartMoves /\ UNCHANGED <<svmVars, operatorVars>>
  BY <1>4, RestartMovesRun DEF Turns, svmVars, operatorVars
<1>5. CASE UNCHANGED <<svmVars, operatorVars, rphase>>
  BY <1>5 DEF Turns, svmVars, operatorVars
<1> QED
  BY <1>1, <1>2, <1>3, <1>4, <1>5, StepTurns

\* What a new deployment and the end of one do to the memory of the apps.
LEMMA NewDeploymentMemory ==
    ASSUME held \in Memory, fresh \in Memory, NEW c \in App, NewDeployment(c),
           NEW a \in App
    PROVE  /\ \A i \in Instance : InMemory(a, i)' = InMemory(a, i)
           /\ fresh'[a] = IF a = c THEN Empty ELSE fresh[a]
<1>1. held'[a] = IF a = c THEN [i \in Instance |-> held[a][i] \cup fresh[a][i]] ELSE held[a]
  BY DEF NewDeployment, Memory
<1>2. fresh'[a] = IF a = c THEN Empty ELSE fresh[a]
  BY DEF NewDeployment, Memory
<1> QED
  BY <1>1, <1>2 DEF InMemory, Empty

LEMMA EndDeploymentMemory ==
    ASSUME held \in Memory, fresh \in Memory, NEW c \in App, NEW m, EndDeployment(c, m),
           NEW a \in App
    PROVE  /\ \A i \in Instance : InMemory(a, i)' = IF a = c THEN m[i] ELSE InMemory(a, i)
           /\ fresh'[a] = IF a = c THEN Empty ELSE fresh[a]
<1>1. held'[a] = IF a = c THEN m ELSE held[a]
  BY DEF EndDeployment, Memory
<1>2. fresh'[a] = IF a = c THEN Empty ELSE fresh[a]
  BY DEF EndDeployment, Memory
<1> QED
  BY <1>1, <1>2 DEF InMemory, Empty

LEMMA LoadMemory ==
    ASSUME held \in Memory, fresh \in Memory,
           NEW c \in App, NEW j \in Instance, NEW b, Load(c, j, b),
           NEW a \in App, NEW i \in Instance
    PROVE  /\ InMemory(a, i)' \subseteq InMemory(a, i) \cup (IF a = c THEN Newest(i) ELSE {})
           /\ fresh'[a][i] \subseteq
                fresh[a][i] \cup (IF a = c /\ deployment[a] = "ACTIVE" THEN Newest(i) ELSE {})
<1>a. /\ \A d \in App : held[d] \in [Instance -> SUBSET Svm!BindingId]
      /\ \A d \in App : fresh[d] \in [Instance -> SUBSET Svm!BindingId]
      /\ b \in Newest(j)
  BY DEF Memory, Load, Newest
<1>1. ASSUME NEW m \in Memory, NEW n, n = [m EXCEPT ![c][j] = @ \cup {b}]
      PROVE  n[a][i] = IF a = c /\ i = j THEN m[a][i] \cup {b} ELSE m[a][i]
  <2>1. m[c] \in [Instance -> SUBSET Svm!BindingId]
    BY DEF Memory
  <2>2. n[a] = IF a = c THEN [m[c] EXCEPT ![j] = @ \cup {b}] ELSE m[a]
    BY <1>1 DEF Memory
  <2> QED
    BY <2>1, <2>2
<1>2. CASE held' = [held EXCEPT ![c][j] = @ \cup {b}] /\ UNCHANGED fresh
  <2>1. held'[a][i] = IF a = c /\ i = j THEN held[a][i] \cup {b} ELSE held[a][i]
    BY <1>1, <1>2
  <2> QED
    BY <1>2, <1>a, <2>1 DEF InMemory
<1>3. CASE /\ deployment[c] = "ACTIVE"
           /\ fresh' = [fresh EXCEPT ![c][j] = @ \cup {b}]
           /\ UNCHANGED held
  <2>1. fresh'[a][i] = IF a = c /\ i = j THEN fresh[a][i] \cup {b} ELSE fresh[a][i]
    BY <1>1, <1>3
  <2> QED
    BY <1>3, <1>a, <2>1 DEF InMemory
<1> QED
  BY <1>2, <1>3 DEF Load

\* Whatever happens, an app gets nothing but the most recent credentials.
LEMMA OnlyNewestLoaded ==
    ASSUME held \in Memory, fresh \in Memory, RestartP!TypeOK, [Next]_vars,
           NEW a \in App, NEW i \in Instance
    PROVE  /\ InMemory(a, i)' \subseteq InMemory(a, i) \cup Newest(i)
           /\ fresh'[a][i] \subseteq fresh[a][i] \cup Newest(i)
<1> DEFINE Goal == /\ InMemory(a, i)' \subseteq InMemory(a, i) \cup Newest(i)
                   /\ fresh'[a][i] \subseteq fresh[a][i] \cup Newest(i)
<1> SUFFICES Goal
  OBVIOUS
<1>a. rwaiting \subseteq App
  BY DEF RestartP!TypeOK
<1>b. Empty[i] = {}
  BY DEF Empty
<1>1. CASE UNCHANGED appVars
  BY <1>1 DEF appVars, InMemory
<1>2. ASSUME NEW c \in App, NewDeployment(c) PROVE Goal
  BY <1>2, <1>b, NewDeploymentMemory
<1>3. ASSUME NEW c \in App, NEW m, EndDeployment(c, m), m[i] \subseteq InMemory(c, i)
      PROVE  Goal
  BY <1>3, <1>b, EndDeploymentMemory
<1>4. ASSUME NEW c \in App, NEW j \in Instance, NEW b, Load(c, j, b) PROVE Goal
  BY <1>4, LoadMemory
<1> HIDE DEF Goal
<1>5. CASE Launch \/ Observe \/ UNCHANGED vars
  BY <1>1, <1>5 DEF Launch, Observe, vars
<1>6. CASE Proceed
  BY <1>1, <1>2, <1>6, <1>a DEF Proceed, SvmStep
<1>7. CASE Complete
  BY <1>1, <1>3, <1>7 DEF Complete, SvmStep, InMemory
<1>8. CASE Fault
  <2>1. ASSUME NEW c \in App, EndDeployment(c, held[c]) PROVE Goal
    BY <1>3, <2>1 DEF InMemory
  <2> QED
    BY <1>1, <1>2, <1>8, <1>a, <2>1 DEF Fault, SvmStep
<1>9. CASE Users
  BY <1>1, <1>3, <1>4, <1>9, <1>b DEF Users
<1> QED
  BY <1>5, <1>6, <1>7, <1>8, <1>9 DEF Next

LEMMA IdleMemoryNext ==
    ASSUME held \in Memory, fresh \in Memory, RestartP!TypeOK, IdleMemory, [Next]_vars
    PROVE  IdleMemory'
<1>a. /\ rwaiting \subseteq App /\ rpolling \subseteq App
      /\ \A a \in App : deployment[a] # "ACTIVE" => fresh[a] = Empty
      /\ deployment \in [App -> {"none", "ACTIVE", "DEPLOYED", "CANCELED"}]
  BY DEF RestartP!TypeOK, IdleMemory
<1>b. \A i \in Instance : Empty[i] = {}
  BY DEF Empty
<1>1. ASSUME UNCHANGED <<started, deployment, appVars>> PROVE IdleMemory'
  BY <1>1 DEF IdleMemory, InMemory, appVars
<1>2. ASSUME NEW c \in App, NewDeployment(c), started' = started,
             deployment' = [deployment EXCEPT ![c] = "ACTIVE"]
      PROVE  IdleMemory'
  <2>1. ASSUME NEW a \in App, deployment'[a] # "ACTIVE" PROVE fresh'[a] = Empty
    BY <1>2, <1>a, <2>1, NewDeploymentMemory
  <2>2. ASSUME NEW a \in App \ started', NEW i \in Instance PROVE InMemory(a, i)' = {}
    BY <1>2, NewDeploymentMemory DEF IdleMemory
  <2> QED
    BY <2>1, <2>2 DEF IdleMemory
<1>3. ASSUME NEW c \in App, NEW m, EndDeployment(c, m),
             \A i \in Instance : m[i] \subseteq InMemory(c, i),
             started' = started \/ (started' = started \ {c} /\ m = Empty),
             \A a \in App \ {c} : deployment'[a] = deployment[a]
      PROVE  IdleMemory'
  <2>1. ASSUME NEW a \in App, deployment'[a] # "ACTIVE" PROVE fresh'[a] = Empty
    BY <1>3, <1>a, <2>1, EndDeploymentMemory
  <2>2. ASSUME NEW a \in App \ started', NEW i \in Instance PROVE InMemory(a, i)' = {}
    <3>1. InMemory(a, i)' = IF a = c THEN m[i] ELSE InMemory(a, i)
      BY <1>3, EndDeploymentMemory
    <3>2. a \notin started => InMemory(a, i) = {}
      BY DEF IdleMemory
    <3> QED
      BY <1>3, <1>b, <3>1, <3>2
  <2> QED
    BY <2>1, <2>2 DEF IdleMemory
<1>4. ASSUME NEW c \in App, NEW j \in Instance, NEW b, Load(c, j, b) PROVE IdleMemory'
  <2>1. /\ UNCHANGED <<started, deployment>> /\ c \in started
        /\ deployment[c] = "ACTIVE" \/ fresh' = fresh
    BY <1>4 DEF Load, restartVars
  <2>2. ASSUME NEW a \in App, deployment'[a] # "ACTIVE" PROVE fresh'[a] = Empty
    <3>1. CASE fresh' = fresh
      BY <1>a, <2>1, <2>2, <3>1
    <3>2. CASE deployment[c] = "ACTIVE" /\ fresh' = [fresh EXCEPT ![c][j] = @ \cup {b}]
      <4>1. a # c
        BY <2>1, <2>2, <3>2
      <4>2. fresh'[a] = fresh[a]
        BY <3>2, <4>1 DEF Memory
      <4> QED
        BY <1>a, <2>1, <2>2, <4>2
    <3> QED
      BY <1>4, <3>1, <3>2 DEF Load
  <2>3. ASSUME NEW a \in App \ started', NEW i \in Instance PROVE InMemory(a, i)' = {}
    <3>1. a # c /\ InMemory(a, i) = {}
      BY <2>1 DEF IdleMemory
    <3> QED
      BY <1>4, <3>1, LoadMemory
  <2> QED
    BY <2>2, <2>3 DEF IdleMemory
<1>5. CASE Launch
  BY <1>1, <1>5 DEF Launch, restartVars, Restart!Start, Restart!cf
<1>6. CASE Observe \/ UNCHANGED vars
  BY <1>1, <1>6 DEF Observe, vars, restartVars
<1>7. CASE Proceed
  <2>1. ASSUME Restart!List \/ Restart!Finish \/ \E a \in rpolling : Restart!Poll(a)
        PROVE  UNCHANGED <<started, deployment>>
    BY <2>1 DEF Restart!List, Restart!Finish, Restart!Poll, Restart!cf
  <2>2. ASSUME NEW a \in rwaiting, Restart!Submit(a), NewDeployment(a) PROVE IdleMemory'
    BY <1>2, <1>a, <2>2 DEF Restart!Submit
  <2> QED
    BY <1>1, <1>7, <2>1, <2>2 DEF Proceed, SvmStep, RestartStep, restartVars
<1>8. CASE Complete
  <2>1. ASSUME NEW a \in App, Restart!Deployed(a), EndDeployment(a, fresh[a])
        PROVE  IdleMemory'
    BY <1>3, <1>a, <2>1 DEF Restart!Deployed, InMemory
  <2> QED
    BY <1>1, <1>8, <2>1 DEF Complete, SvmStep, RestartStep, restartVars
<1>9. CASE Fault
  <2>1. ASSUME \/ Restart!ListFails \/ Restart!Crash
               \/ \E a \in rwaiting : Restart!Refuse(a)
               \/ \E a \in rpolling : Restart!PollFails(a)
        PROVE  UNCHANGED <<started, deployment>>
    BY <2>1 DEF Restart!ListFails, Restart!Crash, Restart!Refuse, Restart!PollFails,
                Restart!cf
  <2>2. ASSUME NEW a \in rwaiting, Restart!LoseResponse(a), NewDeployment(a)
        PROVE  IdleMemory'
    BY <1>2, <1>a, <2>2 DEF Restart!LoseResponse
  <2>3. ASSUME NEW a \in App, Restart!Canceled(a), EndDeployment(a, held[a])
        PROVE  IdleMemory'
    BY <1>3, <1>a, <2>3 DEF Restart!Canceled, InMemory
  <2> QED
    BY <1>1, <1>9, <2>1, <2>2, <2>3 DEF Fault, SvmStep, RestartStep, restartVars
<1>10. CASE Users
  <2>1. ASSUME NEW a \in App, Restart!AppStarts(a), UNCHANGED appVars PROVE IdleMemory'
    <3>1. deployment' = deployment /\ started \subseteq started'
      BY <2>1 DEF Restart!AppStarts
    <3> QED
      BY <2>1, <3>1 DEF IdleMemory, InMemory, appVars
  <2>2. ASSUME NEW a \in App, Restart!AppStops(a), EndDeployment(a, Empty)
        PROVE  IdleMemory'
    BY <1>3, <1>b, <2>2 DEF Restart!AppStops
  <2> QED
    BY <1>4, <1>10, <2>1, <2>2 DEF Users, RestartStep
<1> QED
  BY <1>5, <1>6, <1>7, <1>8, <1>9, <1>10 DEF Next

-----------------------------------------------------------------------------
(* The inductive invariant                                                 *)

OnNewest(a) == \A i \in Instance : InMemory(a, i) \subseteq Newest(i)

\* During a restart nothing becomes newer.  What an app holds is the newest, or the
\* app is still to be restarted, or its deployment did not come through.
Restarting ==
    late = 0 /\ step \in {1, 4} =>
        /\ \A a \in App, i \in Instance : fresh[a][i] \subseteq Newest(i)
        /\ rphase = "restarting" /\ ~rrejected =>
             \A a \in App \ Skipped :
                 \/ OnNewest(a)
                 \/ a \in rwaiting
                 \/ a \in rpolling /\ deployment[a] \in {"ACTIVE", "CANCELED"}
        /\ launched /\ rphase = "idle" /\ routcome = "ok" =>
             \A a \in App \ Skipped : OnNewest(a)

\* In step 3 no instance gets more than two bindings, so that none is pruned.
Doubling ==
    late = 0 /\ step = 3 =>
        /\ \A i \in Usable : SvmP!Cardinality(SvmP!Live(i) \cup SvmP!Creating(i)) <= 2
        /\ launched => SvmP!NoSurplus(target)

\* The restarted apps hold nothing that was withdrawn.
ValidHeld ==
    late = 0 => \A a \in App \ Skipped, i \in Instance : InMemory(a, i) \subseteq Valid(i)

Choreography == Restarting /\ FleetOnNewest /\ Doubling /\ ValidHeld /\ CountsPerStep

RotationInv == Typed /\ SvmP!RunInv /\ IdleMemory /\ Turns /\ Choreography

-----------------------------------------------------------------------------
(* Steps that leave the bindings alone                                     *)

Agree == \A i : /\ SvmP!Live(i) = Valid(i)
                /\ SvmP!MostRecent(SvmP!Live(i)) = Newest(i)
                /\ Newest(i) \subseteq Valid(i)

LEMMA SameBindings == Agree
<1>1. \A i : SvmP!Live(i) = Valid(i)
  BY SameListing DEF SvmP!Live, Valid
<1>2. \A i : SvmP!MostRecent(SvmP!Live(i)) = Newest(i)
  BY <1>1, SameListing DEF Newest
<1>3. \A i : Newest(i) \subseteq Valid(i)
  BY DEF Newest, Svm!MostRecent
<1> QED
  BY <1>1, <1>2, <1>3 DEF Agree

LEMMA SameBindingsNext == Agree'
  BY SameBindings, PTL

LEMMA SameValid ==
    ASSUME UNCHANGED <<lastOp, owner, updatedAt>>
    PROVE  \A i : Valid(i)' = Valid(i) /\ Newest(i)' = Newest(i)
<1>1. \A i : Valid(i)' = Valid(i)
  BY DEF Valid, Svm!Succeeded, Svm!Listed
<1>2. \A i : Newest(i)' = Newest(i)
  BY <1>1 DEF Newest, Svm!MostRecent
<1> QED
  BY <1>1, <1>2

LEMMA QuietMemory ==
    ASSUME RotationInv, [Next]_vars, UNCHANGED svmVars
    PROVE  /\ \A a \in App : OnNewest(a) => OnNewest(a)'
           /\ late = 0 => \A a \in App \ Skipped, i \in Instance :
                             InMemory(a, i)' \subseteq Valid(i)'
           /\ late = 0 /\ step \in {1, 4} =>
                 \A a \in App, i \in Instance : fresh'[a][i] \subseteq Newest(i)'
<1>1. held \in Memory /\ fresh \in Memory /\ RestartP!TypeOK
  BY SameTypes DEF RotationInv, Typed, TypeOK, Memory
<1>2. \A a \in App, i \in Instance :
         /\ InMemory(a, i)' \subseteq InMemory(a, i) \cup Newest(i)
         /\ fresh'[a][i] \subseteq fresh[a][i] \cup Newest(i)
  BY <1>1, OnlyNewestLoaded
<1>3. \A i : /\ Valid(i)' = Valid(i)
             /\ Newest(i)' = Newest(i)
             /\ Newest(i) \subseteq Valid(i)
  BY SameValid, SameBindings DEF Agree, svmVars
<1>4. \A a \in App : OnNewest(a) => OnNewest(a)'
  BY <1>2, <1>3 DEF OnNewest
<1>5. late = 0 => \A a \in App \ Skipped, i \in Instance :
                     InMemory(a, i)' \subseteq Valid(i)'
  BY <1>2, <1>3 DEF RotationInv, Choreography, ValidHeld
<1>6. late = 0 /\ step \in {1, 4} =>
         \A a \in App, i \in Instance : fresh'[a][i] \subseteq Newest(i)'
  BY <1>2, <1>3 DEF RotationInv, Choreography, Restarting
<1> QED
  BY <1>4, <1>5, <1>6

\* Without late faults the bindings change only while a make-bindings command runs,
\* and deployments only while a restart command runs.
LEMMA NoMovesAtRest ==
    ASSUME RotationInv, late = 0
    PROVE  /\ SvmMoves => phase # "idle" /\ launched /\ step \in {2, 3, 5}
           /\ RestartMoves => rphase # "idle" /\ launched /\ step \in {1, 4}
<1>1. SvmMoves => phase # "idle"
  BY SvmAssumed, SvmP!NothingAtRest DEF SvmMoves, RotationInv
<1>2. RestartMoves => rphase # "idle"
  BY RestartAssumed, RestartP!NothingAtRest DEF RestartMoves, RotationInv, Typed
<1> QED
  BY <1>1, <1>2 DEF RotationInv, Turns

LEMMA CommandsNext ==
    ASSUME RotationInv, [Next]_vars
    PROVE  SvmP!RunInv' /\ (late' = 0 => late = 0)
<1>a. SvmP!RunInv /\ RestartP!IInv /\ RestartP!TypeOK /\ SvmP!TypeOK
  BY SameTypes DEF RotationInv, Typed, TypeOK
<1>b. Typed'
  BY TypedNext DEF RotationInv
<1>c. refusals' \in 0..MaxRefusals /\ late' \in 0..MaxLate
  BY <1>b DEF Typed, TypeOK, Svm!TypeOK
<1>1. CASE SvmP!Next /\ UNCHANGED restartVars
  <2>1. SvmP!RunInv'
    BY <1>a, <1>1, SvmAssumed, SvmP!RunInvNext
  <2>2. late' = 0 => late = 0
    BY <1>a, <1>1, SvmAssumed, SvmP!LateGrows
  <2> QED
    BY <2>1, <2>2
<1>2. CASE RestartP!Next /\ UNCHANGED svmVars
  <2>1. late' = 0 => late = 0
    BY <1>a, <1>2, RestartAssumed, RestartP!LateGrows
  <2>2. SvmP!RunInv'
    BY <1>a, <1>c, <1>2, <2>1, SvmAssumed, SvmP!RunInvBeside
       DEF svmVars, SvmP!svm, SvmP!run
  <2> QED
    BY <2>1, <2>2
<1>3. CASE UNCHANGED <<svmVars, restartVars, refusals, late>>
  <2>1. SvmP!RunInv'
    BY <1>a, <1>c, <1>3, SvmAssumed, SvmP!RunInvBeside
       DEF svmVars, SvmP!svm, SvmP!run
  <2> QED
    BY <1>3, <2>1
<1> QED
  BY <1>1, <1>2, <1>3, StepKinds

-----------------------------------------------------------------------------
(* The steps of the choreography                                           *)

\* A make-bindings command keeps what it counts on: the newest bindings when it
\* prunes, all of them when it adds the second one.
LEMMA SvmMovesKeep ==
    ASSUME RotationInv, late = 0, late' = 0, SvmMoves,
           UNCHANGED <<restartVars, appVars, operatorVars>>
    PROVE  Choreography'
<1>a. /\ launched /\ step \in {2, 3, 5}
      /\ target = IF step = 3 THEN 2 ELSE 1
      /\ target' = target
      /\ step' = step /\ launched' = launched
      /\ held' = held /\ fresh' = fresh
  BY NoMovesAtRest, SvmMovesRun DEF RotationInv, Turns, operatorVars, appVars
<1>b. SvmP!PoolInv /\ SvmP!BoundedInv
  BY DEF RotationInv, SvmP!RunInv
<1>c. SvmP!Next
  BY DEF SvmP!Next, SvmMoves
<1>d. \A i : /\ SvmP!Live(i) = Valid(i)
             /\ SvmP!MostRecent(SvmP!Live(i)) = Newest(i)
             /\ Newest(i) \subseteq Valid(i)
  BY SameBindings DEF Agree
<1>e. \A i : /\ SvmP!Live(i)' = Valid(i)'
             /\ SvmP!MostRecent(SvmP!Live(i))' = Newest(i)'
             /\ Newest(i)' \subseteq Valid(i)'
  BY SameBindingsNext DEF Agree
<1>1. ~(step' \in {1, 4}) /\ step' # 6
  BY <1>a
<1>2. CASE step = 3
  <2>1. /\ \A i \in Usable : SvmP!Cardinality(SvmP!Live(i) \cup SvmP!Creating(i)) <= 2
        /\ SvmP!NoSurplus(target)
    BY <1>a, <1>2 DEF RotationInv, Choreography, Doubling
  <2>2. SvmP!NoSurplus(target)'
    BY <1>b, <2>1, SvmAssumed, SvmP!NoSurplusNext DEF SvmMoves
  <2>3. \A i \in Usable :
          SvmP!Cardinality(SvmP!Live(i)' \cup SvmP!Creating(i)') <= 2
    BY <1>a, <1>2, <2>2 DEF SvmP!NoSurplus
  <2>4. \A i \in Instance : SvmP!Live(i) \subseteq SvmP!Live(i)'
    BY <1>b, <1>c, <2>1, SvmAssumed, SvmP!LiveKept DEF SvmP!NoSurplus
  <2>5. ValidHeld'
    BY <1>a, <1>d, <1>e, <2>4 DEF RotationInv, Choreography, ValidHeld, InMemory
  <2>6. Doubling'
    BY <1>a, <2>2, <2>3 DEF Doubling
  <2> QED
    BY <1>1, <1>2, <1>a, <2>5, <2>6 DEF Choreography, Restarting, FleetOnNewest, CountsPerStep
<1>3. CASE step \in {2, 5}
  <2>1. target = 1
    BY <1>a, <1>3
  <2>2. \A i \in Instance : Newest(i) \subseteq Newest(i)'
    BY <1>b, <1>c, <1>d, <1>e, <2>1, SvmAssumed, SvmP!NewestKept
  <2>3. \A a \in App \ Skipped, i \in Instance : InMemory(a, i) \subseteq Newest(i)
    BY <1>3 DEF RotationInv, Choreography, FleetOnNewest, Newest
  <2>4. \A a \in App \ Skipped, i \in Instance : InMemory(a, i)' \subseteq Newest(i)'
    BY <1>a, <2>2, <2>3 DEF InMemory
  <2>5. FleetOnNewest'
    BY <2>4 DEF FleetOnNewest, Newest
  <2>6. ValidHeld'
    BY <1>e, <2>4 DEF ValidHeld
  <2> QED
    BY <1>1, <1>3, <1>a, <2>5, <2>6 DEF Choreography, Restarting, Doubling, CountsPerStep
<1> QED
  BY <1>a, <1>2, <1>3

\* Whatever leaves the bindings and the operator alone disturbs only what is said of
\* a restart.
LEMMA QuietKeeps ==
    ASSUME RotationInv, [Next]_vars, late = 0, UNCHANGED <<svmVars, operatorVars>>,
           step \in {1, 4} => Restarting'
    PROVE  Choreography'
<1>a. step' = step /\ launched' = launched
  BY DEF operatorVars
<1>b. \A i : Valid(i)' = Valid(i) /\ Newest(i)' = Newest(i)
  BY SameValid DEF svmVars
<1>1. ValidHeld'
  BY QuietMemory DEF ValidHeld
<1>2. FleetOnNewest'
  <2>1. step \in {2, 5} => \A a \in App \ Skipped : OnNewest(a)
    BY DEF RotationInv, Choreography, FleetOnNewest, OnNewest, Newest
  <2>2. step \in {2, 5} => \A a \in App \ Skipped : OnNewest(a)'
    BY <2>1, QuietMemory
  <2> QED
    BY <1>a, <2>2 DEF FleetOnNewest, OnNewest, Newest
<1>3. Doubling'
  <2>1. UNCHANGED <<lastOp, owner, seen, waiting, phase, outcome, target>>
    BY DEF svmVars
  <2> QED
    BY <1>a, <2>1 DEF RotationInv, Choreography, Doubling, SvmP!NoSurplus, SvmP!Live,
       SvmP!Creating, SvmP!Succeeded, SvmP!Listed
<1>4. CountsPerStep'
  BY <1>a, <1>b DEF RotationInv, Choreography, CountsPerStep
<1>5. Restarting'
  BY <1>a DEF Restarting
<1> QED
  BY <1>1, <1>2, <1>3, <1>4, <1>5 DEF Choreography

LEMMA RestartKeeps ==
    ASSUME RotationInv, Next, late = 0, late' = 0, UNCHANGED <<svmVars, operatorVars>>,
           step \in {1, 4}
    PROVE  Restarting'
<1> DEFINE Pending(a) == \/ a \in rwaiting
                         \/ a \in rpolling /\ deployment[a] \in {"ACTIVE", "CANCELED"}
           Ended == rphase = "idle" /\ routcome = "ok"
<1>a. /\ step' = step /\ launched' = launched
      /\ held \in Memory /\ fresh \in Memory
      /\ rwaiting \subseteq App /\ rpolling \subseteq App /\ started \subseteq App
      /\ deployment \in [App -> {"none", "ACTIVE", "DEPLOYED", "CANCELED"}]
      /\ rrejected \in BOOLEAN
  BY SameTypes DEF operatorVars, RotationInv, Typed, TypeOK, Memory, RestartP!IInv, RestartP!TypeOK
<1>b. /\ \A a \in App : OnNewest(a) => OnNewest(a)'
      /\ \A a \in App, i \in Instance : fresh'[a][i] \subseteq Newest(i)'
  BY QuietMemory
<1>c. /\ rphase = "restarting" /\ ~rrejected => \A a \in App \ Skipped : OnNewest(a) \/ Pending(a)
      /\ launched /\ Ended => \A a \in App \ Skipped : OnNewest(a)
      /\ \A a \in App, i \in Instance : fresh[a][i] \subseteq Newest(i)
  BY DEF RotationInv, Choreography, Restarting
<1>d. ~launched => rphase = "idle"
  BY DEF RotationInv, Turns
<1> DEFINE Goal ==
      /\ rphase' = "restarting" /\ ~rrejected'
           => \A a \in App \ Skipped : OnNewest(a)' \/ Pending(a)'
      /\ launched /\ Ended' => \A a \in App \ Skipped : OnNewest(a)'
<1> SUFFICES Goal
  BY <1>a, <1>b DEF Restarting
<1>1. ASSUME rphase' = rphase, routcome' = routcome, ~rrejected' => ~rrejected,
             \A a \in App : Pending(a) => OnNewest(a)' \/ Pending(a)' \/ rrejected'
      PROVE  Goal
  BY <1>1, <1>b, <1>c
<1>2. ASSUME rphase' = "idle", routcome' = "failed" PROVE Goal
  BY <1>2
<1> HIDE DEF Goal
<1>3. CASE Restart!List
  <2>1. \A a \in App \ started : OnNewest(a)
    BY DEF RotationInv, IdleMemory, OnNewest
  <2>2. rwaiting' = started \ Skipped
    BY <1>3 DEF Restart!List
  <2>3. rphase' = "restarting" \/ (rphase' = "idle" /\ started \ Skipped = {})
    BY <1>3 DEF Restart!List
  <2> QED
    BY <1>b, <2>1, <2>2, <2>3 DEF Goal
<1>4. ASSUME NEW c \in App,
             deployment' = [deployment EXCEPT ![c] = "ACTIVE"],
             rwaiting' = rwaiting \ {c}, rpolling' = rpolling \cup {c},
             UNCHANGED <<rphase, rrejected, routcome>>
      PROVE  Goal
  <2>1. \A a \in App : Pending(a) => Pending(a)'
    BY <1>a, <1>4
  <2> QED
    BY <1>1, <1>4, <2>1
<1>5. ASSUME NEW c \in App, Restart!Poll(c) PROVE Goal
  <2>1. /\ UNCHANGED <<rphase, routcome, deployment, rwaiting>>
        /\ rpolling' = rpolling \ {c}
        /\ rrejected' = (rrejected \/ deployment[c] # "DEPLOYED")
        /\ deployment[c] # "ACTIVE"
    BY <1>5 DEF Restart!Poll, Restart!cf
  <2>2. deployment[c] = "CANCELED" => rrejected'
    BY <2>1
  <2>3. ~rrejected' => ~rrejected
    BY <2>1
  <2>4. \A a \in App : Pending(a) => Pending(a)' \/ rrejected'
    BY <2>1, <2>2
  <2> QED
    BY <1>1, <2>1, <2>3, <2>4
<1>6. CASE Restart!Finish
  <2>1. /\ rphase = "restarting" /\ rwaiting = {} /\ rpolling = {}
        /\ rphase' = "idle" /\ (routcome' = "ok" => ~rrejected)
    BY <1>6 DEF Restart!Finish
  <2> QED
    BY <1>b, <1>c, <2>1 DEF Goal
<1>7. ASSUME NEW c \in App, Restart!Deployed(c), EndDeployment(c, fresh[c]) PROVE Goal
  <2>1. \A i \in Instance : InMemory(c, i)' = fresh[c][i]
    BY <1>a, <1>7, EndDeploymentMemory
  <2>2. OnNewest(c)'
    BY <1>c, <2>1, SameValid DEF OnNewest, svmVars
  <2>3. /\ UNCHANGED <<rphase, rrejected, routcome, rwaiting, rpolling>>
        /\ \A a \in App : a # c => deployment'[a] = deployment[a]
    BY <1>a, <1>7 DEF Restart!Deployed
  <2>4. \A a \in App : Pending(a) => OnNewest(a)' \/ Pending(a)'
    BY <2>2, <2>3
  <2> QED
    BY <1>1, <2>3, <2>4
<1>8. ASSUME NEW c \in App, Restart!Canceled(c) PROVE Goal
  <2>1. /\ UNCHANGED <<rphase, rrejected, routcome, rwaiting, rpolling>>
        /\ \A a \in App : deployment'[a] = IF a = c THEN "CANCELED" ELSE deployment[a]
    BY <1>a, <1>8 DEF Restart!Canceled
  <2>2. \A a \in App : Pending(a) => Pending(a)'
    BY <2>1
  <2> QED
    BY <1>1, <2>1, <2>2
<1>9. ASSUME NEW c \in rwaiting, Restart!Refuse(c) PROVE Goal
  <2>1. UNCHANGED <<rphase, routcome>> /\ rrejected'
    BY <1>9 DEF Restart!Refuse
  <2> QED
    BY <1>1, <2>1
<1>10. ASSUME UNCHANGED <<rphase, rwaiting, rpolling, rrejected, routcome, deployment>>
       PROVE  Goal
  <2>1. \A a \in App : Pending(a) => Pending(a)'
    BY <1>10
  <2> QED
    BY <1>1, <1>10, <2>1
<1>11. CASE Proceed
  <2>1. ASSUME NEW c \in rwaiting, Restart!Submit(c) PROVE Goal
    BY <1>4, <1>a, <2>1 DEF Restart!Submit
  <2> QED
    BY <1>3, <1>5, <1>6, <1>10, <1>11, <1>a, <2>1
       DEF Proceed, SvmStep, RestartStep, restartVars
<1>12. CASE Complete
  BY <1>7, <1>10, <1>12 DEF Complete, SvmStep, RestartStep, restartVars
<1>13. CASE Fault
  <2>1. /\ ~Restart!Crash
        /\ \A a : ~Restart!LoseResponse(a)
        /\ \A a : ~Restart!PollFails(a)
    BY DEF Restart!Crash, Restart!LoseResponse, Restart!PollFails
  <2>2. Restart!ListFails => Goal
    BY <1>2 DEF Restart!ListFails
  <2> QED
    BY <1>8, <1>9, <1>10, <1>13, <2>1, <2>2 DEF Fault, SvmStep, RestartStep, restartVars
<1>14. CASE Users
  <2>1. \A a : Restart!AppStarts(a) \/ Restart!AppStops(a) => Goal
    BY <1>10 DEF Restart!AppStarts, Restart!AppStops
  <2> QED
    BY <1>10, <1>14, <2>1 DEF Users, Load, RestartStep, restartVars
<1>15. CASE Launch \/ Observe
  BY <1>15, <1>a DEF Launch, Observe
<1> QED
  BY <1>11, <1>12, <1>13, <1>14, <1>15 DEF Next

LEMMA LaunchKeeps ==
    ASSUME RotationInv, Launch, late = 0
    PROVE  Choreography'
<1>a. /\ UNCHANGED <<lastOp, owner, updatedAt, step, held, fresh>> /\ launched' /\ late' = 0
      /\ deployment' = deployment
  BY DEF Launch, Svm!Start, Svm!svm, Restart!Start, Restart!cf, svmVars, restartVars, appVars
<1>b. \A i : Valid(i)' = Valid(i) /\ Newest(i)' = Newest(i)
  BY <1>a, SameValid
<1>1. Restarting'
  <2>1. ASSUME step \in {1, 4} PROVE rphase' = "listing"
    BY <2>1 DEF Launch, Restart!Start
  <2>2. \A a \in App, i \in Instance :
          step \in {1, 4} => fresh'[a][i] \subseteq Newest(i)'
    BY <1>a, <1>b DEF RotationInv, Choreography, Restarting
  <2> QED
    BY <1>a, <2>1, <2>2 DEF Restarting
<1>2. FleetOnNewest' /\ ValidHeld' /\ CountsPerStep'
  BY <1>a, <1>b DEF RotationInv, Choreography, FleetOnNewest, ValidHeld, CountsPerStep,
                    InMemory, Newest
<1>3. Doubling'
  <2> SUFFICES ASSUME step = 3 PROVE Doubling'
    BY <1>a DEF Doubling
  <2>1. \A i \in Usable : SvmP!Cardinality(SvmP!Live(i) \cup SvmP!Creating(i)) <= 2
    BY DEF RotationInv, Choreography, Doubling
  <2>2. \A i : SvmP!Live(i)' = SvmP!Live(i) /\ SvmP!Creating(i)' = SvmP!Creating(i)
    BY <1>a DEF SvmP!Live, SvmP!Creating, SvmP!Succeeded, SvmP!Listed
  <2>3. \A i \in Usable : SvmP!Cardinality(SvmP!Live(i)' \cup SvmP!Creating(i)') <= 2
    BY <2>1, <2>2
  <2>4. /\ waiting' = waiting /\ target' = 2
        /\ phase = "idle" /\ phase' = "reading" /\ outcome' = "none"
    BY DEF Launch, Svm!Start
  <2>5. waiting' = {}
    BY <2>4 DEF RotationInv, SvmP!RunInv, SvmP!PoolInv, SvmP!RestInv
  <2>6. SvmP!NoSurplus(target)'
    BY <2>3, <2>4, <2>5 DEF SvmP!NoSurplus
  <2> QED
    BY <2>3, <2>6 DEF Doubling
<1> QED
  BY <1>1, <1>2, <1>3 DEF Choreography

\* A successful run has put every usable instance at the target count, given that all
\* of them are in its scope and, when it is to add the second binding, none had more.
LEMMA SvmSucceeded ==
    ASSUME RotationInv, late = 0, Observe, step \in {2, 3, 5}, outcome = "ok",
           \A sc \in Scopes : Usable \subseteq sc,
           NEW i \in Usable
    PROVE  /\ SvmP!Cardinality(SvmP!Live(i)) = IF step = 3 THEN 2 ELSE 1
           /\ SvmP!Creating(i) = {}
<1>a. /\ launched /\ phase = "idle" /\ i \in scope \cap Usable
      /\ target = IF step = 3 THEN 2 ELSE 1
  BY DEF Observe, RotationInv, Turns, Typed, TypeOK, Svm!TypeOK
<1>1. SvmP!Cardinality(SvmP!Live(i)) =
        IF SvmP!Cardinality(SvmP!Succeeded(seen, i)) > target THEN 1 ELSE target
  BY <1>a DEF RotationInv, SvmP!RunInv, SvmP!ConvergeInv, SvmP!Converges, SvmP!Live
<1>2. step = 3 => SvmP!Cardinality(SvmP!Succeeded(seen, i)) <= target
  BY <1>a DEF RotationInv, Choreography, Doubling, SvmP!NoSurplus
<1>3. SvmP!Cardinality(SvmP!Succeeded(seen, i)) \in Nat
  BY SvmAssumed, SvmP!SucceededFinite
<1>4. \A b \in SvmP!BindingId : lastOp[b] # "creating"
  BY <1>a DEF RotationInv, SvmP!RunInv, SvmP!PoolInv, SvmP!RestInv, SvmP!InProgress
<1>5. SvmP!Creating(i) = {}
  BY <1>4 DEF SvmP!Creating
<1>6. SvmP!Cardinality(SvmP!Live(i)) = target
  <2>1. CASE step = 3
    BY <1>1, <1>2, <1>3, <1>a, <2>1
  <2>2. CASE step # 3
    BY <1>1, <1>a, <2>2
  <2> QED
    BY <2>1, <2>2
<1> QED
  BY <1>5, <1>6, <1>a

LEMMA ObserveKeeps ==
    ASSUME RotationInv, Observe, late = 0, \A sc \in Scopes : Usable \subseteq sc
    PROVE  Choreography'
<1>a. /\ UNCHANGED <<lastOp, owner, updatedAt, held, fresh, rphase>> /\ ~launched' /\ launched
      /\ late' = 0 /\ phase = "idle" /\ rphase = "idle"
      /\ step' = IF (IF step \in {1, 4} THEN routcome ELSE outcome) = "ok"
                 THEN step + 1 ELSE step
      /\ step \in 1..5
  BY DEF Observe, svmVars, restartVars, appVars, RotationInv, Typed, OperatorTyped
<1>b. \A i : Valid(i)' = Valid(i) /\ Newest(i)' = Newest(i)
  BY <1>a, SameValid
<1>c. \A i : SvmP!Live(i)' = SvmP!Live(i) /\ SvmP!Creating(i)' = SvmP!Creating(i)
  BY <1>a DEF SvmP!Live, SvmP!Creating, SvmP!Succeeded, SvmP!Listed
<1>d. step' # step => /\ step' = step + 1
                      /\ step \in {1, 4} => routcome = "ok"
                      /\ step \in {2, 3, 5} => outcome = "ok"
  BY <1>a
<1>e. \A i : SvmP!Live(i) = Valid(i)
  BY SameBindings DEF Agree
<1>1. Restarting'
  <2>1. \A a \in App : deployment[a] # "ACTIVE"
    BY <1>a DEF RotationInv, Typed, RestartP!IInv, RestartP!NoneOutsideRun, RestartP!ActiveIsPolled
  <2>2. \A a \in App, i \in Instance : fresh'[a][i] \subseteq Newest(i)'
    BY <1>a, <2>1 DEF RotationInv, IdleMemory, Empty
  <2> QED
    BY <1>a, <2>2 DEF Restarting
<1>2. ValidHeld'
  BY <1>a, <1>b DEF RotationInv, Choreography, ValidHeld, InMemory
<1>3. FleetOnNewest'
  <2>1. CASE step' = step
    BY <1>a, <1>b, <2>1 DEF RotationInv, Choreography, FleetOnNewest, InMemory, Newest
  <2>2. CASE step' # step
    <3> SUFFICES ASSUME step' \in {2, 5} PROVE FleetOnNewest'
      BY DEF FleetOnNewest
    <3>1. step \in {1, 4}
      BY <1>a, <1>d, <2>2
    <3>2. routcome = "ok"
      BY <1>d, <2>2, <3>1
    <3>3. \A a \in App \ Skipped : OnNewest(a)
      BY <1>a, <3>1, <3>2 DEF RotationInv, Choreography, Restarting
    <3> QED
      BY <1>a, <1>b, <3>3 DEF FleetOnNewest, OnNewest, InMemory, Newest
  <2> QED
    BY <2>1, <2>2
<1>4. Doubling'
  <2>1. CASE step' = step
    BY <1>a, <1>c, <2>1 DEF RotationInv, Choreography, Doubling
  <2>2. CASE step' # step
    <3> SUFFICES ASSUME step' = 3, NEW i \in Usable
                 PROVE  SvmP!Cardinality(SvmP!Live(i)' \cup SvmP!Creating(i)') <= 2
      BY <1>a DEF Doubling
    <3>1. step = 2 /\ outcome = "ok"
      BY <1>a, <1>d, <2>2
    <3>2. SvmP!Cardinality(SvmP!Live(i)) = 1 /\ SvmP!Creating(i) = {}
      BY <1>a, <3>1, SvmSucceeded
    <3>3. SvmP!Live(i)' \cup SvmP!Creating(i)' = SvmP!Live(i)
      BY <1>c, <3>2
    <3>4. SvmP!Cardinality(SvmP!Live(i)' \cup SvmP!Creating(i)') = 1
      BY <3>2, <3>3
    <3> QED
      BY <3>4
  <2> QED
    BY <2>1, <2>2
<1>5. CountsPerStep'
  <2>1. CASE step' = step
    BY <1>a, <1>b, <2>1 DEF RotationInv, Choreography, CountsPerStep
  <2>2. CASE step' # step
    <3>1. ASSUME NEW i \in Usable, step' = 4 PROVE Cardinality(Valid(i)') = 2
      <4>1. step = 3 /\ outcome = "ok"
        BY <1>a, <1>d, <2>2, <3>1
      <4>2. SvmP!Cardinality(SvmP!Live(i)) = 2
        BY <1>a, <4>1, SvmSucceeded
      <4> QED
        BY <1>b, <1>e, <4>2, SameCounting
    <3>2. ASSUME NEW i \in Usable, step' = 6 PROVE Cardinality(Valid(i)') = 1
      <4>1. step = 5 /\ outcome = "ok"
        BY <1>a, <1>d, <2>2, <3>2
      <4>2. SvmP!Cardinality(SvmP!Live(i)) = 1
        BY <1>a, <4>1, SvmSucceeded
      <4> QED
        BY <1>b, <1>e, <4>2, SameCounting
    <3> QED
      BY <3>1, <3>2 DEF CountsPerStep
  <2> QED
    BY <2>1, <2>2
<1> QED
  BY <1>1, <1>2, <1>3, <1>4, <1>5 DEF Choreography

-----------------------------------------------------------------------------
(* The choreography                                                        *)

LEMMA RotationInit ==
    ASSUME InitialState \cap Svm!InProgress = {}
    PROVE  Init => RotationInv
<1> SUFFICES ASSUME Init PROVE RotationInv
  OBVIOUS
<1>a. /\ step = 1 /\ launched = FALSE /\ started \subseteq App
      /\ \A a \in App : fresh[a] = Empty
      /\ \A a \in App, i \in Instance :
           held[a][i] \subseteq IF a \in started THEN Valid(i) ELSE {}
  <2>1. Typed
    BY TypedInit
  <2> QED
    BY <2>1 DEF Init, Typed, TypeOK, Restart!TypeOK
<1>b. SvmP!Init /\ RestartP!Init
  BY SameSvmSteps, SameRestartSteps DEF Init
<1>1. Typed
  BY TypedInit
<1>2. SvmP!RunInv
  BY <1>b, SvmAssumed, SvmP!RunInvInit DEF SvmP!InProgress, Svm!InProgress
<1>3. \A a \in App, i \in Instance :
        InMemory(a, i) \subseteq IF a \in started THEN Valid(i) ELSE {}
  BY <1>a DEF InMemory, Empty
<1>4. IdleMemory
  BY <1>a, <1>3 DEF IdleMemory
<1>5. Turns
  BY <1>a, <1>b DEF Turns, SvmP!Init, RestartP!Init
<1>6. Restarting
  <2>1. rphase = "idle"
    BY <1>b DEF RestartP!Init
  <2>2. \A a \in App, i \in Instance : fresh[a][i] \subseteq Newest(i)
    BY <1>a DEF Empty
  <2> QED
    BY <1>a, <2>1, <2>2 DEF Restarting
<1>7. FleetOnNewest /\ Doubling /\ CountsPerStep
  BY <1>a DEF FleetOnNewest, Doubling, CountsPerStep
<1>8. ValidHeld
  BY <1>3 DEF ValidHeld
<1> QED
  BY <1>1, <1>2, <1>4, <1>5, <1>6, <1>7, <1>8 DEF RotationInv, Choreography

LEMMA RotationNext ==
    ASSUME \A sc \in Scopes : Usable \subseteq sc
    PROVE  RotationInv /\ [Next]_vars => RotationInv'
<1> SUFFICES ASSUME RotationInv, [Next]_vars PROVE RotationInv'
  OBVIOUS
<1>a. Typed /\ held \in Memory /\ fresh \in Memory /\ RestartP!TypeOK /\ OperatorTyped
  BY SameTypes DEF RotationInv, Typed, TypeOK, Memory
<1>1. Typed'
  BY <1>a, TypedNext
<1>2. SvmP!RunInv' /\ (late' = 0 => late = 0)
  BY CommandsNext
<1>3. IdleMemory'
  BY <1>a, IdleMemoryNext DEF RotationInv
<1>4. Turns'
  BY <1>a, TurnsNext DEF RotationInv
<1>5. Choreography'
  <2>1. CASE late' # 0
    BY <2>1 DEF Choreography, Restarting, FleetOnNewest, Doubling, ValidHeld, CountsPerStep
  <2>2. CASE late' = 0
    <3>a. late = 0
      BY <1>2, <2>2
    <3>1. CASE Launch
      BY <3>a, <3>1, LaunchKeeps
    <3>2. CASE Observe
      BY <3>a, <3>2, ObserveKeeps
    <3>3. CASE SvmMoves /\ UNCHANGED <<restartVars, appVars, operatorVars>>
      BY <2>2, <3>a, <3>3, SvmMovesKeep
    <3>4. ASSUME Next, UNCHANGED <<svmVars, operatorVars>> PROVE Choreography'
      <4>1. step \in {1, 4} => Restarting'
        BY <2>2, <3>a, <3>4, RestartKeeps
      <4> QED
        BY <3>a, <3>4, <4>1, QuietKeeps
    <3>5. CASE UNCHANGED vars
      <4>1. step \in {1, 4} => Restarting'
        <5>1. UNCHANGED <<lastOp, owner, updatedAt, step, launched, held, fresh, late,
                          deployment, rphase, rwaiting, rpolling, rrejected, routcome>>
          BY <3>5 DEF vars, svmVars, operatorVars, appVars, restartVars
        <5>2. \A i : Newest(i)' = Newest(i)
          BY <5>1, SameValid
        <5> QED
          BY <5>1, <5>2 DEF RotationInv, Choreography, Restarting, OnNewest, InMemory
      <4> QED
        BY <3>a, <3>5, <4>1, QuietKeeps DEF vars
    <3> QED
      BY <3>1, <3>2, <3>3, <3>4, <3>5, StepTurns
  <2> QED
    BY <2>1, <2>2
<1> QED
  BY <1>1, <1>2, <1>3, <1>4, <1>5 DEF RotationInv

\* Zero downtime, for any number of instances, bindings, apps, refusals, cancellations
\* and repeated steps: as long as no late fault happens, no app holds credentials that
\* were withdrawn.  Nothing is in progress when the rotation begins, every command is
\* for at least the usable instances, and no app is left out of the restarts.
THEOREM ZeroDowntime ==
    ASSUME InitialState \cap Svm!InProgress = {},
           \A sc \in Scopes : Usable \subseteq sc,
           Skipped = {}
    PROVE  Spec => []CredentialsValid
<1>1. RotationInv => CredentialsValid
  BY DEF RotationInv, Choreography, ValidHeld, CredentialsValid
<1> QED
  BY <1>1, RotationInit, RotationNext, PTL DEF Spec

\* Whenever a pruning is about to begin or under way, the apps that were restarted are
\* on the most recent binding of every instance, also in a landscape where other apps
\* are skipped.
THEOREM PrunesBehindTheFleet ==
    ASSUME InitialState \cap Svm!InProgress = {},
           \A sc \in Scopes : Usable \subseteq sc
    PROVE  Spec => []FleetOnNewest
<1>1. RotationInv => FleetOnNewest
  BY DEF RotationInv, Choreography
<1> QED
  BY <1>1, RotationInit, RotationNext, PTL DEF Spec

\* The second binding is there when step 3 is through, however often it was repeated,
\* and one binding is left at the end.
THEOREM StepsCount ==
    ASSUME InitialState \cap Svm!InProgress = {},
           \A sc \in Scopes : Usable \subseteq sc
    PROVE  Spec => []CountsPerStep
<1>1. RotationInv => CountsPerStep
  BY DEF RotationInv, Choreography
<1> QED
  BY <1>1, RotationInit, RotationNext, PTL DEF Spec
=============================================================================
