------------------------ MODULE RollingRestartProofs ------------------------
(***************************************************************************)
(* Proofs about RollingRestart, for any apps, any concurrency and any      *)
(* number of faults.                                                       *)
(***************************************************************************)
EXTENDS RollingRestart, TLAPS

-----------------------------------------------------------------------------
(* The inductive invariant                                                 *)

\* Between the listings there is nothing to wait for.
NoneOutsideRun == phase # "restarting" => waiting = {} /\ polling = {}

\* What is active is polled, unless a late fault happened.
ActiveIsPolled == late = 0 => \A a \in App : deployment[a] = "ACTIVE" => a \in polling

\* As long as nothing was rejected, an app of the run is still to be deployed,
\* is being polled or was deployed.
Accounted ==
    phase = "restarting" /\ ~rejected =>
        \A a \in apps : a \in waiting \/ a \in polling \/ deployment[a] = "DEPLOYED"

IInv == TypeOK /\ NoneOutsideRun /\ ActiveIsPolled /\ Accounted /\ OkMeansDeployed

-----------------------------------------------------------------------------
LEMMA InvInit == Init => IInv
<1> SUFFICES ASSUME Init PROVE IInv
  OBVIOUS
<1>1. TypeOK
  <2>1. 0 \in 0..MaxRefusals /\ 0 \in 0..MaxLate
    BY RestartBoundAssumption
  <2>2. deployment \in [App -> {"none", "ACTIVE", "DEPLOYED", "CANCELED"}]
    BY DEF Init
  <2> QED
    BY <2>1, <2>2 DEF Init, TypeOK
<1>2. ActiveIsPolled
  BY DEF Init, ActiveIsPolled
<1>3. NoneOutsideRun /\ Accounted /\ OkMeansDeployed
  BY DEF Init, NoneOutsideRun, Accounted, OkMeansDeployed
<1> QED
  BY <1>1, <1>2, <1>3 DEF IInv

LEMMA InvNext == IInv /\ [Next]_vars => IInv'
<1> SUFFICES ASSUME IInv, [Next]_vars PROVE IInv'
  OBVIOUS
<1> USE RestartBoundAssumption, AppAssumption
    DEF IInv, TypeOK, NoneOutsideRun, ActiveIsPolled, Accounted, OkMeansDeployed, cf, Ready
<1>1. CASE Start
  BY <1>1 DEF Start
<1>2. CASE List
  BY <1>2 DEF List
<1>3. ASSUME NEW a \in waiting, Submit(a) PROVE IInv'
  BY <1>3 DEF Submit
<1>4. ASSUME NEW a \in polling, Poll(a) PROVE IInv'
  BY <1>4 DEF Poll
<1>5. CASE Finish
  BY <1>5 DEF Finish
<1>6. ASSUME NEW a \in App, Deployed(a) PROVE IInv'
  BY <1>6 DEF Deployed
<1>7. CASE ListFails
  BY <1>7 DEF ListFails
<1>8. ASSUME NEW a \in waiting, LoseResponse(a) PROVE IInv'
  BY <1>8 DEF LoseResponse
<1>9. ASSUME NEW a \in waiting, Refuse(a) PROVE IInv'
  BY <1>9 DEF Refuse
<1>10. ASSUME NEW a \in polling, PollFails(a) PROVE IInv'
  BY <1>10 DEF PollFails
<1>11. CASE Crash
  BY <1>11 DEF Crash
<1>12. ASSUME NEW a \in App, Canceled(a) PROVE IInv'
  BY <1>12 DEF Canceled
<1>13. ASSUME NEW a \in App, AppStarts(a) \/ AppStops(a) PROVE IInv'
  BY <1>13 DEF AppStarts, AppStops
<1>14. CASE UNCHANGED vars
  BY <1>14 DEF vars
<1> QED
  BY <1>1, <1>2, <1>3, <1>4, <1>5, <1>6, <1>7, <1>8, <1>9, <1>10, <1>11, <1>12,
     <1>13, <1>14 DEF Next, Proceed, Complete, Fault, Users

LEMMA LateGrows == TypeOK /\ [Next]_vars /\ late' = 0 => late = 0
<1>1. TypeOK => late \in Nat
  BY RestartBoundAssumption DEF TypeOK
<1> QED
  BY <1>1 DEF Next, Start, Proceed, Complete, Fault, Users, List, ListFails, Submit,
              LoseResponse, Refuse, Poll, PollFails, Finish, Crash, Deployed, Canceled,
              AppStarts, AppStops, vars

\* Between two runs nothing is deployed before the next one starts.
LEMMA NothingAtRest ==
    ASSUME IInv, late = 0, phase = "idle", Proceed \/ Complete \/ Fault
    PROVE  FALSE
<1>1. waiting = {} /\ polling = {} /\ \A a \in App : deployment[a] # "ACTIVE"
  BY DEF IInv, NoneOutsideRun, ActiveIsPolled
<1> QED
  BY <1>1 DEF Proceed, Complete, Fault, List, ListFails, Finish, Crash, Deployed, Canceled

\* Something else takes a step, which may meet a fault of its own.
LEMMA InvBeside ==
    ASSUME IInv,
           UNCHANGED <<cf, phase, apps, waiting, polling, rejected, outcome>>,
           refusals' \in 0..MaxRefusals, late' \in 0..MaxLate, late' = 0 => late = 0
    PROVE  IInv'
<1>1. UNCHANGED <<started, deployment, phase, apps, waiting, polling, rejected, outcome>>
  BY DEF cf
<1> QED
  BY <1>1 DEF IInv, TypeOK, NoneOutsideRun, ActiveIsPolled, Accounted, OkMeansDeployed

LEMMA Invariant == Spec => []IInv
  BY InvInit, InvNext, PTL DEF Spec

\* Every state of a restart is of its type.
THEOREM RestartTypeCorrect == Spec => []TypeOK
<1>1. IInv => TypeOK
  BY DEF IInv
<1> QED
  BY <1>1, Invariant, PTL

\* A successful run has seen each of its apps deployed, for any number of apps,
\* refusals, late faults and crashes.
THEOREM SuccessIsComplete == Spec => []OkMeansDeployed
<1>1. IInv => OkMeansDeployed
  BY DEF IInv
<1> QED
  BY <1>1, Invariant, PTL

\* Without late faults no deployment is active between runs, although one of
\* them was rejected.
THEOREM NothingLeftActive == Spec => []NothingActiveAtRest
<1>1. IInv => NothingActiveAtRest
  BY DEF IInv, NoneOutsideRun, ActiveIsPolled, NothingActiveAtRest
<1> QED
  BY <1>1, Invariant, PTL
=============================================================================
