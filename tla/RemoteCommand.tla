--------------------------- MODULE RemoteCommand ---------------------------
(***************************************************************************)
(* One process of the tool runs one of the commands that change something  *)
(* in another system: src/src/cli.js selects it, and it is a command of    *)
(* the tenant registry (SubscriptionUpdate), of CAP multitenancy           *)
(* (TenantUpgrade) or of the service-manager (ServiceManagerDelete).  The  *)
(* first two send their requests through Request, which is also looked at  *)
(* by itself, with the constants of the code.                              *)
(***************************************************************************)
EXTENDS Integers, FiniteSets

CONSTANTS
    Subscription, Named, TenantOf, SourceOf, Stale, PageSize, RegConcurrency,
    MaxSubscriptions, RegMaxAttempts,
    MaxTenants, MaxInstances, CdsConcurrency, ChangeTimeout, CdsMaxAttempts,
    Instance, Binding, InstanceOf, TenantOfInstance, PlanOf, SvmConcurrency, MaxCreated,
    Caller, RetryMaxAttempts, RetrySleepBase, RetryAfterMax, Waits

ASSUME RequestAssumption ==
    /\ RetryMaxAttempts \in Nat \ {0} /\ RetrySleepBase \in Nat \ {0}
    /\ RetryAfterMax \in Nat \ {0} /\ Waits \subseteq Int

\* Those of SubscriptionUpdate, TenantUpgrade and ServiceManagerDelete.
ASSUME RegistryAssumption == IsFiniteSet(Subscription) /\ RegMaxAttempts \in Nat \ {0}
ASSUME CdsAssumption ==
    /\ MaxTenants \in Nat \ {0} /\ MaxInstances \in Nat
    /\ ChangeTimeout \in Nat \ {0} /\ CdsMaxAttempts \in Nat \ {0}
ASSUME SvmAssumption ==
    /\ Instance \cap Binding = {}
    /\ InstanceOf \in [Binding -> Instance]
    /\ MaxCreated \in Nat

VARIABLES
    existing, configured, regCommand, regPhase, reading, regListed, mark, regJob,
    regRequest, regOutcome,
    tenants, instances, cdsCommand, cdsPhase, part, stage, cdsJob, task, summary,
    unchanged, stalled, seen, cdsRequest, cdsOutcome,
    alive, operation, filter, svmPhase, unlisted, svmListed, deletion, created, svmOutcome,
    request

Registry == INSTANCE SubscriptionUpdate
Cds == INSTANCE TenantUpgrade
Svm == INSTANCE ServiceManagerDelete
Http == INSTANCE Request WITH Client <- Caller

registryVars == <<existing, configured, regCommand, regPhase, reading, regListed, mark, regJob,
                  regRequest, regOutcome>>
cdsVars == <<tenants, instances, cdsCommand, cdsPhase, part, stage, cdsJob, task, summary,
             unchanged, stalled, seen, cdsRequest, cdsOutcome>>
svmVars == <<alive, operation, filter, svmPhase, unlisted, svmListed, deletion, created,
             svmOutcome>>
vars == <<registryVars, cdsVars, svmVars, request>>

\* The command is selected; or a request is looked at by itself.
Init == \/ Registry!Init /\ Cds!Idle /\ Svm!Idle /\ request = <<>>
        \/ Registry!Idle /\ Cds!Init /\ Svm!Idle /\ request = <<>>
        \/ Registry!Idle /\ Cds!Idle /\ Svm!Init /\ request = <<>>
        \/ Registry!Idle /\ Cds!Idle /\ Svm!Idle /\ Http!Init

RequestGoesOn == request # <<>> /\ Http!Next

GoesOn == \/ Registry!GoesOn /\ UNCHANGED <<cdsVars, svmVars, request>>
          \/ Cds!GoesOn /\ UNCHANGED <<registryVars, svmVars, request>>
          \/ Svm!GoesOn /\ UNCHANGED <<registryVars, cdsVars, request>>
          \/ RequestGoesOn /\ UNCHANGED <<registryVars, cdsVars, svmVars>>

Next == \/ Registry!Next /\ UNCHANGED <<cdsVars, svmVars, request>>
        \/ Cds!Next /\ UNCHANGED <<registryVars, svmVars, request>>
        \/ Svm!Next /\ UNCHANGED <<registryVars, cdsVars, request>>
        \/ RequestGoesOn /\ UNCHANGED <<registryVars, cdsVars, svmVars>>

\* The fairness of the modules; only one of them has steps.
Spec == Init /\ [][Next]_vars /\ WF_vars(GoesOn)

-----------------------------------------------------------------------------
(* Properties; their parts are explained in the modules of the commands.    *)

\* The parts of the state have their types.
TypeOK == /\ Registry!TypeOK /\ Cds!TypeOK /\ Svm!TypeOK
          /\ request = <<>> \/ Http!TypeOK

\* A retry of src/src/shared/request.js never repeats what a server has done.
ActedAtMostOnce ==
    /\ Registry!R!ActedAtMostOnce /\ Cds!R!ActedAtMostOnce
    /\ request = <<>> \/ Http!ActedAtMostOnce

\* No header makes a request of src/src/shared/request.js sleep for too long.
BoundedSleep == request = <<>> \/ Http!BoundedSleep

\* A command that reports success has done all that it was asked for.
OkMeansDone == Registry!OkMeansDone /\ Cds!OkMeansDone /\ Svm!OkMeansDone

\* At the end of a command nothing of it is untried or underway.
NothingAbandoned == Registry!NothingAbandoned /\ Cds!NothingAbandoned /\ Svm!NothingAbandoned

\* Commands that delete or move what belongs to a tenant touch nothing that they
\* did not single out, and in the right order.
DestroysOnlyMeant == Registry!OnlySubscription /\ Svm!DeletesInOrder

\* An upgrade job is given up only when it stands still.
GivenUpOnlyIfStalled == Cds!GivenUpOnlyIfStalled

\* Every command comes to an end if the jobs and operations in the registry and
\* the service-manager do; the tasks of an upgrade may stand still.
CommandEnds ==
    <>(/\ regPhase = "ended" /\ cdsPhase = "ended" /\ svmPhase = "ended"
       /\ \A c \in DOMAIN request : Http!Rejected(c) \/ Http!Resolved(c))
=============================================================================
