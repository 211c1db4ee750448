----------------------- MODULE ServiceManagerDelete -----------------------
(***************************************************************************)
(* The commands svm-delete-bindings and svm-delete:                        *)
(* _serviceManagerDelete of src/src/submodules/serviceManager.js.  It      *)
(* lists instances and bindings at the same time, deletes the bindings of  *)
(* the listed instances and, only when all of them are gone, the instances.*)
(*                                                                         *)
(* The service-manager is external: it accepts or refuses a deletion, its  *)
(* operation ends later, and an instance that has bindings is not deleted. *)
(* Others may create bindings meanwhile.                                   *)
(***************************************************************************)
EXTENDS Naturals, FiniteSets

CONSTANTS
    Instance, Binding,
    InstanceOf,       \* the instance of a binding
    TenantOfInstance, \* the tenant of an instance, which its bindings are labelled with
    PlanOf,           \* the plan of an instance
    SvmConcurrency,   \* MTX_SVM_CONCURRENCY
    MaxCreated        \* bound: bindings that others create

Item == Instance \cup Binding
Tenants == {TenantOfInstance[i] : i \in Instance}
Plans == {PlanOf[i] : i \in Instance}

VARIABLES
    alive,     \* instances and bindings in the service-manager
    operation, \* its operation for an item
    filter,    \* the tenants and plans that the command is about, and its kind
    svmPhase,  \* "listing", "bindings", "instances" or "ended"
    unlisted,  \* "instances" and "bindings", until they are listed
    svmListed, \* what was listed
    deletion,  \* how far the deletion of an item is
    created,   \* bindings that others have created
    svmOutcome \* "none", "ok" or "failed"

vars == <<alive, operation, filter, svmPhase, unlisted, svmListed, deletion, created, svmOutcome>>

Over == {"done", "failed"}

TypeOK ==
    /\ alive \subseteq Item
    /\ operation \in [Item -> {"none", "running", "succeeded", "failed"}]
    /\ filter \in [tenants : SUBSET Tenants, plans : SUBSET Plans, doDeleteInstances : BOOLEAN]
    /\ svmPhase \in {"listing", "bindings", "instances", "ended"}
    /\ unlisted \subseteq {"instances", "bindings"}
    /\ svmListed \subseteq Item
    /\ deletion \in [Item -> {"none", "queued", "polling"} \cup Over]
    /\ created \in 0..MaxCreated
    /\ svmOutcome \in {"none", "ok", "failed"}

Begin(first) ==
    /\ operation = [x \in Item |-> "none"]
    /\ svmPhase = first
    /\ unlisted = {"instances", "bindings"}
    /\ svmListed = {}
    /\ deletion = [x \in Item |-> "none"]
    /\ created = 0
    /\ svmOutcome = "none"

\* An argument names one tenant or plan, or all of them.
Init ==
    /\ alive \in SUBSET Item
    /\ \A b \in alive \cap Binding : InstanceOf[b] \in alive
    /\ filter \in [tenants : {{t} : t \in Tenants} \cup {Tenants},
                   plans : {{p} : p \in Plans} \cup {Plans}, doDeleteInstances : BOOLEAN]
    /\ Begin("listing")

\* No command of this module is run.
Idle ==
    /\ alive = {}
    /\ filter = [tenants |-> {}, plans |-> {}, doDeleteInstances |-> FALSE]
    /\ Begin("ended")

-----------------------------------------------------------------------------
\* svm.getInstances with both filters, svm.getBindings with that of the tenant.
GetInstances == {i \in alive \cap Instance :
                    TenantOfInstance[i] \in filter.tenants /\ PlanOf[i] \in filter.plans}
GetBindings == {b \in alive \cap Binding : TenantOfInstance[InstanceOf[b]] \in filter.tenants}

List(kind, items) ==
    /\ svmPhase = "listing" /\ kind \in unlisted
    /\ svmListed' = svmListed \cup items
    /\ unlisted' = unlisted \ {kind}
    /\ UNCHANGED <<alive, operation, filter, svmPhase, deletion, created, svmOutcome>>

\* The listed bindings of listed instances.
FilteredBindings == {b \in svmListed \cap Binding : InstanceOf[b] \in svmListed}

Queue(items) == deletion' = [x \in Item |-> IF x \in items THEN "queued" ELSE deletion[x]]

StartBindings ==
    /\ svmPhase = "listing" /\ unlisted = {}
    /\ svmPhase' = "bindings"
    /\ Queue(FilteredBindings)
    /\ UNCHANGED <<alive, operation, filter, unlisted, svmListed, created, svmOutcome>>

\* The limiter has dealt with all that was queued.
AllOver == \A x \in Item : deletion[x] \in {"none"} \cup Over
AnyFailed == \E x \in Item : deletion[x] = "failed"

\* Mutant of StartInstances: a failure does not end the command.
StartInstancesAnyway ==
    /\ svmPhase = "bindings" /\ AllOver /\ filter.doDeleteInstances
    /\ svmPhase' = "instances"
    /\ Queue(svmListed \cap Instance)
    /\ UNCHANGED <<alive, operation, filter, unlisted, svmListed, created, svmOutcome>>

StartInstances ==
    /\ svmPhase = "bindings" /\ AllOver /\ ~AnyFailed /\ filter.doDeleteInstances
    /\ svmPhase' = "instances"
    /\ Queue(svmListed \cap Instance)
    /\ UNCHANGED <<alive, operation, filter, unlisted, svmListed, created, svmOutcome>>

Return ==
    /\ svmPhase \in {"bindings", "instances"} /\ AllOver
    /\ AnyFailed \/ ~filter.doDeleteInstances \/ svmPhase = "instances"
    /\ svmPhase' = "ended"
    /\ svmOutcome' = IF AnyFailed THEN "failed" ELSE "ok"
    /\ UNCHANGED <<alive, operation, filter, unlisted, svmListed, deletion, created>>

ListFails ==
    /\ svmPhase = "listing"
    /\ svmPhase' = "ended" /\ svmOutcome' = "failed"
    /\ UNCHANGED <<alive, operation, filter, unlisted, svmListed, deletion, created>>

Polling == {x \in Item : deletion[x] = "polling"}

\* A deletion is requested, and accepted, or refused or lost on either way.
Delete(x, accepted, answered) ==
    /\ deletion[x] = "queued" /\ Cardinality(Polling) < SvmConcurrency
    /\ operation' = [operation EXCEPT ![x] = IF accepted THEN "running" ELSE @]
    /\ deletion' = [deletion EXCEPT ![x] = IF accepted /\ answered THEN "polling" ELSE "failed"]
    /\ UNCHANGED <<alive, filter, svmPhase, unlisted, svmListed, created, svmOutcome>>

PollEnds(x) ==
    /\ deletion[x] = "polling" /\ operation[x] \in {"succeeded", "failed"}
    /\ deletion' = [deletion EXCEPT ![x] = IF operation[x] = "succeeded" THEN "done" ELSE "failed"]
    /\ UNCHANGED <<alive, operation, filter, svmPhase, unlisted, svmListed, created, svmOutcome>>

PollFails(x) ==
    /\ deletion[x] = "polling"
    /\ deletion' = [deletion EXCEPT ![x] = "failed"]
    /\ UNCHANGED <<alive, operation, filter, svmPhase, unlisted, svmListed, created, svmOutcome>>

\* External: an operation ends.
OperationEnds(x, result) ==
    /\ operation[x] = "running"
    /\ result = "succeeded" /\ x \in Instance => \A b \in alive \cap Binding : InstanceOf[b] # x
    /\ operation' = [operation EXCEPT ![x] = result]
    /\ alive' = IF result = "succeeded" THEN alive \ {x} ELSE alive
    /\ UNCHANGED <<filter, svmPhase, unlisted, svmListed, deletion, created, svmOutcome>>

\* External: someone creates a binding.
Create(b) ==
    /\ created < MaxCreated
    /\ b \notin alive /\ InstanceOf[b] \in alive /\ operation[b] = "none"
    /\ alive' = alive \cup {b}
    /\ created' = created + 1
    /\ UNCHANGED <<operation, filter, svmPhase, unlisted, svmListed, deletion, svmOutcome>>

-----------------------------------------------------------------------------
Start == \/ List("instances", GetInstances) \/ List("bindings", GetBindings)
         \/ StartBindings \/ StartInstances \/ Return
Submit(x) == \E accepted, answered \in BOOLEAN : Delete(x, accepted, answered)
End(x) == \E result \in {"succeeded", "failed"} : OperationEnds(x, result)

GoesOn == Start \/ \E x \in Item : Submit(x) \/ PollEnds(x) \/ End(x)

Next == \/ GoesOn \/ ListFails
        \/ \E x \in Item : PollFails(x)
        \/ \E b \in Binding : Create(b)

\* The tool goes on, and operations end.
Fairness == WF_vars(GoesOn)

Spec == Init /\ [][Next]_vars /\ Fairness

-----------------------------------------------------------------------------
(* Properties                                                              *)

\* A command that reports success leaves nothing that it listed.
OkMeansDone ==
    svmOutcome = "ok" =>
        /\ FilteredBindings \cap alive = {}
        /\ filter.doDeleteInstances => svmListed \cap Instance \cap alive = {}

\* A failed deletion does not end the command while others are underway.
NothingAbandoned == svmPhase = "ended" => AllOver

\* Nothing of another tenant or plan is ever asked to be deleted, and an instance
\* only when all its listed bindings are gone.
DeletesInOrder ==
    \A x \in Item :
        operation[x] # "none" =>
            LET i == IF x \in Instance THEN x ELSE InstanceOf[x]
            IN /\ TenantOfInstance[i] \in filter.tenants /\ PlanOf[i] \in filter.plans
               /\ x \in Instance =>
                     \A b \in svmListed \cap Binding : InstanceOf[b] = i => b \notin alive

\* A command comes to an end if the operations do.
CommandEnds == <>(svmPhase = "ended")
=============================================================================
