------------------------- MODULE NormalizeBindings -------------------------
(***************************************************************************)
(* The commands svm-make-bindings-single and svm-make-bindings-double of   *)
(* src/src/submodules/serviceManager.js against the service-manager.       *)
(*                                                                         *)
(* A run lists instances and bindings, computes from that snapshot which   *)
(* bindings to create and which to delete, and hands the changes to a      *)
(* FunnelQueue that keeps at most SvmConcurrency of them running.  Every   *)
(* change is a request that the service-manager accepts and completes      *)
(* later on its own; the tool polls the operation until it is over.  The   *)
(* run ends when all changes are settled and fails if one was rejected.    *)
(*                                                                         *)
(* The service-manager is external: it is modelled as src/ uses it.  Two   *)
(* kinds of faults are told apart.  A refusal is definitive: a request     *)
(* that is not accepted or an operation that ends as failed.  After a late *)
(* fault (response lost, poll request failed, tool killed) an operation    *)
(* goes on in the service-manager although nobody waits for it any more.   *)
(***************************************************************************)
EXTENDS Integers, FiniteSets

CONSTANTS
    Instance,       \* service instances, numbered in the order of their tenants
    Usable,         \* those that are usable and carry a tenant_id label
    Scopes,         \* what the arguments SERVICE_PLAN and TENANT_ID can select
    Target,         \* target binding counts: 1 for single, 2 for double
    SvmConcurrency, \* changes that may run at the same time
    InitialState,   \* states of the bindings that exist before the first run
    MaxInitial,     \* bound: bindings that exist before the first run
    MaxBindings,    \* bound: bindings the service-manager ever issues
    MaxRefusals,    \* bound: definitive faults
    MaxLate         \* bound: late faults

BindingId == 1..MaxBindings

\* last_operation of a binding, with "none" before it is issued and "gone"
\* after it is removed.  "creating" and "deleting" are in progress, "failed" and
\* "deleteFailed" are failed operations.
InProgress == {"creating", "deleting"}
FailedState == {"failed", "deleteFailed"}
OpState == InProgress \cup FailedState \cup {"none", "succeeded", "gone"}

ASSUME InstanceAssumption == /\ IsFiniteSet(Instance)
                             /\ Instance \subseteq Nat \ {0}
                             /\ Usable \subseteq Instance
                             /\ Scopes \subseteq SUBSET Instance
ASSUME TargetAssumption == Target \subseteq Nat \ {0}
ASSUME InitialStateAssumption ==
    InitialState \subseteq InProgress \cup FailedState \cup {"succeeded"}
ASSUME BoundAssumption == /\ SvmConcurrency \in Nat \ {0}
                          /\ MaxBindings \in Nat
                          /\ MaxInitial \in 0..MaxBindings
                          /\ MaxRefusals \in Nat
                          /\ MaxLate \in Nat

VARIABLES
    lastOp,     \* service-manager: state of every binding
    owner,      \* service-manager: instance of every binding, 0 if none
    updatedAt,  \* service-manager: time stamp of every binding
    issued,     \* service-manager: bindings 1..issued exist or existed
    clock,      \* service-manager: latest time stamp
    phase,      \* the run: "idle", "reading" or "changing"
    target,     \* the run: its targetCount
    scope,      \* the run: the instances its filters select
    seen,       \* the run: the listed bindings, as states
    waiting,    \* the run: changes in the queue that are not yet requested
    polling,    \* the run: bindings whose operation is being polled
    rejected,   \* the run: whether a change was rejected
    outcome,    \* of the latest run: "none", "ok" or "failed"
    refusals,   \* definitive faults so far
    late        \* late faults so far

svm == <<lastOp, owner, updatedAt, issued, clock>>
run == <<phase, target, scope, seen, waiting, polling, rejected, outcome>>
vars == <<lastOp, owner, updatedAt, issued, clock,
          phase, target, scope, seen, waiting, polling, rejected, outcome,
          refusals, late>>

Change == [kind : {"create", "prune", "cleanup"}, inst : Instance, arg : Nat]

TypeOK ==
    /\ lastOp \in [BindingId -> OpState]
    /\ owner \in [BindingId -> Instance \cup {0}]
    /\ updatedAt \in [BindingId -> Nat]
    /\ issued \in 0..MaxBindings
    /\ clock \in Nat
    /\ phase \in {"idle", "reading", "changing"}
    /\ target \in Target
    /\ scope \in Scopes
    /\ seen \in [BindingId -> OpState]
    /\ waiting \subseteq Change
    /\ polling \subseteq BindingId
    /\ rejected \in BOOLEAN
    /\ outcome \in {"none", "ok", "failed"}
    /\ refusals \in 0..MaxRefusals
    /\ late \in 0..MaxLate

-----------------------------------------------------------------------------
(* The snapshot and the changes that follow from it                        *)

\* The bindings of instance i that a listing with states s shows, and those of
\* them that are, or are not, in state succeeded.
Listed(s, i) == {b \in BindingId : owner[b] = i /\ s[b] \notin {"none", "gone"}}
Succeeded(s, i) == {b \in Listed(s, i) : s[b] = "succeeded"}
NotSucceeded(s, i) == Listed(s, i) \ Succeeded(s, i)

\* The first of the bindings S in the order of updated_at, latest first.
MostRecent(S) == {b \in S : \A c \in S : updatedAt[c] <= updatedAt[b]}

Create(i, n) == [kind |-> "create", inst |-> i, arg |-> n]
Prune(i, b) == [kind |-> "prune", inst |-> i, arg |-> b]
Cleanup(i, b) == [kind |-> "cleanup", inst |-> i, arg |-> b]

\* Mutants of Missing: the guard of the branch is an inequality, and one binding
\* too few is created.
MissingOrSurplus(s, i, t) ==
    IF Cardinality(Succeeded(s, i)) # t
    THEN {Create(i, t - Cardinality(Succeeded(s, i)))}
    ELSE {}
MissingButOne(s, i, t) ==
    {Create(i, n) : n \in 1..(t - Cardinality(Succeeded(s, i)) - 1)}

Missing(s, i, t) == {Create(i, n) : n \in 1..(t - Cardinality(Succeeded(s, i)))}

\* Mutant of Ambivalent: the bindings are sorted in ascending order.
AmbivalentAscending(s, i, t) ==
    IF Cardinality(Succeeded(s, i)) > t
    THEN {b \in Succeeded(s, i) : \E c \in Succeeded(s, i) : updatedAt[c] < updatedAt[b]}
    ELSE {}

\* Above the target count only the most recent binding is kept, whatever the
\* target count is.
Ambivalent(s, i, t) ==
    IF Cardinality(Succeeded(s, i)) > t
    THEN Succeeded(s, i) \ MostRecent(Succeeded(s, i))
    ELSE {}

\* Mutant of Changes: the bindings are not partitioned by state.
ChangesUnpartitioned(s, i, t) ==
    Missing(s, i, t) \cup {Cleanup(i, b) : b \in Listed(s, i) \ MostRecent(Listed(s, i))}

Changes(s, i, t) == Missing(s, i, t)
                    \cup {Prune(i, b) : b \in Ambivalent(s, i, t)}
                    \cup {Cleanup(i, b) : b \in NotSucceeded(s, i)}

\* The order in which the changes are enqueued: instance by instance, and the
\* cleanup of an instance last.
Before(c, d) == \/ c.inst < d.inst
                \/ c.inst = d.inst /\ d.kind = "cleanup" /\ c.kind # "cleanup"

\* A change starts when a slot of the queue is free and no earlier one waits.
Ready(c) == /\ phase = "changing"
            /\ c \in waiting
            /\ Cardinality(polling) < SvmConcurrency
            /\ \A d \in waiting : ~Before(d, c)

-----------------------------------------------------------------------------
(* The run                                                                 *)

Init ==
    /\ \E n \in 0..MaxInitial :
         /\ issued = n
         /\ clock = n
         /\ \E s \in [1..n -> InitialState] :
              lastOp = [b \in BindingId |-> IF b <= n THEN s[b] ELSE "none"]
         /\ \E o \in [1..n -> Instance] :
              owner = [b \in BindingId |-> IF b <= n THEN o[b] ELSE 0]
         /\ updatedAt = [b \in BindingId |-> IF b <= n THEN b ELSE 0]
    /\ phase = "idle"
    /\ target \in Target
    /\ scope \in Scopes
    /\ seen = [b \in BindingId |-> "none"]
    /\ waiting = {}
    /\ polling = {}
    /\ rejected = FALSE
    /\ outcome = "none"
    /\ refusals = 0
    /\ late = 0

\* Bound: a run starts only if the bindings it would create can be issued.
Room(t, sc) ==
    issued + Cardinality(UNION {Missing(lastOp, i, t) : i \in sc \cap Usable})
        <= MaxBindings

\* A run starts.
Start(t, sc) ==
    /\ phase = "idle"
    /\ Room(t, sc)
    /\ phase' = "reading"
    /\ target' = t
    /\ scope' = sc
    /\ outcome' = "none"
    /\ UNCHANGED <<svm, seen, waiting, polling, rejected, refusals, late>>

\* The listings arrive; what to do is computed from them without another await.
Read ==
    /\ phase = "reading"
    /\ seen' = lastOp
    /\ waiting' = UNION {Changes(lastOp, i, target) : i \in scope \cap Usable}
    /\ rejected' = FALSE
    /\ IF waiting' = {}
       THEN phase' = "idle" /\ outcome' = "ok"
       ELSE phase' = "changing" /\ UNCHANGED outcome
    /\ UNCHANGED <<svm, target, scope, polling, refusals, late>>

\* One of the listings cannot be read.
ReadFails ==
    /\ phase = "reading"
    /\ refusals < MaxRefusals
    /\ refusals' = refusals + 1
    /\ phase' = "idle"
    /\ outcome' = "failed"
    /\ UNCHANGED <<svm, target, scope, seen, waiting, polling, rejected, late>>

\* The service-manager accepts a request.
AcceptCreate(c, b) ==
    /\ c.kind = "create"
    /\ b = issued + 1
    /\ b <= MaxBindings
    /\ issued' = b
    /\ lastOp' = [lastOp EXCEPT ![b] = "creating"]
    /\ owner' = [owner EXCEPT ![b] = c.inst]
    /\ UNCHANGED <<updatedAt, clock>>

AcceptDelete(c, b) ==
    /\ c.kind # "create"
    /\ b = c.arg
    /\ lastOp[b] # "gone"
    /\ lastOp' = [lastOp EXCEPT ![b] = "deleting"]
    /\ UNCHANGED <<owner, updatedAt, issued, clock>>

\* A change is requested and accepted, and its operation is polled from now on.
\* Requests in flight are accepted in their order; no property depends on it.
Submit(c, b) ==
    /\ Ready(c)
    /\ AcceptCreate(c, b) \/ AcceptDelete(c, b)
    /\ waiting' = waiting \ {c}
    /\ polling' = polling \cup {b}
    /\ UNCHANGED <<phase, target, scope, seen, rejected, outcome, refusals, late>>

\* A change is requested and accepted, but the response does not arrive.
LoseResponse(c, b) ==
    /\ Ready(c)
    /\ late < MaxLate
    /\ AcceptCreate(c, b) \/ AcceptDelete(c, b)
    /\ waiting' = waiting \ {c}
    /\ rejected' = TRUE
    /\ late' = late + 1
    /\ UNCHANGED <<phase, target, scope, seen, polling, outcome, refusals>>

\* The binding to delete is busy with another operation, or no longer exists.
RefuseDelete(c) ==
    /\ Ready(c)
    /\ c.kind # "create"
    /\ lastOp[c.arg] \in InProgress \cup {"gone"}
    /\ waiting' = waiting \ {c}
    /\ rejected' = TRUE
    /\ UNCHANGED <<svm, phase, target, scope, seen, polling, outcome, refusals, late>>

\* The request is refused for any other reason.
Refuse(c) ==
    /\ Ready(c)
    /\ refusals < MaxRefusals
    /\ refusals' = refusals + 1
    /\ waiting' = waiting \ {c}
    /\ rejected' = TRUE
    /\ UNCHANGED <<svm, phase, target, scope, seen, polling, outcome, late>>

\* Mutant of Poll: a failed operation is not final.
PollUntilSucceeded(b) ==
    /\ b \in polling
    /\ lastOp[b] \notin InProgress \cup FailedState
    /\ polling' = polling \ {b}
    /\ UNCHANGED <<svm, phase, target, scope, seen, waiting, rejected, outcome, refusals, late>>

\* A poll finds the operation succeeded or failed; the change is settled.
Poll(b) ==
    /\ b \in polling
    /\ lastOp[b] \notin InProgress
    /\ polling' = polling \ {b}
    /\ rejected' = (rejected \/ lastOp[b] \in FailedState)
    /\ UNCHANGED <<svm, phase, target, scope, seen, waiting, outcome, refusals, late>>

\* A poll request fails; the change is rejected while its operation goes on.
PollFails(b) ==
    /\ b \in polling
    /\ late < MaxLate
    /\ late' = late + 1
    /\ polling' = polling \ {b}
    /\ rejected' = TRUE
    /\ UNCHANGED <<svm, phase, target, scope, seen, waiting, outcome, refusals>>

\* Mutants of Finish: the first rejection ends the run, and rejections are
\* swallowed.
FinishOnRejection ==
    /\ phase = "changing"
    /\ rejected \/ (waiting = {} /\ polling = {})
    /\ phase' = "idle"
    /\ outcome' = IF rejected THEN "failed" ELSE "ok"
    /\ waiting' = {}
    /\ polling' = {}
    /\ UNCHANGED <<svm, target, scope, seen, rejected, refusals, late>>
FinishSwallowing ==
    /\ phase = "changing"
    /\ waiting = {}
    /\ polling = {}
    /\ phase' = "idle"
    /\ outcome' = "ok"
    /\ UNCHANGED <<svm, target, scope, seen, waiting, polling, rejected, refusals, late>>

\* dequeueAll: all changes are settled, and one rejection fails the run.
Finish ==
    /\ phase = "changing"
    /\ waiting = {}
    /\ polling = {}
    /\ phase' = "idle"
    /\ outcome' = IF rejected THEN "failed" ELSE "ok"
    /\ UNCHANGED <<svm, target, scope, seen, waiting, polling, rejected, refusals, late>>

\* The process is killed.
Crash ==
    /\ phase # "idle"
    /\ late < MaxLate
    /\ late' = late + 1
    /\ phase' = "idle"
    /\ waiting' = {}
    /\ polling' = {}
    /\ outcome' = "failed"
    /\ UNCHANGED <<svm, target, scope, seen, rejected, refusals>>

-----------------------------------------------------------------------------
(* The service-manager                                                     *)

CreateCompletes(b) ==
    /\ lastOp[b] = "creating"
    /\ lastOp' = [lastOp EXCEPT ![b] = "succeeded"]
    /\ clock' = clock + 1
    /\ updatedAt' = [updatedAt EXCEPT ![b] = clock + 1]
    /\ UNCHANGED <<owner, issued, run, refusals, late>>

DeleteCompletes(b) ==
    /\ lastOp[b] = "deleting"
    /\ lastOp' = [lastOp EXCEPT ![b] = "gone"]
    /\ UNCHANGED <<owner, updatedAt, issued, clock, run, refusals, late>>

OperationFails(b) ==
    /\ lastOp[b] \in InProgress
    /\ refusals < MaxRefusals
    /\ refusals' = refusals + 1
    /\ lastOp' = [lastOp EXCEPT ![b] =
                    IF @ = "creating" THEN "failed" ELSE "deleteFailed"]
    /\ UNCHANGED <<owner, updatedAt, issued, clock, run, late>>

-----------------------------------------------------------------------------
(* Steps and specification                                                 *)

\* What the process does by itself once it is started.
Proceed == \/ Read
           \/ \E c \in waiting : \/ \E b \in BindingId : Submit(c, b)
                                 \/ RefuseDelete(c)
           \/ \E b \in polling : Poll(b)
           \/ Finish

Complete == \E b \in BindingId : CreateCompletes(b) \/ DeleteCompletes(b)

Fault == \/ ReadFails
         \/ \E c \in waiting : \/ \E b \in BindingId : LoseResponse(c, b)
                               \/ Refuse(c)
         \/ \E b \in polling : PollFails(b)
         \/ Crash
         \/ \E b \in BindingId : OperationFails(b)

Next == \/ \E t \in Target, sc \in Scopes : Start(t, sc)
        \/ Proceed
        \/ Complete
        \/ Fault

\* The process runs as long as it can, and the service-manager finishes what it
\* accepted.  Nobody has to start a run and nothing has to go wrong.
Fairness == WF_vars(Proceed) /\ WF_vars(Complete)

Spec == Init /\ [][Next]_vars /\ Fairness

-----------------------------------------------------------------------------
(* Properties                                                              *)

\* The binding that a run saw as the most recent succeeded one of its instance
\* is still there, succeeded, until a later run takes another snapshot: the
\* "load-bearing invariant" of the comment at serviceManager.js:228.
MostRecentSurvives ==
    \A i \in Instance :
        \A b \in MostRecent(Succeeded(seen, i)) : lastOp[b] = "succeeded"

\* After a successful run an instance in its scope has nothing but succeeded
\* bindings, and as many as the target count, or one if it had more before.
\* For single this is always one.  A further run finds nothing left to change
\* in an instance whose surplus was not pruned.
Converges ==
    phase = "idle" /\ outcome = "ok" =>
        \A i \in scope \cap Usable :
            /\ NotSucceeded(lastOp, i) = {}
            /\ Cardinality(Succeeded(lastOp, i)) =
                 IF Cardinality(Succeeded(seen, i)) > target THEN 1 ELSE target

\* Without late faults no operation is in progress between two runs: the run
\* has waited for all of its changes, also after one of them was rejected.
\* The retry of a failed run therefore sees the final state of every binding.
QuietAtRest ==
    phase = "idle" /\ late = 0 =>
        \A b \in BindingId : lastOp[b] \notin InProgress

\* A run ends, whichever operations fail and whichever requests are refused.
RunEnds == phase # "idle" ~> phase = "idle"

\* The credentials of every instance behave like a CredentialPool.
Newest(S) == IF S = {} THEN 0 ELSE CHOOSE b \in MostRecent(S) : TRUE
Pool == INSTANCE CredentialPool WITH
            live <- [i \in Instance |-> Succeeded(lastOp, i)],
            newest <- [i \in Instance |-> Newest(Succeeded(lastOp, i))]
KeepsNewest == Pool!Spec

\* docs/service-manager/index.md:88-92: the commands normalize to exactly one
\* and exactly two bindings per instance.
ExactlyTarget ==
    phase = "idle" /\ outcome = "ok" =>
        \A i \in scope \cap Usable : Cardinality(Succeeded(lastOp, i)) = target

\* The comment at serviceManager.js:200-201: what is cleaned up is unusable.
\* A binding that has credentials by now is not deleted as a failed one.
CleansUpUnusable ==
    [][\A b \in BindingId :
         lastOp[b] = "succeeded" /\ lastOp'[b] = "deleting"
           => seen[b] = "succeeded"]_vars
=============================================================================
