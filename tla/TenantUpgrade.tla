--------------------------- MODULE TenantUpgrade ---------------------------
(***************************************************************************)
(* The commands of src/src/submodules/capMultitenancy.js that change       *)
(* tenants: onboard, offboard, offboard all, upgrade and upgrade all.  An  *)
(* upgrade posts a job to one app instance and polls it until it no longer *)
(* runs or until its tasks have not changed for too long; upgrade all      *)
(* splits the tenants over the app instances and runs an upgrade for each  *)
(* at the same time.                                                       *)
(*                                                                         *)
(* The application with its jobs and tasks is external; a failed task      *)
(* carries an error.  The logs that are downloaded in the end change       *)
(* nothing and may fail.                                                   *)
(***************************************************************************)
EXTENDS Integers, FiniteSets

CONSTANTS
    MaxTenants,     \* bound: tenants of the application
    MaxInstances,   \* bound: instances of the application
    CdsConcurrency, \* MTX_CDS_CONCURRENCY
    ChangeTimeout,  \* CDS_CHANGE_TIMEOUT, counted in polls
    CdsMaxAttempts, \* RETRY_MAX_ATTEMPTS, as few as a retry needs
    RetrySleepBase, RetryAfterMax

\* Tenants in the order of their ids.  A unit of work is an upgrade of a part of
\* them, or the request for one of them.
Tenant == 1..MaxTenants
Unit == 1..(IF MaxTenants < MaxInstances THEN MaxInstances ELSE MaxTenants)

VARIABLES
    tenants,    \* tenants of the application
    instances,  \* cfProcess.instances
    cdsCommand, \* the command and whether its argument is a uuid
    cdsPhase,   \* "starting", "working" or "ended"
    part,       \* the tenants of a unit of work
    stage,      \* how far a unit of work is
    cdsJob,     \* the job of a unit in the application
    task,       \* the task of every tenant in the application
    summary,    \* lastTaskSummary of a unit, no counts at first
    unchanged,  \* polls since lastTimeOfChange
    stalled,    \* polls since a task in fact went on, as far as ChangeTimeout is passed
    seen,       \* the job and the tasks at the last poll of a unit
    cdsRequest, \* the request that starts a unit of work, see Request
    cdsOutcome  \* "none", "ok" or "failed"

vars == <<tenants, instances, cdsCommand, cdsPhase, part, stage, cdsJob, task, summary,
          unchanged, stalled, seen, cdsRequest, cdsOutcome>>
setting == <<tenants, instances, cdsCommand>>
server == <<cdsJob, task>>
watch == <<summary, unchanged, stalled, seen>>

R == INSTANCE Request WITH Client <- Unit, request <- cdsRequest,
                           RetryMaxAttempts <- CdsMaxAttempts, Waits <- {}

Upgrades == {"upgradeTenant", "upgradeAll", "upgradeAllFirst"}
Single == {"upgradeTenant", "onboard", "offboard"}
Over == {"ok", "error"}
JobStatus == {"QUEUED", "RUNNING", "FAILED", "FINISHED"}
Tasks == [Tenant -> JobStatus \cup {"none"}]

TypeOK ==
    /\ tenants \subseteq Tenant
    /\ instances \in 0..MaxInstances
    /\ cdsCommand.name \in Upgrades \cup Single \cup {"offboardAll"}
    /\ cdsPhase \in {"starting", "working", "ended"}
    /\ part \in [Unit -> SUBSET Tenant]
    /\ stage \in [Unit -> {"none", "queued", "posting", "polling", "summary"} \cup Over]
    /\ cdsJob \in [Unit -> JobStatus \cup {"none"}]
    /\ task \in Tasks
    /\ summary \in [Unit -> {<<>>} \cup (Nat \X Nat \X Nat \X Nat)]
    /\ unchanged \in [Unit -> 0..ChangeTimeout]
    /\ stalled \in [Unit -> 0..ChangeTimeout + 1]
    /\ \A u \in Unit : seen[u].job \in JobStatus \cup {"none"} /\ seen[u].task \in Tasks
    /\ R!TypeOK
    /\ cdsOutcome \in {"none", "ok", "failed"}

NoTask == [t \in Tenant |-> "none"]

Begin(first) ==
    /\ cdsPhase = first
    /\ part = [u \in Unit |-> {}]
    /\ stage = [u \in Unit |-> "none"]
    /\ cdsJob = [u \in Unit |-> "none"]
    /\ task = NoTask
    /\ summary = [u \in Unit |-> <<>>]
    /\ unchanged = [u \in Unit |-> 0]
    /\ stalled = [u \in Unit |-> 0]
    /\ seen = [u \in Unit |-> [job |-> "none", task |-> NoTask]]
    /\ R!Init
    /\ cdsOutcome = "none"

Init ==
    /\ tenants \in {1..n : n \in 0..MaxTenants}
    /\ instances \in 0..MaxInstances
    /\ cdsCommand \in [name : Single, isUUID : BOOLEAN]
                   \cup [name : {"upgradeAll", "upgradeAllFirst", "offboardAll"}, isUUID : {TRUE}]
    /\ Begin("starting")

\* No command of this module is run.
Idle ==
    /\ tenants = {}
    /\ instances = 0
    /\ cdsCommand = [name |-> "upgradeAll", isUUID |-> TRUE]
    /\ Begin("ended")

-----------------------------------------------------------------------------
\* Mutant of BalancedSplit: the part size is rounded down.
BalancedSplitDown(n, k) ==
    LET l == n \div k
    IN [u \in Unit |-> IF u > k THEN {} ELSE (u - 1) * l + 1 .. u * l]

\* balancedSplit of 1..n: parts of the size n / k, rounded up, as far as they go,
\* and then the rest and empty ones.
BalancedSplit(n, k) ==
    LET l == (n + k - 1) \div k
    IN [u \in Unit |-> IF u > k THEN {}
                       ELSE {t \in 1..n : (u - 1) * l < t /\ t <= u * l}]

IsSplit == cdsCommand.name = "upgradeAll" /\ instances > 1

\* The units of work of the command, and the tenants of each.
Parts ==
    CASE cdsCommand.name \in Single -> [u \in Unit |-> IF u = 1 THEN {1} ELSE {}]
      [] cdsCommand.name = "offboardAll" ->
           [u \in Unit |-> IF u \in tenants THEN {u} ELSE {}]
      [] IsSplit -> BalancedSplit(Cardinality(tenants), instances)
      [] OTHER -> [u \in Unit |-> IF u = 1 THEN tenants ELSE {}]

\* An upgrade of no tenants is over at once, but that of all with "*" is posted.
Needed(u) == \/ Parts[u] # {}
             \/ cdsCommand.name \in {"upgradeAll", "upgradeAllFirst"} /\ ~IsSplit /\ u = 1

Start ==
    /\ cdsPhase = "starting" /\ cdsCommand.isUUID
    /\ part' = Parts
    /\ stage' = [u \in Unit |-> IF Needed(u) THEN "queued" ELSE "ok"]
    /\ cdsPhase' = "working"
    /\ UNCHANGED <<setting, server, watch, cdsRequest, cdsOutcome>>

\* The argument is not a uuid, or the tenants cannot be listed.
StartFails ==
    /\ cdsPhase = "starting"
    /\ ~cdsCommand.isUUID \/ IsSplit \/ cdsCommand.name = "offboardAll"
    /\ cdsPhase' = "ended" /\ cdsOutcome' = "failed"
    /\ UNCHANGED <<setting, part, stage, server, watch, cdsRequest>>

Posting == {u \in Unit : stage[u] = "posting"}

Post(u) ==
    /\ cdsPhase = "working" /\ stage[u] = "queued"
    /\ cdsCommand.name = "offboardAll" => Cardinality(Posting) < CdsConcurrency
    /\ stage' = [stage EXCEPT ![u] = "posting"]
    /\ R!Send(u)
    /\ UNCHANGED <<setting, cdsPhase, part, server, watch, cdsOutcome>>

\* The application creates the job when it acts on the request.
PostProceeds(u) ==
    /\ R!Proceed(u)
    /\ IF cdsRequest'[u].acted # cdsRequest[u].acted /\ cdsCommand.name \in Upgrades
       THEN /\ cdsJob' = [cdsJob EXCEPT ![u] = "QUEUED"]
            /\ task' = [t \in Tenant |-> IF t \in part[u] THEN "QUEUED" ELSE task[t]]
       ELSE UNCHANGED server
    /\ UNCHANGED <<setting, cdsPhase, part, stage, watch, cdsOutcome>>

\* An upgrade goes on with polling if the response can be read and has tenants.
PostReturns(u, readable) ==
    /\ stage[u] = "posting" /\ ~R!Pending(u)
    /\ stage' = [stage EXCEPT ![u] =
           CASE R!Rejected(u) -> "error"
             [] R!Resolved(u) /\ cdsCommand.name \notin Upgrades -> "ok"
             [] R!Resolved(u) /\ cdsCommand.name \in Upgrades ->
                  IF readable THEN "polling" ELSE "error"]
    /\ UNCHANGED <<setting, cdsPhase, part, server, watch, cdsRequest, cdsOutcome>>

-----------------------------------------------------------------------------
\* Mutant of TaskSummary: tasks that have not ended are not told apart.
TaskSummaryEnded(u) ==
    LET count(states) == Cardinality({t \in part[u] : task[t] \in states})
    IN <<0, count({"QUEUED", "RUNNING"}), count({"FAILED"}), count({"FINISHED"})>>

\* _getTaskSummary
TaskSummary(u) ==
    LET count(status) == Cardinality({t \in part[u] : task[t] = status})
    IN <<count("QUEUED"), count("RUNNING"), count("FAILED"), count("FINISHED")>>

SeenNow(u) == [job |-> cdsJob[u],
               task |-> [t \in Tenant |-> IF t \in part[u] THEN task[t] ELSE "none"]]

\* A poll of a job in any other status than running ends the polling.
PollEnds(u) ==
    /\ stage[u] = "polling" /\ cdsJob[u] # "RUNNING"
    /\ stage' = [stage EXCEPT ![u] = "summary"]
    /\ seen' = [seen EXCEPT ![u] = SeenNow(u)]
    /\ UNCHANGED <<setting, cdsPhase, part, server, summary, unchanged, stalled, cdsRequest,
                   cdsOutcome>>

\* Mutant of PollRunning: a job that goes on is polled for ever.
PollWithoutTimeout(u) ==
    /\ stage[u] = "polling" /\ cdsJob[u] = "RUNNING"
    /\ summary' = [summary EXCEPT ![u] = TaskSummary(u)]
    /\ UNCHANGED <<setting, cdsPhase, part, stage, server, unchanged, stalled, seen, cdsRequest,
                   cdsOutcome>>

\* A poll of a running job: if the counts of its tasks have not changed for too
\* long, the polling ends, too.
PollRunning(u) ==
    /\ stage[u] = "polling" /\ cdsJob[u] = "RUNNING"
    /\ LET age == IF summary[u] # TaskSummary(u) THEN 0 ELSE unchanged[u] + 1
       IN /\ unchanged' = [unchanged EXCEPT ![u] = age]
          /\ IF age >= ChangeTimeout
             THEN /\ stage' = [stage EXCEPT ![u] = "summary"]
                  /\ seen' = [seen EXCEPT ![u] = SeenNow(u)]
             ELSE UNCHANGED <<stage, seen>>
    /\ summary' = [summary EXCEPT ![u] = TaskSummary(u)]
    /\ stalled' = [stalled EXCEPT ![u] = IF @ > ChangeTimeout THEN @ ELSE @ + 1]
    /\ UNCHANGED <<setting, cdsPhase, part, server, cdsRequest, cdsOutcome>>

\* The variables of a polling loop end with its function.
LeaveLoop(u) == /\ summary' = [summary EXCEPT ![u] = <<>>]
                /\ unchanged' = [unchanged EXCEPT ![u] = 0]
                /\ stalled' = [stalled EXCEPT ![u] = 0]

\* The poll request is rejected, or its response cannot be read.
PollFails(u) ==
    /\ stage[u] = "polling"
    /\ stage' = [stage EXCEPT ![u] = "error"]
    /\ LeaveLoop(u)
    /\ UNCHANGED <<setting, cdsPhase, part, server, seen, cdsRequest, cdsOutcome>>

HasError(u) == \E t \in part[u] : seen[u].task[t] = "FAILED"
HasChangeTimeout(u) == seen[u].job = "RUNNING"

\* The end of an upgrade: errors of tasks, then the timeout.
Summarize(u) ==
    /\ stage[u] = "summary"
    /\ stage' = [stage EXCEPT ![u] =
           IF HasError(u) \/ HasChangeTimeout(u) THEN "error" ELSE "ok"]
    /\ LeaveLoop(u)
    /\ UNCHANGED <<setting, cdsPhase, part, server, seen, cdsRequest, cdsOutcome>>

\* assertAll and limiter: all units are over before the command is.
Return ==
    /\ cdsPhase = "working"
    /\ \A u \in Unit : stage[u] \in Over
    /\ cdsPhase' = "ended"
    /\ cdsOutcome' = IF \E u \in Unit : stage[u] = "error" THEN "failed" ELSE "ok"
    /\ UNCHANGED <<setting, part, stage, server, watch, cdsRequest>>

-----------------------------------------------------------------------------
\* External: the application starts a job, starts and ends its tasks and ends
\* the job with them, or the job fails.  What it does after the unit of work is
\* over is not looked at.
Progress(u) == stalled' = [stalled EXCEPT ![u] = IF stage[u] = "polling" THEN 0 ELSE @]

JobStarts(u) ==
    /\ cdsJob[u] = "QUEUED" /\ stage[u] \notin Over
    /\ cdsJob' = [cdsJob EXCEPT ![u] = "RUNNING"]
    /\ UNCHANGED <<setting, cdsPhase, part, stage, task, watch, cdsRequest, cdsOutcome>>

TaskGoesOn(u, t, status) ==
    /\ cdsJob[u] = "RUNNING" /\ stage[u] \notin Over /\ t \in part[u]
    /\ <<task[t], status>> \in {<<"QUEUED", "RUNNING">>, <<"RUNNING", "FINISHED">>,
                                <<"RUNNING", "FAILED">>}
    /\ task' = [task EXCEPT ![t] = status]
    /\ Progress(u)
    /\ UNCHANGED <<setting, cdsPhase, part, stage, cdsJob, summary, unchanged, seen, cdsRequest,
                   cdsOutcome>>

JobEnds(u) ==
    /\ cdsJob[u] = "RUNNING" /\ stage[u] \notin Over
    /\ \A t \in part[u] : task[t] \in {"FAILED", "FINISHED"}
    /\ cdsJob' = [cdsJob EXCEPT ![u] =
           IF \E t \in part[u] : task[t] = "FAILED" THEN "FAILED" ELSE "FINISHED"]
    /\ UNCHANGED <<setting, cdsPhase, part, stage, task, watch, cdsRequest, cdsOutcome>>

\* It fails before that, and its tasks stay as they are, without an error.
JobFails(u) ==
    /\ cdsJob[u] = "RUNNING" /\ stage[u] \notin Over
    /\ cdsJob' = [cdsJob EXCEPT ![u] = "FAILED"]
    /\ UNCHANGED <<setting, cdsPhase, part, stage, task, watch, cdsRequest, cdsOutcome>>

Application(u) == \/ JobStarts(u) \/ JobEnds(u) \/ JobFails(u)
                  \/ \E t \in Tenant, status \in JobStatus : TaskGoesOn(u, t, status)

-----------------------------------------------------------------------------
Submit(u) == \/ Post(u) \/ PostProceeds(u)
             \/ \E readable \in BOOLEAN : PostReturns(u, readable)
Poll(u) == PollEnds(u) \/ PollRunning(u)

GoesOn == \/ Start \/ StartFails \/ Return
          \/ \E u \in Unit : Submit(u) \/ Poll(u) \/ Summarize(u)

Next == GoesOn \/ \E u \in Unit : PollFails(u) \/ Application(u)

\* The tool goes on and requests are answered; the application need not do
\* anything, and no poll has to fail.
Fairness == WF_vars(GoesOn)

Spec == Init /\ [][Next]_vars /\ Fairness

-----------------------------------------------------------------------------
(* Properties                                                              *)

Asked == CASE cdsCommand.name \in Single -> {1} [] OTHER -> tenants

\* A command that reports success has been carried out for every tenant: it was
\* in exactly one unit of work, on an instance that exists, whose request the
\* application has acted on, no poll saw its task failed, and the task has
\* finished.  The code looks at the status of the tasks and not of the job, so it
\* lets two cases pass: a job that a poll finds still queued, and one that failed
\* although none of its tasks did.
OkMeansDone ==
    cdsOutcome = "ok" =>
        \A t \in Asked :
            \E u \in Unit :
                /\ IsSplit => u <= instances
                /\ \A v \in Unit : t \in part[v] <=> v = u
                /\ cdsRequest[u].acted = 1
                /\ cdsCommand.name \in Upgrades =>
                     /\ seen[u].task[t] # "FAILED"
                     /\ seen[u].job \notin {"QUEUED", "FAILED"} => task[t] = "FINISHED"

\* Errors of one instance do not abandon the others: at the end nothing is
\* underway or untried.
NothingAbandoned ==
    cdsPhase = "ended" /\ part # [u \in Unit |-> {}] =>
        \A u \in Unit : stage[u] \in Over /\ ~R!Pending(u)

\* A job is given up only when none of its tasks went on for the whole time.
GivenUpOnlyIfStalled ==
    \A u \in Unit : unchanged[u] >= ChangeTimeout => stalled[u] > ChangeTimeout

\* A command comes to an end, also when its jobs do not.
CommandEnds == <>(cdsPhase = "ended")
=============================================================================
