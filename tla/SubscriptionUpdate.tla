------------------------ MODULE SubscriptionUpdate ------------------------
(***************************************************************************)
(* The commands of src/src/submodules/tenantRegistry.js that change        *)
(* subscriptions: update, update all, update url, migrate, offboard and    *)
(* offboard skip.  A command lists the subscriptions of the configured     *)
(* sources page by page, selects from what was listed, and sends one       *)
(* request for each selected one, at most RegConcurrency at the same time. *)
(* Most requests start a job, which is polled until it is final.           *)
(*                                                                         *)
(* The two services are external: their subscriptions, jobs and responses. *)
(***************************************************************************)
EXTENDS Integers, FiniteSets

CONSTANTS
    Subscription,     \* subscriptions that may exist
    Named,            \* bound: tenants that commands are called for
    TenantOf,         \* the tenant of a subscription, with a subdomain of its own
    SourceOf,         \* the source of a subscription
    Stale,            \* those that were not updated today
    PageSize,         \* REGISTRY_PAGE_SIZE
    RegConcurrency,   \* MTX_REG_CONCURRENCY
    MaxSubscriptions, \* bound: subscriptions that exist
    RegMaxAttempts,   \* RETRY_MAX_ATTEMPTS, as few as a retry needs
    RetrySleepBase, RetryAfterMax

VARIABLES
    existing,   \* the subscriptions in the services and their states
    configured, \* sources of which the context has information
    regCommand, \* the command and its arguments
    regPhase,   \* "listing", "working" or "ended"
    reading,    \* sources whose pages are being read
    regListed,  \* subscriptions that were read
    mark,       \* how far the call of a subscription is
    regJob,     \* the jobs in the services
    regRequest, \* the request of every subscription, see Request
    regOutcome  \* "none", "ok" or "failed"

vars == <<existing, configured, regCommand, regPhase, reading, regListed, mark, regJob,
          regRequest, regOutcome>>
setting == <<existing, configured, regCommand>>

R == INSTANCE Request WITH Client <- Subscription, request <- regRequest,
                           RetryMaxAttempts <- RegMaxAttempts, Waits <- {}

Sms == "SUBSCRIPTION_MANAGER"
Reg == "SAAS_REGISTRY"
\* IN_PROCESS stands for all states that cannot be updated.
State == {"IN_PROCESS", "SUBSCRIBED", "UPDATE_FAILED"}
UpdatableStates == {"SUBSCRIBED", "UPDATE_FAILED"}

UpdateCommands == {"update", "updateAll", "updateUrl"}
TenantCommands == {"migrate", "offboard", "offboardSkip"}

\* A command names a tenant, by id or by subdomain, or selects among all.
NamesTenant(named) ==
    [name : named, tenant : {{t} : t \in Named}, isUUID : BOOLEAN,
     onlyFailed : {FALSE}, onlyStale : {FALSE}]
SelectsAmongAll(named) ==
    [name : named, tenant : {{}}, isUUID : {FALSE}, onlyFailed : BOOLEAN, onlyStale : BOOLEAN]
Command == NamesTenant(TenantCommands \cup {"update", "updateUrl"})
               \cup SelectsAmongAll({"updateAll", "updateUrl"})

Marks == {"none", "queued", "calling", "polling", "success", "failure"}

TypeOK ==
    /\ existing \in [Subscription -> State \cup {"absent"}]
    /\ configured \subseteq {Sms, Reg}
    /\ regCommand \in Command
    /\ regPhase \in {"listing", "working", "ended"}
    /\ reading \subseteq configured
    /\ regListed \subseteq Subscription
    /\ mark \in [Subscription -> Marks]
    /\ regJob \in [Subscription -> {"none", "running", "succeeded", "failed"}]
    /\ R!TypeOK
    /\ regOutcome \in {"none", "ok", "failed"}

Begin(first) ==
    /\ regPhase = first
    /\ reading = configured
    /\ regListed = {}
    /\ mark = [s \in Subscription |-> "none"]
    /\ regJob = [s \in Subscription |-> "none"]
    /\ R!Init
    /\ regOutcome = "none"

Init ==
    /\ existing \in [Subscription -> State \cup {"absent"}]
    /\ Cardinality({s \in Subscription : existing[s] # "absent"}) <= MaxSubscriptions
    /\ configured \in SUBSET {Sms, Reg}
    /\ regCommand \in Command
    /\ Begin("listing")

\* No command of this module is run.
Idle ==
    /\ existing = [s \in Subscription |-> "absent"]
    /\ configured = {}
    /\ regCommand = CHOOSE c \in Command : c.name = "updateAll"
    /\ Begin("ended")

-----------------------------------------------------------------------------
Fail == regPhase' = "ended" /\ regOutcome' = "failed"

\* What the command asks before it sends anything.
Admissible ==
    /\ configured # {}
    /\ regCommand.name = "migrate" => configured = {Sms, Reg}
    /\ regCommand.name \in TenantCommands => regCommand.isUUID

Refuse ==
    /\ regPhase = "listing" /\ ~Admissible
    /\ Fail
    /\ UNCHANGED <<setting, reading, regListed, mark, regJob, regRequest>>

\* What a source returns: with a tenant id the query filters.
Queried(source) ==
    {s \in Subscription : /\ existing[s] # "absent" /\ SourceOf[s] = source
                          /\ regCommand.isUUID => TenantOf[s] \in regCommand.tenant}

\* Mutant of ListPage: the cursor to the next page is not followed.
ListFirstPage(source) ==
    /\ regPhase = "listing" /\ Admissible /\ source \in reading
    /\ \E page \in SUBSET Queried(source) :
         /\ Cardinality(page) <= PageSize
         /\ regListed' = regListed \cup page
    /\ reading' = reading \ {source}
    /\ UNCHANGED <<setting, regPhase, mark, regJob, regRequest, regOutcome>>

\* The next page of a source, the last one if it brings the rest.
ListPage(source) ==
    /\ regPhase = "listing" /\ Admissible /\ source \in reading
    /\ LET unread == Queried(source) \ regListed
       IN \E page \in SUBSET unread :
            /\ Cardinality(page) <= PageSize
            /\ page = {} => unread = {}
            /\ regListed' = regListed \cup page
            /\ reading' = IF page = unread THEN reading \ {source} ELSE reading
    /\ UNCHANGED <<setting, regPhase, mark, regJob, regRequest, regOutcome>>

ListFails ==
    /\ regPhase = "listing" /\ Admissible /\ reading # {}
    /\ Fail
    /\ UNCHANGED <<setting, reading, regListed, mark, regJob, regRequest>>

\* _filterNormalizedSubscription
Filtered(subscriptions) ==
    {s \in subscriptions :
        /\ regCommand.tenant # {} => TenantOf[s] \in regCommand.tenant
        /\ regCommand.onlyFailed => existing[s] = "UPDATE_FAILED"
        /\ regCommand.tenant = {} => existing[s] \in UpdatableStates
        /\ regCommand.onlyStale => s \in Stale}

\* Mutant of Unique: the first of several subscriptions will do.
SomeSubscription(subscriptions) == subscriptions # {}

\* _resolveUniqueSubscription
Unique(subscriptions) == Cardinality(subscriptions) = 1

\* Commands for one tenant need its only subscription, most of them in the
\* registry.
Callable(subscriptions) ==
    regCommand.name \in TenantCommands =>
        /\ Unique(subscriptions)
        /\ regCommand.name # "offboard" => \A s \in subscriptions : SourceOf[s] = Reg

\* All pages are there; without anything selected the command is over.
Select ==
    /\ regPhase = "listing" /\ Admissible /\ reading = {}
    /\ IF Callable(Filtered(regListed))
       THEN /\ mark' = [s \in Subscription |->
                           IF s \in Filtered(regListed) THEN "queued" ELSE "none"]
            /\ regPhase' = "working"
            /\ UNCHANGED regOutcome
       ELSE Fail /\ UNCHANGED mark
    /\ UNCHANGED <<setting, reading, regListed, regJob, regRequest>>

-----------------------------------------------------------------------------
\* The source that is called, and whether the call is polled.
CalledSource(s) == IF regCommand.name = "migrate" THEN Sms ELSE SourceOf[s]
IsPoll == regCommand.name # "updateUrl"

InFlight == {s \in Subscription : mark[s] \in {"calling", "polling"}}

Call(s) ==
    /\ regPhase = "working"
    /\ mark[s] = "queued" /\ Cardinality(InFlight) < RegConcurrency
    /\ mark' = [mark EXCEPT ![s] = "calling"]
    /\ R!Send(s)
    /\ UNCHANGED <<setting, regPhase, reading, regListed, regJob, regOutcome>>

\* The request goes on; the service starts the job when it acts on it.
CallProceeds(s) ==
    /\ R!Proceed(s)
    /\ regJob' = [regJob EXCEPT ![s] =
           IF regRequest'[s].acted = regRequest[s].acted THEN @
           ELSE IF IsPoll THEN "running" ELSE "succeeded"]
    /\ UNCHANGED <<setting, regPhase, reading, regListed, mark, regOutcome>>

\* The call is over: an error is a mark, and so is a response that cannot be
\* polled for want of the right status or a location.
CallReturns(s, hasLocation) ==
    /\ mark[s] = "calling" /\ ~R!Pending(s)
    /\ mark' = [mark EXCEPT ![s] =
           CASE R!Rejected(s) -> "failure"
             [] R!Resolved(s) /\ ~IsPoll -> "success"
             [] R!Resolved(s) /\ IsPoll ->
                  IF regRequest[s].state = "accepted" /\ hasLocation THEN "polling" ELSE "failure"]
    /\ UNCHANGED <<setting, regPhase, reading, regListed, regJob, regRequest, regOutcome>>

\* What a poll of the job gets: a state, or no content of a deleted subscription.
\* That a subscription is in process as long as its job runs is external: the code
\* takes any SUBSCRIBED for the success of its call, also of one that deletes.
PollState(s) ==
    IF CalledSource(s) = Sms
    THEN CASE regJob[s] = "running" -> "IN_PROCESS"
           [] regJob[s] = "failed" -> "UPDATE_FAILED"
           [] regJob[s] = "succeeded" /\ regCommand.name = "offboard" -> "NO_CONTENT"
           [] regJob[s] = "succeeded" /\ regCommand.name # "offboard" -> "SUBSCRIBED"
    ELSE CASE regJob[s] = "running" -> "STARTED"
           [] regJob[s] = "failed" -> "FAILED"
           [] regJob[s] = "succeeded" -> "SUCCEEDED"

\* Any state but the one in process ends the polling.
PollMark(s) ==
    IF CalledSource(s) = Sms
    THEN CASE PollState(s) \in {"NO_CONTENT", "SUBSCRIBED"} -> "success"
           [] PollState(s) = "IN_PROCESS" -> "polling"
           [] OTHER -> "failure"
    ELSE CASE PollState(s) = "SUCCEEDED" -> "success"
           [] PollState(s) = "STARTED" -> "polling"
           [] OTHER -> "failure"

Poll(s) ==
    /\ mark[s] = "polling"
    /\ mark' = [mark EXCEPT ![s] = PollMark(s)]
    /\ UNCHANGED <<setting, regPhase, reading, regListed, regJob, regRequest, regOutcome>>

\* A poll request that is rejected, or a response without a state.
PollFails(s) ==
    /\ mark[s] = "polling"
    /\ mark' = [mark EXCEPT ![s] = "failure"]
    /\ UNCHANGED <<setting, regPhase, reading, regListed, regJob, regRequest, regOutcome>>

\* Mutant of Return: the command fails with the first failure.
ReturnAtFirstFailure ==
    /\ regPhase = "working"
    /\ \/ \E s \in Subscription : mark[s] = "failure"
       \/ \A s \in Subscription : mark[s] \in {"none", "success"}
    /\ regPhase' = "ended"
    /\ regOutcome' = IF \E s \in Subscription : mark[s] = "failure" THEN "failed" ELSE "ok"
    /\ UNCHANGED <<setting, reading, regListed, mark, regJob, regRequest>>

\* All are marked: the command fails if one of them failed.
Return ==
    /\ regPhase = "working"
    /\ \A s \in Subscription : mark[s] \in {"none", "success", "failure"}
    /\ regPhase' = "ended"
    /\ regOutcome' = IF \E s \in Subscription : mark[s] = "failure" THEN "failed" ELSE "ok"
    /\ UNCHANGED <<setting, reading, regListed, mark, regJob, regRequest>>

\* External: a service ends a job.
JobEnds(s, result) ==
    /\ regJob[s] = "running"
    /\ regJob' = [regJob EXCEPT ![s] = result]
    /\ UNCHANGED <<setting, regPhase, reading, regListed, mark, regRequest, regOutcome>>

-----------------------------------------------------------------------------
List == Refuse \/ (\E source \in {Sms, Reg} : ListPage(source)) \/ ListFails \/ Select
Submit(s) == \/ Call(s) \/ CallProceeds(s)
             \/ \E hasLocation \in BOOLEAN : CallReturns(s, hasLocation)
Finish(s) == \E result \in {"succeeded", "failed"} : JobEnds(s, result)

GoesOn == List \/ Return \/ \E s \in Subscription : Submit(s) \/ Poll(s) \/ Finish(s)

Next == GoesOn \/ \E s \in Subscription : PollFails(s)

\* The tool goes on, requests are answered, and jobs end.  Each of these steps is
\* taken at most a few times, so one need not be fair to each subscription; no
\* poll has to fail.
Fairness == WF_vars(GoesOn)

Spec == Init /\ [][Next]_vars /\ Fairness

-----------------------------------------------------------------------------
(* Properties                                                              *)

\* A command that reports success has changed every subscription that it is
\* about: whichever page and source it was on, its job has succeeded.
OkMeansDone ==
    regOutcome = "ok" =>
        \A s \in Filtered({s \in Subscription :
                            existing[s] # "absent" /\ SourceOf[s] \in configured}) :
            regRequest[s].acted = 1 /\ regJob[s] = "succeeded"

\* A failed subscription does not end the command before the others are
\* finished: at the end none is untried, underway or polled.
NothingAbandoned ==
    regPhase = "ended" =>
        \A s \in Subscription : mark[s] \in {"none", "success", "failure"} /\ ~R!Pending(s)

\* A subscription is migrated or offboarded only if it belongs to the tenant that
\* was named and is the only one of it, wherever the context knows to look.
OnlySubscription ==
    regCommand.name \in TenantCommands =>
        \A s \in Subscription : regRequest[s].acted > 0 =>
            /\ TenantOf[s] \in regCommand.tenant
            /\ \A other \in Subscription :
                 /\ existing[other] # "absent" /\ SourceOf[other] \in configured
                 /\ TenantOf[other] = TenantOf[s]
                 => other = s

\* A command comes to an end if the jobs do.
CommandEnds == <>(regPhase = "ended")
=============================================================================
