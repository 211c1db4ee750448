# Verification of mtx-tool

`mtx` is a command line tool that administrates multi-tenant CAP applications on Cloud Foundry.
One process runs one command. A command talks to remote platforms (service-manager, Cloud
Foundry, tenant registries, the CAP server), most of which accept a request and complete it
later on their own, so that the hard part of the tool is not what it computes but what happens
between its requests: many of them in flight, some refused, some lost, the process killed, the
command repeated.

This directory models that part in TLA+, checks it with TLC on small instances and proves the
most important properties with TLAPS for all values of the constants. Paths below are relative
to the repository.

## Inventory

| Component | State it keeps | Operations | Correct when | Status |
| --- | --- | --- | --- | --- |
| Normalization of bindings, `submodules/serviceManager.js` | snapshot of instances and bindings, queue of changes | make-bindings single and double; deprecated repair, refresh, fresh; delete; list | the most recent credentials survive, runs converge, nothing is left in progress | modelled; the lists only read |
| Rolling restart, `submodules/serviceManager.js`, `shared/cloud-foundry.js` | apps to restart, deployments polled | restart, restart-skip | success means every app was redeployed, no deployment is abandoned | modelled |
| Credential rotation, `docs/service-manager/index.md` | step of the choreography; credentials in the memory of apps | five commands, each repeated until it succeeds | no app ever holds withdrawn credentials, the rotation completes | modelled |
| Service-manager client, `shared/service-manager.js` | none of its own (memoized offerings and plans) | paginated listing, request with polling | every final operation state ends the poll | as used by the commands |
| Cloud Foundry client, `shared/cloud-foundry.js` | memoized apps and token | listing, deployments, environment, ssh | a deployment other than DEPLOYED is an error | restart and lookup of apps |
| Funnel, `shared/funnel.js` | free capacity, running callbacks, queue | run, enqueue, milestone, dequeueAll, limiter | loads stay in the limit, no lost wake-up, all results | modelled |
| Execution control, `shared/execution-control.js` | memoized result, running promise, chain | makeOneTime with reset, coalescing, queueing | one execution at a time, a failure is retried | modelled |
| Caches, `shared/cache.js` | entries, expirations | get, set, getSetCb, delete | one callback per entry, no stale value, failures removed | modelled |
| Requests, `shared/request.js` | attempt | retry by mode, Retry-After | attempts and waits bounded, no retry of a success | modelled |
| Context, `context.js`, `shared/oauth.js` | cache file shared by processes, token caches | read, write, resolve apps | an entry is not older than its gap, and lost only where two processes write at once | files, memory and choice of the app modelled |
| Tenant registry, `submodules/tenantRegistry.js` | none; remote jobs | call and poll, update all, offboard, migrate | a job is awaited, all failures are named | modelled; the lists only read |
| CAP multitenancy, `submodules/capMultitenancy.js` | progress of a job | onboard, upgrade, offboard | all tenants once, stalled jobs given up | modelled; the lists only read |
| Command line, `cli.js`, `commands.js` | none | choose and check a command | dangerous commands are guarded | modelled |
| Setup, `submodules/setup.js`, `config.js` | configuration and cache files | write, resolve, clean | an interrupted dialogue writes nothing, no cache is left behind | modelled |
| HANA management, user authentication, server diagnostic | none | listings, tunnels, one token | output only | not modelled: I/O without state |
| Trimming of recorded traffic (`test-nock-record/util/trimAndAnonymize.js`) | none | anonymize fixtures | output only | not modelled: not part of the tool |
| Formatting, logging (`shared/static.js`, `shared/logger.js`) | none | tables, dates, strings | output only | not modelled, but the helpers other parts rest on are |

All commands reach the platforms through `shared/request.js`, bound their concurrency with
`shared/funnel.js`, and share memoized lookups of the context. Two commands never share memory:
they interact through the platforms and, for at most four hours per entry, through the persisted cache file.

What makes the code hard to test: the listing a command decides on is old when it acts (stale
state); one of many concurrent requests fails (partial failure); a request is accepted but its
response is lost, or the process dies (retry on top of operations in progress); polls without a
deadline (liveness); a protocol of five commands whose safety rests on their order; calls that are
woken together and compete for capacity. `PROJECT.json` lists each hazard at its line together
with the properties that cover it.

## Modules

| Module | Models |
| --- | --- |
| `NormalizeBindings` | make-bindings single and double against the service-manager |
| `CredentialPool` | abstract specification: what these commands promise about credentials |
| `RollingRestart` | restart and restart-skip against Cloud Foundry |
| `CredentialRotation` | composes both with the apps' memory and the operator |
| `Funnel` | `Funnel`, `FunnelQueue` and `limiter` |
| `SharedExecution` | one callback behind each wrapper of execution control and each cache |
| `Request` | the retry loop of a request |
| `SubscriptionUpdate` | commands of the tenant registry |
| `TenantUpgrade` | commands of CAP multitenancy |
| `ServiceManagerDelete` | the delete commands of the service-manager |
| `RemoteCommand` | composes the last four: the command that a process was asked for |
| `CommandLine` | the table of commands, and how a call takes its arguments |
| `Tool` | extends it: processes with their shared configuration and cache files, and the setup |
| `NormalizeBindingsProofs` | theorems about `NormalizeBindings`, among them the refinement of `CredentialPool` |
| `RollingRestartProofs` | theorems about `RollingRestart` |
| `CredentialRotationProofs` | theorems about `CredentialRotation`, which build on the two above |
| `FunnelProofs` | theorems about `Funnel` |
| `SharedExecutionProofs` | theorems about `SharedExecution` |
| `RequestProofs` | theorems about `Request` |
| `RemoteCommandProofs` | theorems about `RemoteCommand` and its parts, which build on the one above |
| `ToolProofs` | theorems about `Tool` and `CommandLine` |
| `MC...` | values of the constants for TLC |

Definitions that are called mutants are deliberately wrong variants of the definition below them,
each as a plausible slip in the code would be. No specification uses them; they document which
mistake which property finds.

### NormalizeBindings

`Start` is a call of `serviceManagerMakeBindingsSingle` or `-Double`, with `target` its
`targetCount` and `scope` what the arguments SERVICE_PLAN and TENANT_ID select. `Read` is the
arrival of the listings together with all that follows without an await: partition, sort and the
enqueuing of the changes; `seen` is the snapshot and `waiting` the changes not requested yet.
`Ready` is the order in which the `FunnelQueue` starts them: all loads are 1, and all calls are
enqueued before the first settles, so that nobody barges in, nothing interrupts, and calls start in calling order
(`ResumedInOrder` of `Funnel`, for any number of calls by `LightInOrder`). Changes of the same kind and instance are interchangeable here except for their
argument, so their order is left open. `Submit` is a request with the response 202: request and acceptance
are one step, so that creations are accepted in the order of their requests, which no property depends on. `polling` is the
set of operations that are polled, `Poll` the poll that ends one, `Finish` the end of
`dequeueAll`.

External, modelled as the code uses it: the service-manager accepts a request, refuses to delete a
binding that is busy or gone, and completes or fails operations; a binding gets its time stamp
when its creation completes and no two get the same.

Two counters separate two kinds of fault. A *refusal* is definitive: a listing that cannot be
read, a request that is not accepted (all attempts of `shared/request.js` count as one request),
an operation that ends as failed. A *late fault* leaves an operation going on that nobody waits for: a
lost response, a failed poll request, a killed process. Several properties hold only without late
faults, and the runs with `_late` and `_unusable` in their name show why.

Abstractions: the two listings and their pages are taken as one snapshot; labels, parameters,
plans and credentials are left out; a poll is the step in which its answer is final, answers in
between change nothing.

### RollingRestart

`List` is `getBoundApps` with the filter of `_serviceManagerRestart`, `Submit` the POST of a
deployment, `Poll` a poll that finds it FINALIZED, `PollFails` a failed request or the deadline.
Apps start and stop at any time. Cloud Foundry finalizes a deployment as deployed or as canceled;
a new deployment of an app supersedes the earlier one. The order in which Cloud Foundry lists the apps is left
open, and so is the order of their restarts.

### CredentialRotation

The operator launches the five commands in the documented order and repeats one that failed
(`Launch`, `Observe`). An app caches the credentials it has used per instance: `held` are those of
its old processes, `fresh` those of the processes that an active deployment adds. `Load` takes the most
recent binding, which is what the documentation of the choreography relies on. `Restart!Start` runs
again whenever a step is repeated, also on top of an active deployment.

### Funnel

`Check` is one pass of the `while` loop of `run`, up to its next await. `Settle` ends a callback:
its load is given back, and the calls that raced on it become `resumed`, to check again one right
after the other. Before the first of them, other callbacks can settle and other calls arrive. Between the
turns of two calls nothing comes if one callback has woken both (`draining` is `"together"`): their races end with the
same promise, so that their continuations are microtasks in a row. If different callbacks have, others may come in
between (`"apart"`), and `interrupted` records that this has happened. `raced` of a resumed call is the callback that
woke it. The order in which calls went to sleep, and in which they are
resumed, is the relation `before` on the calls. `DequeueAll` and `DequeueReturns` are the two ends of
`dequeueAll`. `limiter` is `Enqueue` for every payload followed by `DequeueAll`.

Calls of the same load do not always resume in calling order. A call that arrives between the end of a callback
and the turn of those it wakes can take the free place; the earlier call then goes to sleep behind a later one, which
raced on other callbacks and may overtake it when these end. Heavier calls of equal load overtake each other even
without that. `ResumedInOrder` says what does hold, for load 1, if nobody barges in and nothing comes between the turns of
resumed calls. No caller in `src/` is affected: all of them enqueue at once, with load 1. A sleeping call of load 1 races on
all that run, so that the first callback to end wakes all calls that sleep, and they take their turns together.

Not modelled: a callback that calls `run` of its own funnel (no code of the repository does), and
`milestone`, which only waits.

### SharedExecution

One slot and its callers. `kind` selects `makeOneTime`, `makeExclusiveCoalescing`,
`makeExclusiveQueueing`, or an entry of `LazyCache` or `ExpiringLazyCache` under `getSetCb`; keys do
not influence each other, so one entry stands for all. `CallExecutes` runs the callback and stores
its promise, `CallShares` returns what is stored, `CallQueues` appends to the chain. `Settle` is the
promise of the callback, `Resolved` and `Rejected` the handlers of the wrapper, which run in a later
microtask, and `Answer` resumes a caller: others may call in between. `CallReturns` is a callback
without a promise, as the context uses it for the name of an app; no code in `src/` uses one with an
expiring cache, or deletes from one. `Reset` is `resetMakeOneTime`, `delete` or `clear`.

A failure empties the slot also when a newer execution is in it by then (`execution-control.js:29`,
`cache.js:42`). What is lost is that the newer result is shared: `OnceWhileValid` counts this as an
execution owed to a failure.

### Request, SubscriptionUpdate, TenantUpgrade, ServiceManagerDelete, RemoteCommand

`Request` is the loop of `_request`. `Send` stands for the building of the request and the first
`fetch`, `RespondRetry` for a response after which it sleeps, `Wake` for the next attempt,
`RespondFinally` for the last response, `Break` for a connection that fails. A server that answers
with a good status has acted once; one that answers with 429 has not; after any other error
either is possible. `SubscriptionUpdate` and `TenantUpgrade` take their requests from it with
INSTANCE, one client per subscription or unit of work; the service starts a job in the step in
which it acts.

`SubscriptionUpdate`: `ListPage` reads a page of either source, in any order of the two, `Select`
filters what was read. `Call`, `CallProceeds`, `CallReturns` and `Poll` are `_callAndPollAndMark`,
under the limit of the `limiter`, and `Return` its end. Admissibility, uniqueness and the source that is called
are asked per command as the code does. External: as long as the job of a subscription runs, the subscription manager has it
as in process. The code takes any subscription that it finds subscribed for a success, also after a DELETE
(`tenantRegistry.js:318-323`).

`TenantUpgrade`: a unit of work is one call of `_cdsUpgradeMtxs` for a part of the tenants, or one
on- or offboarding. `TaskSummary`, `unchanged` and `PollRunning` are the polling loop with its timeout,
counted in polls. `stalled` and `seen` are not in the code: they record how long in fact no
task went on, and what the last poll of the unit saw. External: the application, whose tasks may stand still for ever
and whose jobs end with their tasks or fail before them (`JobFails`).

`ServiceManagerDelete`: two listings in any order, the deletion of the bindings of listed
instances, then that of the instances. `Delete` sums up a request; others may create
bindings at any time, and the service-manager does not delete an instance that has one.

`RemoteCommand` is one process with one of these commands. The others stay in a state in which
nothing is to be done (`Idle`). Its last initial state is a request by itself with the numbers of the code, in seconds:
5 attempts, 6 s, 5 min.

### CommandLine and Tool

`CommandLine` is a transcription of the table: arguments, context, danger, use of the cache, read-only.
`PassArgs` is the loop that puts arguments from the environment between those typed. A typed argument is
its position, which is all that matters. `Groups` are the sections of the table, and `Commands` looks a command up
in them.

`SceneAssumption` says what `Init` may find: any commands, environments, configurations, deployed apps. The
instance combines some of these.

`Tool` has several processes. `Call` is `checkOption` up to the consent or the command, for calls that are accepted;
one that is refused changes nothing. `LookUp` is the first half of `getRawAppInfoCached`: the
memory, then the file unless the command must not use it; `GetApps` and `GetRawAppInfo` collect the information
from Cloud Foundry and read the file again; `TruncateCache` and `WriteCache` are the two halves of `writeFileSync`, between
which another process may read an empty file or write its own, so that the content is lost or mixed up and unreadable, which
counts as empty; or remove the file, so that the rest is written to one without a name (`WriteUnlinked`), also if another
was created at its place. `Interrupt`, `TruncateConfig`, `WriteConfig` and `Answer` are the dialogue, `Search` and
`RemoveCache` the loop of `setupCleanCache`. `End` is the end of a process at any point, so that
each file operation may be the last one. What a command does with an app is in the other modules.

Abstractions: all processes target one organization and space; the candidates of `getAppByName` are the
suffixes, of which the pattern for a UUID is left out in the instance; the settings with a key of their own in
`config.js` have no place in `CONFIG_INFOS` and none here. An unreadable file and an empty one are the same, so that where
three processes write at once, a file may come out readable that is mixed up in fact; this adds no entries that
nobody wrote. `disturbed` is not in the code: it records that another process has written to a file on the
path of one that removes caches, or to the file that one is about to write.

## Runs

| Run | Question | Bounds |
| --- | --- | --- |
| `normalize` | Do any sequences of single and double keep the most recent binding, converge, leave nothing in progress and end? | 1 instance, up to 3 bindings before and 4 in all, 2 changes at a time, 1 refusal, 1 late fault |
| `pool` | Do they implement `CredentialPool`, also with filters and an unusable instance? | 3 instances, up to 3 bindings before and 5 in all, 1 refusal |
| `exact` | violated: does double reach two bindings? | 3 bindings before, no fault |
| `unusable` | violated: is only what is unusable cleaned up? | a creation in progress before, no fault |
| `rotation` | Do credentials in memory stay valid during the rotation, and does it complete? | 1 instance, 1 app, up to 2 bindings before and 7 in all, 1 refusal, 1 late fault |
| `rotation_late` | violated: does a retry of step 3 spare what is in memory? | 1 binding before, 3 in all, 1 late fault |
| `restart` | Does success mean deployed, and is nothing abandoned? | 3 apps, 1 skipped, 1 restart at a time, 1 refusal, 1 late fault |
| `funnel` | capacity, overbooking, wake-ups, results, order, termination | 5 calls with loads 4, 0, 2, 1, 1, where 0 counts as 1; limit 3 |
| `shared` | Is one callback executed only when needed and not at the same time, is what is served fresh, is everyone answered? | 2 callers, 3 executions, 1 reset, gap 1, lifetimes 0 to 2, time 3 |
| `remote` | Does success mean done, is nothing repeated, abandoned or destroyed by mistake, does the command end? | up to 2 of 3 subscriptions in 2 sources, pages of 1; 2 tenants, 2 app instances, timeout of 1 poll; 3 instances, 2 bindings, 1 created meanwhile; 2 attempts, 5 for a request by itself |
| `tool` | Is what a command works with valid, are its arguments in place, are files as meant, are entries kept? | 2 processes, 2 directories, 2 apps, 3 calls, 2 ticks, 1 deployment, 2 versions |
| `live` | violated: do commands that change something leave live apps alone? | as `tool` |

Why the bounds are enough for the questions: a run treats instances independently except for the
order of the queue, and `pool` has three of them with more changes than slots. Three bindings
are the least at which pruning to one and pruning to the target differ. One refusal and one
late fault already let a run fail at every point, with other changes running, and be
repeated; the proofs have no bound on either. Seven bindings let every step of the rotation create, fail and be
repeated. Limit 3 with loads 1, 2 and 4 gives partial fits, exhaustion and overbooking, and three
calls of load 1 can overtake each other where one barges in.

In `shared`, three executions are one that fails late, one that replaces it, and the one that has to be repeated
for it; of two callers, one executes and one shares or comes late. In `remote`, pages of one
subscription make a second page; two subscriptions may be of one tenant in both sources, or of two; two
attempts are one that is retried and one that may not be. Two tenants and two instances
are too few for a split with a part that is not full: `SplitIsPartition` proves it for every number.
In `tool`, the scenes limit which commands are combined: every command by itself with all
arguments, those of each kind that share a cache, the removal of caches with a second version and
directory, and the setup while others work. Two ticks pass the gap of one.

`CHECK_DEADLOCK FALSE` is set where the system really stops: in `NormalizeBindings` when `MaxBindings` leaves no
room for another run, in `Funnel` and `SharedExecution` when all calls are settled, in `RemoteCommand` when the
command is over, in `Tool` when no calls are left.

### What the properties say

* `MostRecentSurvives`: the comment at `serviceManager.js:228` calls it load-bearing. It relates
  the snapshot of a run to the state of the service-manager until the next snapshot, through every fault.
* `Converges`, `CountsPerStep`: what is left after a successful run, and after the steps of the
  rotation, although any of them failed before.
* `QuietAtRest`, `NothingActiveAtRest`: a run that fails has still waited for everything it
  started. It is the reason why retrying is safe, and it would be lost with `Promise.all`.
* `CredentialsValid`, `FleetOnNewest`: zero downtime. The second is the invariant in front of each pruning that
  makes the first true.
* `KeepsNewest`: the refinement of `CredentialPool`.
* `NoLostWakeup`, `OverbookedAlone`, `CapacityAccounted`, `ResumedInOrder`, `ResultOfAll`: the
  synchronisation of the funnel.
* `OnceWhileValid`, `ServedFresh`, `FreshAfterReset`, `OneAtATime`: a memoized result is neither fetched twice
  nor served beyond its time, whichever way calls, failures and resets interleave.
* `ActedAtMostOnce`: the loop may repeat a request that changes something only because it does so
  after no answer but 429. `BoundedSleep`: nor can a header hold it up.
* `OkMeansDone`: relates the outcome of a command to the state of the services, over pages, sources,
  splits and jobs. Two cases are exempt, as the code has them (`capMultitenancy.js:221-247`): a job that a poll finds still
  queued ends the polling of an upgrade, and one that failed is judged by its tasks only; the command succeeds.
* `NothingAbandoned`, `DestroysOnlyMeant`, `GivenUpOnlyIfStalled`: no command leaves early with
  others underway, deletes or moves what it did not single out, or gives up a job that goes on.
* `WorksWithValid`: whatever is done to the cache file meanwhile, a command works with an entry of the
  right name, version and age, and one that must not use the cache with its own.
* `EntriesKept`: two processes that store at once lose entries of each other, because the file is read, changed and
  written without a lock. Nothing else loses any: an entry that another command has stored before survives.
* `RunsAsAsked`, `FilesAsMeant`: arguments and consent; an interrupted dialogue, and the removal of caches against
  concurrent writers. The write of a configuration is not protected: a process that ends between its two steps leaves an
  empty file, and the earlier configuration is lost. The property says that no more than this can happen.
* `ServedFresh` is about the moment at which a value is handed out. For how long a caller goes on using it is covered by no
  property; the gap is what the code has against that.
* `RunEnds`, `RestartEnds`, `RotationCompletes`, `AllSettle`, `AllAnswered`, `CommandEnds`: liveness.

### Disagreements between code and documentation

1. `exact`: above the target the code prunes to one binding, also for double
   (`serviceManager.js:232`), while `docs/service-manager/index.md:89-91` promises exactly two.
2. `rotation_late`: consequence for the rotation. Step 3 creates a binding and the response is
   lost; its retry creates another one and fails when it deletes the first, which is busy; the next retry sees
   three and prunes all but the newest, although apps hold the oldest until step 4. The
   documentation says that every step can be retried and that credentials in memory stay valid.
3. `unusable`: a creation in progress in the listing counts as failed; its binding is deleted
   after it has succeeded. The code has a TODO at this place.

4. `live`: the cache file is keyed by the name in the settings. What a read-only command resolved
   to an app with the suffix `-live` is used by a later command that changes something, while
   `docs/tool-setup/index.md:94-95` says that such commands do not use it. The comment at
   `cloud-foundry.js:237-238` explains why the cache in memory is safe; the file outlives the process.
   `WorksWithValid` contains what does hold: commands that do not use the cache never get there.

Smaller ones, without a run: the documentation gives entries of the cache 12 hours, the code 4
(`context.js:33`); the comment above `_parseRetryAfter` says null beyond the maximum, the code takes the
maximum (`request.js:90`); "divide them up equally" can leave an app instance without tenants
(`balancedSplit` of 4 over 3 gives 2, 2, 0); the documented default of `MTX_REG_CONCURRENCY` is 10, the one in
the code 6.

## Fairness

The process runs on (`Proceed`): Node's event loop resumes every settled promise, and the polling
loops poll again after a sleep. The platforms complete what they accepted (`Complete`); the tool
has no deadline for the service-manager, so without this no run ends. Weak fairness is enough, for no
step of these kinds is disabled again by another one before it happens, except by its
own completion. The operator of the rotation is fair, since the property is about an operator who carries on. Starting a run, using an app and every
fault are not fair: they need not happen. Callbacks of the funnel settle, which is the
assumption under which a funnel can promise anything.

In `SharedExecution` callbacks settle and continuations run. In `RemoteCommand` the tool goes on,
requests are answered, and jobs of the registry and operations of the service-manager end, because the tool has no deadline for them (`GoesOn`);
tasks of an upgrade need not go on, since the tool does have one there. `GoesOn` is one
disjunction: each of its steps is taken only finitely often, so that it needs no fairness
per subscription. `Tool` has no liveness: a process may wait for its user for ever.

## Proofs

Each theorem holds for every value of the constants that satisfies the named assumptions in the
modules: any finite set of instances or apps, any target counts, any concurrency, any loads, any number of bindings,
calls, callers, tenants, processes and faults. Every invariant and action property that a passing run checks is a theorem.

Two techniques recur. Induction over numbers is by a least counterexample, because the theorems of the library
cannot be instantiated: of functions that are defined by recursion it is first shown that a solution exists. Sums
are cardinalities: of the units that calls take (`SumIsUnits`), or of the tasks in a state.

About `NormalizeBindings` and `CredentialPool`:

* `TypeCorrect`: `TypeOK` is inductive.
* `MostRecentIsKept`: `MostRecentSurvives` is not inductive, because a state could have the
  deletion of the most recent binding in its queue. `SurvivalInv` adds that bindings beyond
  `issued` do not exist, that a binding listed as succeeded is succeeded, being deleted, deleted or failed to be
  and was issued, and that no queued or requested change deletes a most recent binding. `ChangesShape` shows the
  last for a new snapshot: what is pruned is not most recent, what is cleaned up not
  succeeded.
* `NothingLeftBehind`: without late faults, whatever is in progress is being polled, and nothing is
  polled at rest (`RestInv`). Assumes that nothing is in progress before the first run.
* `RunConverges`: a successful run leaves the target count, or one where it pruned. `ConvergeInv` accounts for every
  binding of the snapshot and every creation: unless something was refused it is still queued, still polled, or
  done (`RunAccounted`); what is gone stays gone, and time stamps only grow.
* `ImplementsPool`: the initial states map to initial states, every step to an addition, a
  withdrawal or a stutter. A deletion of succeeded credentials is a pruning of a binding older
  than one that is alive (`PoolInv`). Assumes `MaxLate = 0`: with late faults the refinement fails, which is what
  `rotation_late` and `unusable` show.

About `RollingRestart`:

* `SuccessIsComplete` and `NothingLeftActive`: unless something was rejected each app of a
  run is still to be deployed, polled or deployed (`Accounted`); without late faults whatever is active is polled
  (`ActiveIsPolled`). `RestartTypeCorrect` is `TypeOK`.

About `CredentialRotation`, whose proof instantiates those of the two modules it composes and adds that
their steps are steps of the composition:

* `ZeroDowntime`: `CredentialsValid` is true because of what happened several commands before. `RotationInv`
  consists of the invariants of the commands (`RunInv`, `IInv`), of whose turn it is (`Turns`), and of `Choreography`:
  during a restart nothing becomes newer, and an app that does not hold the newest is still to be restarted
  (`Restarting`); adding the second binding prunes none (`Doubling`); apps that were restarted hold nothing withdrawn (`ValidHeld`).
  Assumes what the documentation of the choreography tells the operator: nothing is in progress at first, every command is for
  at least the usable instances, no app is skipped. The property itself is about runs without late faults;
  `rotation_late` shows why.
* `PrunesBehindTheFleet` and `StepsCount`: `FleetOnNewest` and `CountsPerStep`, without the last assumption: they are
  about apps that are not skipped, and about bindings.
* `RotationTypeCorrect`: `TypeOK` of the composition. It is only proved; the runs check it for each of the two modules that
  it composes.

About `Funnel`:

* `CapacityIsAccounted`, `OverbookersAreAlone`, `NoneSleepsOn`: for any loads and limit. `LoadInv` adds what makes this
  inductive: those that a sleeping call races on all still run, and by themselves leave too little for
  it. Without it a call could sleep on callbacks of which some have ended.
* `LightInOrder`: `OrderInv` says that only calls that waited have raced, that a call of load 1 races on all that
  run, that there is room for it when it is resumed unless somebody barges in or interrupts, and that of two such calls the first is never
  behind.
* `DequeueIsComplete`: `ResultInv` adds that a settled call keeps its
  outcome and that queue and batch list the calls in calling order, so that the first rejection of the
  batch is the least.
* `FunnelTypeCorrect`.

About `SharedExecution`, from one invariant, `IInv` of `SharedExecutionProofs`, with a lemma per action:

* `NoOverlap`: `SingleInv` says of a coalescing wrapper and of an expiring entry that what is no longer stored
  has ended; `QueueingInv` that everything before an execution that has begun has ended; `MemoInv` that
  executions that neither failed nor are stored are as few as the resets. The last is why a late rejection,
  which empties the slot although another execution is stored, does no harm: it is one fewer itself.
* `NoneInVain` and `StoredIsValid`: `ExpiringInv` adds that a pending entry never expires, that a
  stored expiration is that of the result or the result is over already, and that all executions that were
  replaced had expired. They assume that the gap is not 0, as in the code: with a gap of 0 a result without
  a lifetime is replaced at once.
* `ResetIsRespected`: what is stored began after the last reset (`SlotInv`), and so did what callers
  await since their call (`CallerInv`).
* `TypeCorrect`.

About `Request` and `RemoteCommand`. The commands take the steps of a request among their own, so that the lemmas of
`RequestProofs` are instantiated for each of them:

* `ActsOnce` and `CommandsActOnce`: as long as a request may be sent again, its server has not acted
  (`NotYetActed`).
* `SleepIsBounded`: what was slept so far is at most the longest sleeps of the attempts so far (`Slept`), whose sum is a
  recursive function.
* `SuccessIsComplete`: `RegistryInv` relates the state of the services to the marks of the calls, and these to what was
  selected from everything that is listed; `CdsInv` every unit of work to its part of the tenants and what was last
  seen of them; `ServiceManagerInv` what the tool takes for deleted to what is gone for good.
* `NoneIsAbandoned`, `OthersAreSpared`: from the same invariants; the second says of a tenant command that what it acts on
  belongs to the tenant that was named, too. `ProgressIsNoticed` rests on `Watched`: every
  task that goes on makes the summary heavier, so that a summary that stays the same means that none did, although
  only counts are compared.
* `SplitIsPartition`: the parts of `balancedSplit` are intervals of equal length that reach the last tenant,
  which is arithmetic about a division that is rounded up. `CommandsTypeCorrect` is `TypeOK`.

About `CommandLine` and `Tool`:

* `OnlyValid`: entries in all files, and in what is going to be written, are stored for the name of their app
  (`FilesInv`), and information is valid when it is taken and is dropped with the process (`InfoInv`). It holds for
  any number of processes because nothing else is asked of the files, however they are mixed up. Assumes that
  MTX_APP_SUFFIX is not the suffix of live apps.
* `AskedFor`: for every command of the table, any environment and any number of typed arguments. What the table has
  to satisfy is shown row by row (`CommandRows`): an argument with a variable is never optional. From this
  `ArgumentsInPlace` follows, over the loop of `PassArgs` (`MixedContent`): if the number of arguments is
  accepted, all are in their places, because nothing is put in behind the required ones. For an optional argument with a
  variable this would be false. `SetupIsHarmless` shows that the commands of the setup, which
  do not wait for consent, need none.
* `WrittenAsMeant`: a process writes only when all is answered (`Remembered`), and one that removes caches has left none
  behind it unless it was disturbed (`SweptInv`).
* `NothingElseLoses`: from the moment at which a process has read the file until its write, either another one has
  written to it or what the process holds covers what is in it (`KeptInv`).
* `ToolTypeCorrect`: from `SceneAssumption`, which only says of what types the first state is.

Only model-checked: liveness under fairness, which this proof system cannot treat, and the four violations.

## Not modelled

* The lists of all submodules, `reg-service-config`, the tokens and the certificates: they read, format and print.
* HANA management, user authentication and server diagnostic: tunnels and one token each, without state of the tool.
* `processRawAppInfo`: which binding of an app is used is decided by labels in one pass over data.
* The lifetime of the Cloud Foundry token: it is opaque to the tool, which fetches it once per process.
* The creation and update of service instances, which no command does.
* The log files of an upgrade, which are output, and the trimming of recorded traffic, which is not part of the tool.

## Plan

Every safety property of the passing runs is proved. What could still be proved: that runs of `RollingRestart` and of the
commands in `RemoteCommand` implement abstract specifications of their own, as `NormalizeBindings` does; and that
the queue of `NormalizeBindings` with its concurrency is a use of `Funnel`.
