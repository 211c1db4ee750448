-------------------------- MODULE SharedExecution --------------------------
(***************************************************************************)
(* What src/src/shared/execution-control.js and src/src/shared/cache.js    *)
(* do with one asynchronous callback and many callers: run it once, one at *)
(* a time or one after the other, and keep its promise in a slot that the  *)
(* callers share.  The slot is a property of the wrapped function or one   *)
(* entry of a cache; what differs is when it is filled and emptied.        *)
(*                                                                         *)
(* When the promise of a callback settles, the handler attached to it runs *)
(* in a microtask of its own, and those who await the promise of that      *)
(* handler are resumed later still.  In between, others may call.          *)
(***************************************************************************)
EXTENDS Naturals, FiniteSets

CONSTANTS
    Caller,         \* those who call the wrapped function or getSetCb
    Gap,            \* expirationGap of ExpiringLazyCache, nowhere 0
    Lifetimes,      \* how long a result may be valid, 0: no valid expiration
    MaxExecutions,  \* bound: executions of the callback
    MaxResets,      \* bound: calls of resetMakeOneTime, delete or clear
    MaxTime         \* bound: the clock

ASSUME SharedExecutionAssumption ==
    /\ Gap \in Nat \ {0} /\ Lifetimes \subseteq Nat
    /\ MaxExecutions \in Nat /\ MaxResets \in Nat /\ MaxTime \in Nat

Execution == 1..MaxExecutions
Kinds == {"oneTime", "coalescing", "queueing", "lazy", "expiring"}
Infinity == MaxTime + Gap

VARIABLES
    kind,       \* which wrapper or cache it is
    slot,       \* RESULT, RUNNING_PROMISE, CHAIN or the entry: an execution, 0 if none
    expires,    \* the expiration stored with the entry of an ExpiringLazyCache
    execution,  \* execution[e]: the e-th execution of the callback
    caller,     \* caller[c]: the latest call of c
    resets,
    now

vars == <<kind, slot, expires, execution, caller, resets, now>>

\* An execution is resolved or rejected when its callback settles, fulfilled or
\* failed when the handler in the wrapper has run.
Over == {"fulfilled", "failed"}
ExecutionState == {"none", "queued", "running", "resolved", "rejected"} \cup Over

TypeOK ==
    /\ kind \in Kinds
    /\ slot \in {0} \cup Execution
    /\ expires \in Nat
    /\ execution \in [Execution -> [state : ExecutionState, after : {0} \cup Execution,
                                    epoch : Nat, at : Nat, expires : Nat]]
    /\ caller \in [Caller -> [pc : {"idle", "waiting", "done"}, of : {0} \cup Execution,
                              epoch : Nat, stored : BOOLEAN, at : Nat]]
    /\ resets \in 0..MaxResets
    /\ now \in 0..MaxTime

Init ==
    /\ kind \in Kinds
    /\ slot = 0
    /\ expires = 0
    /\ execution = [e \in Execution |->
           [state |-> "none", after |-> 0, epoch |-> 0, at |-> 0, expires |-> 0]]
    /\ caller = [c \in Caller |->
           [pc |-> "idle", of |-> 0, epoch |-> 0, stored |-> FALSE, at |-> 0]]
    /\ resets = 0
    /\ now = 0

Started == {e \in Execution : execution[e].state # "none"}
InState(states) == {e \in Execution : execution[e].state \in states}

-----------------------------------------------------------------------------
\* Mutant of Vacant: the gap is not subtracted.
VacantWithoutGap == slot = 0 \/ (kind = "expiring" /\ now > expires)

\* Whether a call executes the callback: the slot is empty, or the entry expired.
Vacant == slot = 0 \/ (kind = "expiring" /\ now + Gap > expires)

\* An execution that begins at this moment, and a call that awaits e.
Begun(state) == [state |-> state, after |-> slot, epoch |-> resets,
                 at |-> now, expires |-> Infinity]
Awaiting(e) == [pc |-> "waiting", of |-> e, epoch |-> resets,
                stored |-> FALSE, at |-> now]

\* The next execution; calls beyond the bound are not looked at.
NextExecution(e) == e \in Execution /\ e = Cardinality(Started) + 1

\* A call that executes the callback; its promise is stored before it settles,
\* with an infinite expiration.
CallExecutes(c, e) ==
    /\ kind # "queueing"
    /\ caller[c].pc # "waiting"
    /\ Vacant /\ NextExecution(e)
    /\ execution' = [execution EXCEPT ![e] = Begun("running")]
    /\ slot' = e
    /\ expires' = Infinity
    /\ caller' = [caller EXCEPT ![c] = Awaiting(e)]
    /\ UNCHANGED <<kind, resets, now>>

\* A callback of setCb that returns no promise: what it returns is stored, what
\* it throws is not.
CallReturns(c, e, outcome) ==
    /\ kind = "lazy"
    /\ caller[c].pc # "waiting"
    /\ Vacant /\ NextExecution(e)
    /\ execution' = [execution EXCEPT ![e] = Begun(outcome)]
    /\ slot' = IF outcome = "fulfilled" THEN e ELSE slot
    /\ caller' = [caller EXCEPT ![c] = [Awaiting(e) EXCEPT !.pc = "done"]]
    /\ UNCHANGED <<kind, expires, resets, now>>

\* A call that gets what is stored: a promise, or the value of an entry that has
\* not expired.
CallShares(c) ==
    /\ kind # "queueing"
    /\ caller[c].pc # "waiting"
    /\ ~Vacant
    /\ caller' = [caller EXCEPT ![c] =
           IF kind = "expiring" /\ execution[slot].state \in Over
           THEN [Awaiting(slot) EXCEPT !.pc = "done", !.stored = TRUE]
           ELSE Awaiting(slot)]
    /\ UNCHANGED <<kind, slot, expires, execution, resets, now>>

\* A call of a queueing wrapper: its own execution, after the end of the chain.
CallQueues(c, e) ==
    /\ kind = "queueing"
    /\ caller[c].pc # "waiting"
    /\ NextExecution(e)
    /\ execution' = [execution EXCEPT ![e] = Begun("queued")]
    /\ slot' = e
    /\ caller' = [caller EXCEPT ![c] = Awaiting(e)]
    /\ UNCHANGED <<kind, expires, resets, now>>

\* Mutants of Unqueue: it does not wait; it waits for executions that succeed.
UnqueueAtOnce(e) ==
    /\ execution[e].state = "queued"
    /\ execution' = [execution EXCEPT ![e].state = "running"]
    /\ UNCHANGED <<kind, slot, expires, caller, resets, now>>
UnqueueAfterSuccess(e) ==
    /\ execution[e].state = "queued"
    /\ execution[e].after # 0 => execution[execution[e].after].state = "fulfilled"
    /\ execution' = [execution EXCEPT ![e].state = "running"]
    /\ UNCHANGED <<kind, slot, expires, caller, resets, now>>

\* The chain has come to e; rejections before it are swallowed.
Unqueue(e) ==
    /\ execution[e].state = "queued"
    /\ execution[e].after # 0 => execution[execution[e].after].state \in Over
    /\ execution' = [execution EXCEPT ![e].state = "running"]
    /\ UNCHANGED <<kind, slot, expires, caller, resets, now>>

\* The promise of the callback settles.
Settle(e, outcome) ==
    /\ execution[e].state = "running"
    /\ execution' = [execution EXCEPT ![e].state = outcome]
    /\ UNCHANGED <<kind, slot, expires, caller, resets, now>>

\* Mutants of Resolved: a one time wrapper forgets its result, like a coalescing
\* one; it stores its result when it has it; the gap is subtracted when the
\* expiration is stored already.
ResolvedForgets(e, lifetime) ==
    /\ execution[e].state = "resolved"
    /\ execution' = [execution EXCEPT ![e].state = "fulfilled"]
    /\ slot' = 0
    /\ UNCHANGED <<kind, expires, caller, resets, now>>
ResolvedStores(e, lifetime) ==
    /\ execution[e].state = "resolved"
    /\ execution' = [execution EXCEPT ![e].state = "fulfilled"]
    /\ slot' = IF kind = "coalescing" THEN 0 ELSE e
    /\ UNCHANGED <<kind, expires, caller, resets, now>>

ResolvedWithGap(e, lifetime) ==
    /\ execution[e].state = "resolved"
    /\ execution' = [execution EXCEPT ![e].state = "fulfilled", ![e].expires = now + lifetime]
    /\ slot' = IF kind = "coalescing" THEN 0 ELSE slot
    /\ expires' = IF kind = "expiring" THEN now + lifetime - Gap ELSE expires
    /\ UNCHANGED <<kind, caller, resets, now>>

\* The handler after a success.  A coalescing wrapper forgets the execution; an
\* expiring entry is overwritten by the value and its expiration.
Resolved(e, lifetime) ==
    /\ execution[e].state = "resolved"
    /\ IF kind = "expiring"
       THEN /\ execution' = [execution EXCEPT ![e].state = "fulfilled",
                                              ![e].expires = now + lifetime]
            /\ slot' = e
            /\ expires' = IF lifetime = 0 THEN 0 ELSE now + lifetime
       ELSE /\ execution' = [execution EXCEPT ![e].state = "fulfilled"]
            /\ slot' = IF kind = "coalescing" THEN 0 ELSE slot
            /\ UNCHANGED expires
    /\ UNCHANGED <<kind, caller, resets, now>>

\* The handler after a failure: all but the queueing wrapper forget what is
\* stored, even when it is no longer this execution.
Rejected(e) ==
    /\ execution[e].state = "rejected"
    /\ execution' = [execution EXCEPT ![e].state = "failed"]
    /\ slot' = IF kind = "queueing" THEN slot ELSE 0
    /\ UNCHANGED <<kind, expires, caller, resets, now>>

\* A caller is resumed with the outcome.
Answer(c) ==
    /\ caller[c].pc = "waiting"
    /\ execution[caller[c].of].state \in Over
    /\ caller' = [caller EXCEPT ![c].pc = "done"]
    /\ UNCHANGED <<kind, slot, expires, execution, resets, now>>

\* resetMakeOneTime, or delete and clear of a LazyCache.  Nothing in the
\* repository deletes from an ExpiringLazyCache.
Reset ==
    /\ kind \in {"oneTime", "lazy"}
    /\ resets < MaxResets
    /\ slot' = 0
    /\ resets' = resets + 1
    /\ UNCHANGED <<kind, expires, execution, caller, now>>

Tick ==
    /\ kind = "expiring"
    /\ now < MaxTime
    /\ now' = now + 1
    /\ UNCHANGED <<kind, slot, expires, execution, caller, resets>>

-----------------------------------------------------------------------------
Call(c) == \/ \E e \in Execution : CallExecutes(c, e) \/ CallQueues(c, e)
           \/ \E e \in Execution, outcome \in Over : CallReturns(c, e, outcome)
           \/ CallShares(c)

Proceed == \/ \E e \in Execution, outcome \in {"resolved", "rejected"} : Settle(e, outcome)
           \/ \E e \in Execution, lifetime \in Lifetimes : Resolved(e, lifetime)
           \/ \E e \in Execution : Unqueue(e) \/ Rejected(e)
           \/ \E c \in Caller : Answer(c)

Next == (\E c \in Caller : Call(c)) \/ Proceed \/ Reset \/ Tick

\* Callbacks settle and continuations run; nobody has to call.
Spec == Init /\ [][Next]_vars
             /\ \A e \in Execution :
                  /\ WF_vars(Unqueue(e) \/ Rejected(e))
                  /\ WF_vars(\E outcome \in {"resolved", "rejected"} : Settle(e, outcome))
                  /\ WF_vars(\E lifetime \in Lifetimes : Resolved(e, lifetime))
             /\ \A c \in Caller : WF_vars(Answer(c))

-----------------------------------------------------------------------------
(* Properties                                                              *)

\* Executions overlap only when the slot was emptied by hand under a running
\* one: never in a coalescing or queueing wrapper, and never for an expired
\* entry, because an entry is replaced only after its own fetch has settled.
OneAtATime == Cardinality(InState({"running"})) <= 1 + resets

\* The callback is not executed again while a good result is stored: each
\* execution after the first is owed to a failure, a reset or an expiration.
OnceWhileValid ==
    /\ kind \in {"oneTime", "lazy"} =>
         Cardinality(Started) <= 1 + resets + Cardinality(InState({"failed"}))
    /\ kind = "expiring" =>
         \A d, e \in Started :
            d < e /\ execution[d].state = "fulfilled" =>
                execution[d].expires < execution[e].at + Gap

\* A value that was already there when it was asked for is still valid for the
\* time of the gap.  A value that is awaited may be of any age: pending entries
\* never expire.
ServedFresh ==
    \A c \in Caller :
        caller[c].stored => caller[c].at + Gap <= execution[caller[c].of].expires

\* Who calls after a reset never gets the outcome of an execution from before
\* it, also when that execution ends late.
FreshAfterReset ==
    \A c \in Caller :
        caller[c].of # 0 => execution[caller[c].of].epoch >= caller[c].epoch

\* Every caller is answered if callbacks settle, whether it shared an execution,
\* queued behind others or lost the entry to a failure of someone else.
AllAnswered == \A c \in Caller : caller[c].pc = "waiting" ~> caller[c].pc = "done"
=============================================================================
