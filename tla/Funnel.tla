------------------------------- MODULE Funnel -------------------------------
(***************************************************************************)
(* The classes Funnel and FunnelQueue and the function limiter of          *)
(* src/src/shared/funnel.js: callbacks run concurrently as long as the sum *)
(* of their loads stays within a limit.                                    *)
(*                                                                         *)
(* A call of run either starts its callback at once or awaits              *)
(* Promise.race over the callbacks that run at that moment.  When one of   *)
(* them settles, its load is given back and all calls that raced on it are *)
(* resumed one right after the other, in the order in which they went to   *)
(* sleep; each checks again and starts or sleeps again.  Before the first  *)
(* of them is resumed, other callbacks may settle and other calls arrive;  *)
(* they may also come between calls that different callbacks have woken.   *)
(***************************************************************************)
EXTENDS Integers, Sequences, FiniteSets, Functions

CONSTANTS
    N,         \* bound: calls of run, numbered in calling order
    LimitArg,  \* argument of the constructor
    LoadArg    \* LoadArg[t]: argument load of call t

ASSUME FunnelAssumption == /\ N \in Nat
                           /\ LimitArg \in Int
                           /\ LoadArg \in [1..N -> Int]

Task == 1..N
Limit == IF LimitArg < 1 THEN 1 ELSE LimitArg
Load == [t \in Task |-> IF LoadArg[t] < 1 THEN 1 ELSE LoadArg[t]]

VARIABLES
    status,    \* status[t]: how far call t has come
    free,      \* __freeCapacity
    raced,     \* raced[t]: the running callbacks that call t races on, or the one that
               \* ended its latest race
    before,    \* the pairs of calls of which both race, or both have raced and are
               \* to check again: the first began earlier, or is resumed earlier
    draining,  \* whether some, but not all of the resumed calls had their turn, and
               \* whether the one that had it was woken together with others of them
    interrupted, \* whether anything has ever come between the turns of resumed calls
    queue,     \* __queue: the calls since the latest dequeueAll
    batch,     \* the calls that the pending dequeueAll waits for
    dequeue,   \* the latest dequeueAll: "none", "pending", "resolved", "rejected"
    thrown     \* the call whose rejection it throws, 0 if none

vars == <<status, free, raced, before, draining, interrupted, queue, batch, dequeue, thrown>>

Settled == {"fulfilled", "rejected"}

TypeOK ==
    /\ status \in [Task -> {"new", "sleeping", "resumed", "running"} \cup Settled]
    /\ free \in Int
    /\ raced \in [Task -> SUBSET Task]
    /\ before \subseteq Task \X Task
    /\ draining \in {"no", "together", "apart"}
    /\ interrupted \in BOOLEAN
    /\ queue \in Seq(Task)
    /\ batch \in Seq(Task)
    /\ dequeue \in {"none", "pending", "resolved", "rejected"}
    /\ thrown \in Task \cup {0}

\* __runningPromises
Running == {t \in Task : status[t] = "running"}

\* The calls that race, and those whose race is over and that check again.
Sleeping == {t \in Task : status[t] = "sleeping"}
Resumed == {t \in Task : status[t] = "resumed"}

Init ==
    /\ status = [t \in Task |-> "new"]
    /\ free = Limit
    /\ raced = [t \in Task |-> {}]
    /\ before = {}
    /\ draining = "no"
    /\ interrupted = FALSE
    /\ queue = <<>>
    /\ batch = <<>>
    /\ dequeue = "none"
    /\ thrown = 0

-----------------------------------------------------------------------------
\* Mutants of MustWait: the load of the call is not looked at, and an empty
\* funnel is not overbooked.
MustWaitUnweighted(t) == free < 1 /\ Running # {}
MustWaitAlways(t) == free < Load[t]

\* The condition of the while loop.  An empty funnel may be overbooked.
MustWait(t) == free < Load[t] /\ Running # {}

Others(t) == {pair \in before : pair[1] # t /\ pair[2] # t}

\* One pass of the loop, up to the next await: the callback starts, or the call
\* races on what is running now.
Check(t) ==
    IF MustWait(t)
    THEN /\ status' = [status EXCEPT ![t] = "sleeping"]
         /\ raced' = [raced EXCEPT ![t] = Running]
         /\ before' = Others(t) \cup (Sleeping \X {t})
         /\ UNCHANGED free
    ELSE /\ status' = [status EXCEPT ![t] = "running"]
         /\ free' = free - Load[t]
         /\ before' = Others(t)
         /\ UNCHANGED raced

\* What may come between two turns, unless one callback has woken both.
Interrupts ==
    /\ draining # "together"
    /\ interrupted' = (interrupted \/ draining = "apart")

\* enqueue: the call is checked before it returns.  Calls come in calling order.
Enqueue(t) ==
    /\ Interrupts
    /\ status[t] = "new"
    /\ \A s \in Task : s < t => status[s] # "new"
    /\ Check(t)
    /\ queue' = Append(queue, t)
    /\ UNCHANGED <<draining, batch, dequeue, thrown>>

\* Which resumed calls are left after the turn of t.
Rest(t) == CASE Resumed = {t} -> "no"
             [] \E s \in Resumed \ {t} : raced[s] = raced[t] -> "together"
             [] OTHER -> "apart"

\* Mutant of Resume: the latest call comes first.
ResumeLatest(t) ==
    /\ t \in Resumed /\ \A s \in Resumed : <<t, s>> \notin before
    /\ Check(t)
    /\ draining' = Rest(t)
    /\ UNCHANGED <<interrupted, queue, batch, dequeue, thrown>>

\* The next resumed call checks again.
Resume(t) ==
    /\ t \in Resumed /\ \A s \in Resumed : <<s, t>> \notin before
    /\ Check(t)
    /\ draining' = Rest(t)
    /\ UNCHANGED <<interrupted, queue, batch, dequeue, thrown>>

\* The callback of t ends, its load is given back, and the calls of woken, which
\* all race, are resumed in the order in which they began to.
Ends(t, outcome, back, woken) ==
    /\ Interrupts
    /\ status[t] = "running"
    /\ status' = [s \in Task |-> IF s = t THEN outcome
                                 ELSE IF s \in woken THEN "resumed" ELSE status[s]]
    /\ free' = free + back
    /\ before' = {pair \in before : pair[1] \in woken <=> pair[2] \in woken}
                     \cup (Resumed \X woken)
    /\ raced' = [s \in Task |-> IF s \in woken THEN {t} ELSE raced[s]]
    /\ UNCHANGED <<draining, queue, batch, dequeue, thrown>>

Woken(t) == {s \in Sleeping : t \in raced[s]}

\* Mutants of Settle: a rejected callback does not give its load back, and only
\* one of the calls that raced is resumed.
SettleUnlessRejected(t, outcome) ==
    Ends(t, outcome, IF outcome = "rejected" THEN 0 ELSE Load[t], Woken(t))
SettleNotifyOne(t, outcome) ==
    Ends(t, outcome, Load[t], {s \in Sleeping : \A u \in Sleeping : <<u, s>> \notin before})

\* The callback of t settles; all calls that raced on it are resumed.
Settle(t, outcome) == Ends(t, outcome, Load[t], Woken(t))

\* dequeueAll takes the queue over and waits for all of it.
DequeueAll ==
    /\ dequeue # "pending"
    /\ batch' = queue
    /\ queue' = <<>>
    /\ dequeue' = "pending"
    /\ thrown' = 0
    /\ UNCHANGED <<status, free, raced, before, draining, interrupted>>

\* The positions in the batch of the calls that were rejected.
Rejections == {k \in DOMAIN batch : status[batch[k]] = "rejected"}

\* Mutants of DequeueReturns: it throws as soon as one call is rejected, and the
\* rejection is looked for by index, -1 if there is none.
DequeueReturnsEarly ==
    /\ dequeue = "pending"
    /\ Rejections # {} \/ \A k \in DOMAIN batch : status[batch[k]] \in Settled
    /\ IF Rejections = {}
       THEN dequeue' = "resolved" /\ UNCHANGED thrown
       ELSE /\ dequeue' = "rejected"
            /\ thrown' = batch[CHOOSE k \in Rejections : \A l \in Rejections : k <= l]
    /\ UNCHANGED <<status, free, raced, before, draining, interrupted, queue, batch>>

DequeueReturnsByIndex ==
    /\ dequeue = "pending"
    /\ \A k \in DOMAIN batch : status[batch[k]] \in Settled
    /\ dequeue' = IF Rejections = {} THEN "resolved" ELSE "rejected"
    /\ thrown' = IF Rejections = {} THEN -1
                 ELSE batch[CHOOSE k \in Rejections : \A l \in Rejections : k <= l]
    /\ UNCHANGED <<status, free, raced, before, draining, interrupted, queue, batch>>

\* It returns the results, or throws the first rejection in calling order.
DequeueReturns ==
    /\ dequeue = "pending"
    /\ \A k \in DOMAIN batch : status[batch[k]] \in Settled
    /\ IF Rejections = {}
       THEN dequeue' = "resolved" /\ UNCHANGED thrown
       ELSE /\ dequeue' = "rejected"
            /\ thrown' = batch[CHOOSE k \in Rejections : \A l \in Rejections : k <= l]
    /\ UNCHANGED <<status, free, raced, before, draining, interrupted, queue, batch>>

-----------------------------------------------------------------------------
Proceed == \/ \E t \in Task : Resume(t)
           \/ \E t \in Task, outcome \in Settled : Settle(t, outcome)
           \/ DequeueReturns

Next == \/ \E t \in Task : Enqueue(t)
        \/ DequeueAll
        \/ Proceed

\* Callbacks settle and resumed calls get their turn.
Spec == Init /\ [][Next]_vars /\ WF_vars(Proceed)

-----------------------------------------------------------------------------
(* Properties                                                              *)

\* Every load that is taken is given back once, also after a rejection.
CapacityAccounted ==
    free = Limit - FoldFunctionOnSet(LAMBDA x, y : x + y, 0, Load, Running)

\* The limit is exceeded only by a callback that runs alone.
OverbookedAlone == free < 0 => Cardinality(Running) = 1

\* A call that races does so for a reason that lasts until its race is over:
\* one of the callbacks it races on is running, and without those settling
\* there is no room for it.  So no call sleeps through its chance, although it
\* is not notified of callbacks that started later.
NoLostWakeup ==
    \A t \in Task : status[t] = "sleeping" =>
        /\ free < Load[t]
        /\ raced[t] \cap Running # {}

\* dequeueAll waits for all callbacks it took over, also when one is rejected,
\* and throws the first rejection in calling order and not in time.
ResultOfAll ==
    dequeue \in {"resolved", "rejected"} =>
        /\ \A k \in DOMAIN batch : status[batch[k]] \in Settled
        /\ dequeue = "resolved" => Rejections = {}
        /\ dequeue = "rejected" =>
             /\ status[thrown] = "rejected"
             /\ \A k \in DOMAIN batch : status[batch[k]] = "rejected" => thrown <= batch[k]

\* No call that came after s has started at its arrival.
NobodyBargedIn(s) == \A t \in Task : t > s /\ status[t] # "new" => raced[t] # {}

\* Among calls of load 1 a resumed one never overtakes an earlier one that still
\* waits, unless a call that arrived in between has barged in and made the earlier
\* one sleep again, or anything has come between the turns of resumed calls.
ResumedInOrder ==
    [][\A s, t \in Task :
         /\ s < t /\ Load[s] = 1 /\ Load[t] = 1
         /\ status[t] = "resumed" /\ status[s] \in {"sleeping", "resumed"}
         /\ NobodyBargedIn(s) /\ ~interrupted
         => status'[t] # "running"]_vars

\* Every callback that is enqueued settles, whatever its load, and dequeueAll
\* returns.
AllSettle == /\ \A t \in Task : status[t] # "new" ~> status[t] \in Settled
             /\ dequeue = "pending" ~> dequeue # "pending"
=============================================================================
