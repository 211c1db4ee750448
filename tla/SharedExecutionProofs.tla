----------------------- MODULE SharedExecutionProofs -----------------------
(***************************************************************************)
(* Proofs about SharedExecution, for any number of callers, executions and *)
(* resets, any gap and any lifetimes.                                      *)
(***************************************************************************)
EXTENDS SharedExecution, FiniteSetTheorems, TLAPS

-----------------------------------------------------------------------------
(* The inductive invariant                                                 *)

Before(e) == {d \in Started : d < e}

\* Executions are numbered in the order in which they start.
Dense == \A e \in Started : \A d \in Execution : d < e => d \in Started

\* What is stored began after the last reset.
SlotInv == slot # 0 => slot \in Started /\ execution[slot].epoch = resets

\* What a caller awaits began after the last reset before the call, and what it
\* was given at once was valid.
CallerInv ==
    \A c \in Caller :
        LET e == caller[c].of IN
        /\ e # 0 => e \in Started /\ execution[e].epoch >= caller[c].epoch
        /\ caller[c].stored => /\ e # 0
                               /\ execution[e].state \in Over
                               /\ caller[c].at + Gap <= execution[e].expires

\* What is no longer stored has ended.
SingleInv ==
    kind \in {"coalescing", "expiring"} =>
        \A d \in Started : d # slot => execution[d].state \in Over

\* A pending entry does not expire and a stored value not later than its result
\* does; what was replaced had expired.
ExpiringInv ==
    kind = "expiring" =>
        /\ slot # 0 /\ execution[slot].state \notin Over => expires = Infinity
        /\ slot # 0 /\ execution[slot].state \in Over =>
               /\ expires <= execution[slot].expires
               /\ expires = execution[slot].expires \/ execution[slot].expires <= now
        /\ slot # 0 => \A d \in Started : d <= slot
        /\ \A d \in Started : d # slot /\ execution[d].state = "fulfilled" =>
               execution[d].expires < now + Gap
        /\ \A d, e \in Started : d < e /\ execution[d].state = "fulfilled" =>
               execution[d].expires < execution[e].at + Gap

\* The chain ends with the latest execution, and everything before one that is
\* not queued any more has ended.
QueueingInv ==
    kind = "queueing" =>
        /\ \A d \in Started : d <= slot
        /\ \A e \in Started :
             /\ execution[e].after = e - 1
             /\ execution[e].state # "queued" =>
                    \A d \in Before(e) : execution[d].state \in Over

\* Executions that have not failed are stored or were removed by a reset.
Alive == Started \ InState({"failed"})
MemoInv == kind \in {"oneTime", "lazy"} => Cardinality(Alive \ {slot}) <= resets

IInv == /\ TypeOK /\ Dense /\ SlotInv /\ CallerInv
        /\ SingleInv /\ ExpiringInv /\ QueueingInv /\ MemoInv

-----------------------------------------------------------------------------
(* Types and the numbering of executions                                   *)

LEMMA TypeInit == Init => TypeOK
  BY SharedExecutionAssumption DEF Init, TypeOK, Execution, ExecutionState

LEMMA TypeNext ==
    ASSUME TypeOK, [Next]_vars
    PROVE  TypeOK'
<1> USE SharedExecutionAssumption DEF TypeOK, ExecutionState, Over
<1> DEFINE Executions == [state : ExecutionState, after : {0} \cup Execution,
                          epoch : Nat, at : Nat, expires : Nat]
           Calls == [pc : {"idle", "waiting", "done"}, of : {0} \cup Execution,
                     epoch : Nat, stored : BOOLEAN, at : Nat]
<1>a. Infinity \in Nat
  BY DEF Infinity
<1>b. ASSUME NEW state \in ExecutionState PROVE Begun(state) \in Executions
  BY <1>a DEF Begun
<1>c. ASSUME NEW e \in Execution
      PROVE  /\ Awaiting(e) \in Calls
             /\ [Awaiting(e) EXCEPT !.pc = "done"] \in Calls
             /\ [Awaiting(e) EXCEPT !.pc = "done", !.stored = TRUE] \in Calls
  <2>1. resets \in Nat /\ now \in Nat
    OBVIOUS
  <2>2. Awaiting(e) \in Calls
    BY <2>1 DEF Awaiting
  <2>3. [Awaiting(e) EXCEPT !.pc = "done"] \in Calls
    BY <2>2
  <2> QED
    BY <2>2, <2>3
<1>1. Infinity \in Nat /\ "running" \in ExecutionState /\ "queued" \in ExecutionState
  BY <1>a
<1>2. ASSUME NEW c \in Caller, NEW e \in Execution, CallExecutes(c, e) PROVE TypeOK'
  BY <1>1, <1>2, <1>b, <1>c DEF CallExecutes
<1>3. ASSUME NEW c \in Caller, NEW e \in Execution, CallQueues(c, e) PROVE TypeOK'
  BY <1>1, <1>3, <1>b, <1>c DEF CallQueues
<1>4. ASSUME NEW c \in Caller, NEW e \in Execution, NEW outcome \in Over,
             CallReturns(c, e, outcome)
      PROVE  TypeOK'
  <2>1. outcome \in ExecutionState
    OBVIOUS
  <2>2. execution' \in [Execution -> Executions]
    BY <1>4, <1>b, <2>1 DEF CallReturns
  <2>3. caller' \in [Caller -> Calls]
    BY <1>4, <1>c DEF CallReturns
  <2>4. slot' \in {0} \cup Execution
    BY <1>4 DEF CallReturns
  <2> QED
    BY <1>4, <2>2, <2>3, <2>4 DEF CallReturns
<1>5. ASSUME NEW c \in Caller, CallShares(c) PROVE TypeOK'
  <2> DEFINE done == kind = "expiring" /\ execution[slot].state \in Over
  <2>1. slot \in Execution
    BY <1>5 DEF CallShares, Vacant
  <2>2. CASE done
    BY <1>5, <1>c, <2>1, <2>2 DEF CallShares
  <2>3. CASE ~done
    BY <1>5, <1>c, <2>1, <2>3 DEF CallShares
  <2> QED
    BY <2>2, <2>3
<1>6. ASSUME NEW e \in Execution, NEW outcome \in {"resolved", "rejected"},
             Settle(e, outcome)
      PROVE  TypeOK'
  BY <1>6 DEF Settle
<1>7. ASSUME NEW e \in Execution, NEW lifetime \in Lifetimes, Resolved(e, lifetime)
      PROVE  TypeOK'
  <2>1. lifetime \in Nat /\ now + lifetime \in Nat
    OBVIOUS
  <2>2. CASE kind = "expiring"
    BY <1>7, <2>1, <2>2 DEF Resolved
  <2>3. CASE kind # "expiring"
    BY <1>7, <2>3 DEF Resolved
  <2> QED
    BY <2>2, <2>3
<1>8. ASSUME NEW e \in Execution, Unqueue(e) PROVE TypeOK'
  BY <1>8 DEF Unqueue
<1>9. ASSUME NEW e \in Execution, Rejected(e) PROVE TypeOK'
  BY <1>9 DEF Rejected
<1>10. ASSUME NEW c \in Caller, Answer(c) PROVE TypeOK'
  BY <1>10 DEF Answer
<1>11. CASE Reset
  BY <1>11 DEF Reset
<1>12. CASE Tick
  BY <1>12 DEF Tick
<1>13. CASE UNCHANGED vars
  BY <1>13 DEF vars
<1> QED
  BY <1>2, <1>3, <1>4, <1>5, <1>6, <1>7, <1>8, <1>9, <1>10, <1>11, <1>12, <1>13
     DEF Next, Call, Proceed

\* Executions are finitely many.
LEMMA FiniteExecutions ==
    /\ IsFiniteSet(Execution)
    /\ \A S \in SUBSET Execution : IsFiniteSet(S) /\ Cardinality(S) \in Nat
<1>1. IsFiniteSet(Execution)
  BY FS_Interval, SharedExecutionAssumption DEF Execution
<1>2. ASSUME NEW S \in SUBSET Execution PROVE IsFiniteSet(S) /\ Cardinality(S) \in Nat
  BY <1>1, FS_Subset, FS_CardinalityType
<1> QED
  BY <1>1, <1>2

\* The next execution is new, and all with a smaller number have started.
LEMMA NextIsLast ==
    ASSUME Dense, NEW e, NextExecution(e)
    PROVE  /\ e \in Execution /\ e \notin Started
           /\ \A d \in Execution : d \in Started <=> d < e
<1>1. e \in Execution /\ Execution \subseteq Nat \ {0} /\ Started \subseteq Execution
  BY SharedExecutionAssumption DEF NextExecution, Execution, Started
<1>2. Cardinality(Started) = e - 1 /\ IsFiniteSet(Started)
  BY <1>1, FiniteExecutions DEF NextExecution
<1>3. e \notin Started
  <2> SUFFICES ASSUME e \in Started PROVE FALSE
    OBVIOUS
  <2>1. ASSUME NEW d \in 1..e PROVE d \in Started
    <3>1. d \in Execution /\ (d = e \/ d < e)
      BY <1>1, SharedExecutionAssumption DEF Execution
    <3> QED
      BY <3>1 DEF Dense
  <2>2. Cardinality(1..e) = e
    BY <1>1, FS_Interval
  <2> QED
    BY <1>1, <1>2, <2>1, <2>2, FS_Subset
<1>4. ASSUME NEW d \in Execution, d < e PROVE d \in Started
  <2> SUFFICES ASSUME d \notin Started PROVE FALSE
    OBVIOUS
  <2>1. Started \subseteq 1..(d - 1)
    BY <1>1, <1>4 DEF Dense, Execution
  <2>2. IsFiniteSet(1..(d - 1)) /\ Cardinality(1..(d - 1)) = d - 1
    BY <1>1, FS_Interval
  <2>3. Cardinality(Started) <= d - 1
    BY <2>1, <2>2, FS_Subset
  <2> QED
    BY <1>1, <1>2, <1>4, <2>3
<1>5. ASSUME NEW d \in Started PROVE d < e
  BY <1>1, <1>3 DEF Dense
<1> QED
  BY <1>1, <1>3, <1>4, <1>5

\* An execution that begins is added at the end.
LEMMA Begins ==
    ASSUME TypeOK, Dense, NEW e, NextExecution(e),
           NEW state \in ExecutionState \ {"none"},
           execution' = [execution EXCEPT ![e] = Begun(state)]
    PROVE  /\ e \in Execution /\ e \notin Started /\ e # 0
           /\ Started' = Started \cup {e}
           /\ execution'[e] = Begun(state)
           /\ \A d \in Started : d < e /\ execution'[d] = execution[d]
           /\ \A d \in Execution : d < e => d \in Started
           /\ Dense'
<1>1. e \in Execution /\ e \notin Started /\ \A d \in Execution : d \in Started <=> d < e
  BY NextIsLast
<1>2. Execution \subseteq Nat \ {0} /\ Started \subseteq Execution
  BY SharedExecutionAssumption DEF Execution, Started
<1>3. /\ execution'[e] = Begun(state)
      /\ \A d \in Execution : d # e => execution'[d] = execution[d]
  BY <1>1 DEF TypeOK
<1>4. Begun(state).state # "none"
  BY DEF Begun
<1>5. Started' = Started \cup {e}
  BY <1>1, <1>3, <1>4 DEF Started
<1>6. Dense'
  BY <1>1, <1>2, <1>5 DEF Dense
<1> QED
  BY <1>1, <1>2, <1>3, <1>5, <1>6

\* An execution that goes on remains where it is.
LEMMA Continues ==
    ASSUME TypeOK, Dense, NEW e \in Execution, execution[e].state # "none",
           NEW r, r.state # "none", execution' = [execution EXCEPT ![e] = r]
    PROVE  /\ e \in Started /\ e # 0
           /\ Started' = Started
           /\ execution'[e] = r
           /\ \A d \in Execution : d # e => execution'[d] = execution[d]
           /\ Dense'
<1>1. e \in Started /\ e # 0
  BY SharedExecutionAssumption DEF Execution, Started
<1>2. /\ execution'[e] = r
      /\ \A d \in Execution : d # e => execution'[d] = execution[d]
  BY DEF TypeOK
<1>3. Started' = Started
  BY <1>2 DEF Started
<1> QED
  BY <1>1, <1>2, <1>3 DEF Dense

-----------------------------------------------------------------------------
(* The number of those that are alive                                      *)

\* Removing or adding one changes the number by one.
LEMMA CountOne ==
    ASSUME NEW S \in SUBSET Execution, NEW x
    PROVE  /\ Cardinality(S) \in Nat /\ Cardinality(S \ {x}) \in Nat
           /\ Cardinality(S \ {x}) <= Cardinality(S)
           /\ Cardinality(S) <= Cardinality(S \ {x}) + 1
           /\ x \in S => Cardinality(S) = Cardinality(S \ {x}) + 1
<1>1. IsFiniteSet(S) /\ Cardinality(S) \in Nat
  BY FiniteExecutions
<1>2. S \ {x} \in SUBSET Execution
  OBVIOUS
<1>3. Cardinality(S \ {x}) \in Nat
  BY <1>2, FiniteExecutions
<1>4. Cardinality(S \ {x}) = IF x \in S THEN Cardinality(S) - 1 ELSE Cardinality(S)
  BY <1>1, FS_RemoveElement
<1> QED
  BY <1>1, <1>3, <1>4

LEMMA CountSubset ==
    ASSUME NEW S \in SUBSET Execution, NEW T \in SUBSET S
    PROVE  /\ Cardinality(S) \in Nat /\ Cardinality(T) \in Nat
           /\ Cardinality(T) <= Cardinality(S)
<1>1. T \in SUBSET Execution
  OBVIOUS
<1> QED
  BY <1>1, FiniteExecutions, FS_Subset

\* Unless something is stored, those alive are as few as the resets.
LEMMA AliveWhenEmpty ==
    ASSUME TypeOK, Dense, MemoInv, kind \in {"oneTime", "lazy"}
    PROVE  /\ Cardinality(Alive) <= resets + 1
           /\ slot = 0 => Cardinality(Alive) <= resets
<1>1. Alive \in SUBSET Execution /\ 0 \notin Alive /\ resets \in Nat
  BY SharedExecutionAssumption DEF Alive, Started, Execution, TypeOK
<1>2. Cardinality(Alive \ {slot}) <= resets
  BY DEF MemoInv
<1>3. slot = 0 => Alive \ {slot} = Alive
  BY <1>1
<1> QED
  BY <1>1, <1>2, <1>3, CountOne

-----------------------------------------------------------------------------
(* The calls                                                               *)

\* Where a call executes the callback, what is stored has ended and expires
\* within the gap.
LEMMA VacantOver ==
    ASSUME IInv, Vacant, kind \in {"coalescing", "expiring"}, NEW d \in Started
    PROVE  /\ execution[d].state \in Over
           /\ kind = "expiring" /\ execution[d].state = "fulfilled" =>
                  execution[d].expires < now + Gap
<1> USE SharedExecutionAssumption DEF IInv, TypeOK, Over
<1>1. d \in Execution /\ d # 0 /\ execution[d].expires \in Nat /\ now \in Nat /\ now <= MaxTime
  BY DEF Started, Execution
<1>2. CASE d # slot
  BY <1>1, <1>2 DEF SingleInv, ExpiringInv
<1>3. CASE d = slot
  <2>1. kind = "expiring" /\ now + Gap > expires /\ slot # 0
    BY <1>1, <1>3 DEF Vacant
  <2>2. execution[d].state \in Over
    BY <1>1, <1>3, <2>1 DEF ExpiringInv, Infinity
  <2>3. expires = execution[d].expires \/ execution[d].expires <= now
    BY <1>3, <2>1, <2>2 DEF ExpiringInv
  <2>4. execution[d].expires < now + Gap
    BY <1>1, <2>1, <2>3
  <2> QED
    BY <2>2, <2>4
<1> QED
  BY <1>2, <1>3

\* A call that begins e and awaits it.
LEMMA CallerBegins ==
    ASSUME IInv, NEW c \in Caller, NEW e \in Execution, NEW call,
           e # 0, e \in Started', execution'[e].epoch = resets,
           \A d \in Started : d \in Started' /\ execution'[d] = execution[d],
           call.of = e, call.epoch = resets, call.stored = FALSE,
           caller' = [caller EXCEPT ![c] = call]
    PROVE  CallerInv'
<1> SUFFICES ASSUME NEW b \in Caller
             PROVE  LET a == caller'[b].of IN
                    /\ a # 0 => a \in Started' /\ execution'[a].epoch >= caller'[b].epoch
                    /\ caller'[b].stored => /\ a # 0
                                            /\ execution'[a].state \in Over
                                            /\ caller'[b].at + Gap <= execution'[a].expires
  BY DEF CallerInv
<1>1. CASE b = c
  <2>1. caller'[b] = call /\ resets \in Nat
    BY <1>1, SharedExecutionAssumption DEF IInv, TypeOK
  <2> QED
    BY <2>1
<1>2. CASE b # c
  <2>1. caller'[b] = caller[b]
    BY <1>2 DEF IInv, TypeOK
  <2> QED
    BY <2>1 DEF IInv, CallerInv
<1> QED
  BY <1>1, <1>2

LEMMA ExecutesKeeps ==
    ASSUME IInv, NEW c \in Caller, NEW e \in Execution, CallExecutes(c, e), TypeOK'
    PROVE  IInv'
<1>1. /\ e \notin Started /\ e # 0
      /\ Started' = Started \cup {e}
      /\ execution'[e] = Begun("running")
      /\ \A d \in Started : d < e /\ execution'[d] = execution[d]
      /\ Dense'
  BY Begins DEF CallExecutes, IInv, ExecutionState
<1>2. /\ kind' = kind /\ slot' = e /\ expires' = Infinity
      /\ resets' = resets /\ now' = now
      /\ kind # "queueing" /\ Vacant
      /\ caller' = [caller EXCEPT ![c] = Awaiting(e)]
  BY DEF CallExecutes
<1>3. SlotInv'
  BY <1>1, <1>2 DEF SlotInv, Begun
<1>4. CallerInv'
  <2>1. Awaiting(e).of = e /\ Awaiting(e).epoch = resets /\ Awaiting(e).stored = FALSE
    BY DEF Awaiting
  <2>2. execution'[e].epoch = resets /\ e \in Started'
    BY <1>1 DEF Begun
  <2> QED
    BY <1>1, <1>2, <2>1, <2>2, CallerBegins
<1>5. SingleInv'
  BY <1>1, <1>2, VacantOver DEF SingleInv
<1>6. ExpiringInv'
  <2> SUFFICES ASSUME kind = "expiring" PROVE ExpiringInv'
    BY <1>2 DEF ExpiringInv
  <2>1. e \in Nat /\ Started \subseteq Nat /\ now \in Nat
    BY SharedExecutionAssumption DEF IInv, TypeOK, Execution, Started
  <2>2. execution'[e].state = "running" /\ execution'[e].at = now
    BY <1>1 DEF Begun
  <2>3. ASSUME NEW d \in Started, execution[d].state = "fulfilled"
        PROVE  execution[d].expires < now + Gap
    BY <1>2, <2>3, VacantOver
  <2>4. \A d \in Started' : d <= slot'
    BY <1>1, <1>2, <2>1
  <2>5. \A d \in Started' : d # slot' /\ execution'[d].state = "fulfilled" =>
            execution'[d].expires < now' + Gap
    BY <1>1, <1>2, <2>3
  <2>6. ASSUME NEW d \in Started', NEW f \in Started', d < f,
               execution'[d].state = "fulfilled"
        PROVE  execution'[d].expires < execution'[f].at + Gap
    <3>1. d \in Started /\ execution'[d] = execution[d]
      BY <1>1, <2>2, <2>6
    <3>2. CASE f = e
      BY <2>2, <2>3, <2>6, <3>1, <3>2
    <3>3. CASE f # e
      BY <1>1, <2>6, <3>1, <3>3 DEF IInv, ExpiringInv
    <3> QED
      BY <3>2, <3>3
  <2> QED
    BY <1>2, <2>2, <2>4, <2>5, <2>6 DEF ExpiringInv, Over
<1>7. QueueingInv'
  BY <1>2 DEF QueueingInv
<1>8. MemoInv'
  <2> SUFFICES ASSUME kind \in {"oneTime", "lazy"}
               PROVE  Cardinality(Alive' \ {e}) <= resets
    BY <1>2 DEF MemoInv
  <2>1. slot = 0
    BY <1>2 DEF Vacant
  <2>2. Alive' \ {e} = Alive
    BY <1>1 DEF Alive, InState, Started
  <2> QED
    BY <2>1, <2>2, AliveWhenEmpty DEF IInv
<1> QED
  BY <1>1, <1>3, <1>4, <1>5, <1>6, <1>7, <1>8 DEF IInv

LEMMA ReturnsKeeps ==
    ASSUME IInv, NEW c \in Caller, NEW e \in Execution, NEW outcome \in Over,
           CallReturns(c, e, outcome), TypeOK'
    PROVE  IInv'
<1>1. /\ e \notin Started /\ e # 0
      /\ Started' = Started \cup {e}
      /\ execution'[e] = Begun(outcome)
      /\ \A d \in Started : d < e /\ execution'[d] = execution[d]
      /\ Dense'
  BY Begins DEF CallReturns, IInv, ExecutionState, Over
<1>2. /\ kind' = kind /\ resets' = resets /\ kind = "lazy" /\ slot = 0
      /\ slot' = IF outcome = "fulfilled" THEN e ELSE slot
      /\ caller' = [caller EXCEPT ![c] = [Awaiting(e) EXCEPT !.pc = "done"]]
  BY DEF CallReturns, Vacant
<1>3. SlotInv'
  BY <1>1, <1>2 DEF SlotInv, Begun
<1>4. CallerInv'
  <2> DEFINE call == [Awaiting(e) EXCEPT !.pc = "done"]
  <2>1. call.of = e /\ call.epoch = resets /\ call.stored = FALSE
    BY DEF Awaiting
  <2>2. execution'[e].epoch = resets /\ e \in Started'
    BY <1>1 DEF Begun
  <2> HIDE DEF call
  <2>3. caller' = [caller EXCEPT ![c] = call]
    BY <1>2 DEF call
  <2> QED
    BY <1>1, <2>1, <2>2, <2>3, CallerBegins
<1>5. MemoInv'
  <2>1. execution'[e].state = outcome
    BY <1>1 DEF Begun
  <2>2. Alive' \ {slot'} = Alive
    <3>1. CASE outcome = "fulfilled"
      BY <1>1, <1>2, <3>1 DEF Alive, InState, Started
    <3>2. CASE outcome = "failed"
      <4>1. Alive' = Alive
        BY <1>1, <2>1, <3>2 DEF Alive, InState, Started
      <4>2. 0 \notin Alive
        BY SharedExecutionAssumption DEF Alive, Started, Execution
      <4> QED
        BY <1>2, <3>2, <4>1, <4>2
    <3> QED
      BY <3>1, <3>2 DEF Over
  <2> QED
    BY <1>2, <2>2, AliveWhenEmpty DEF IInv, MemoInv
<1> QED
  BY <1>1, <1>2, <1>3, <1>4, <1>5 DEF IInv, SingleInv, ExpiringInv, QueueingInv

LEMMA QueuesKeeps ==
    ASSUME IInv, NEW c \in Caller, NEW e \in Execution, CallQueues(c, e), TypeOK'
    PROVE  IInv'
<1>1. /\ e \notin Started /\ e # 0
      /\ Started' = Started \cup {e}
      /\ execution'[e] = Begun("queued")
      /\ \A d \in Started : d < e /\ execution'[d] = execution[d]
      /\ \A d \in Execution : d < e => d \in Started
      /\ Dense'
  BY Begins DEF CallQueues, IInv, ExecutionState
<1>2. /\ kind' = kind /\ resets' = resets /\ kind = "queueing" /\ slot' = e
      /\ caller' = [caller EXCEPT ![c] = Awaiting(e)]
  BY DEF CallQueues
<1>3. SlotInv'
  BY <1>1, <1>2 DEF SlotInv, Begun
<1>4. CallerInv'
  <2>1. Awaiting(e).of = e /\ Awaiting(e).epoch = resets /\ Awaiting(e).stored = FALSE
    BY DEF Awaiting
  <2>2. execution'[e].epoch = resets /\ e \in Started'
    BY <1>1 DEF Begun
  <2> QED
    BY <1>1, <1>2, <2>1, <2>2, CallerBegins
<1>5. QueueingInv'
  <2>1. e \in Nat /\ Started \subseteq Nat /\ slot \in Nat
    BY SharedExecutionAssumption DEF IInv, TypeOK, Execution, Started
  <2>2. execution'[e].state = "queued" /\ execution'[e].after = slot
    BY <1>1 DEF Begun
  <2>3. slot = e - 1
    <3>1. slot < e
      BY <1>1, <2>1, SharedExecutionAssumption DEF IInv, SlotInv, Execution
    <3>2. e = 1 \/ e - 1 \in Started
      BY <1>1, <2>1, SharedExecutionAssumption DEF Execution
    <3> QED
      BY <1>2, <2>1, <3>1, <3>2, SharedExecutionAssumption DEF IInv, QueueingInv, Execution
  <2>4. ASSUME NEW d \in Started' PROVE d <= slot'
    <3>1. d = e \/ (d \in Started /\ d < e)
      BY <1>1
    <3>2. d \in Nat
      BY <2>1, <3>1
    <3>3. d <= e
      BY <2>1, <3>1, <3>2
    <3> QED
      BY <1>2, <3>3
  <2>5. ASSUME NEW f \in Started, execution'[f].state # "queued", NEW d \in Before(f)'
        PROVE  execution'[d].state \in Over
    <3>1. d \in Before(f)
      BY <1>1, <2>1, <2>5 DEF Before
    <3> QED
      BY <1>1, <1>2, <2>5, <3>1 DEF IInv, QueueingInv, Before
  <2>6. \A f \in Started : execution'[f].after = f - 1
    BY <1>1, <1>2 DEF IInv, QueueingInv
  <2> QED
    BY <1>1, <1>2, <2>2, <2>3, <2>4, <2>5, <2>6 DEF QueueingInv
<1> QED
  BY <1>1, <1>2, <1>3, <1>4, <1>5 DEF IInv, SingleInv, ExpiringInv, MemoInv

LEMMA SharesKeeps ==
    ASSUME IInv, NEW c \in Caller, CallShares(c), TypeOK'
    PROVE  IInv'
<1> DEFINE stored == kind = "expiring" /\ execution[slot].state \in Over
           call == IF stored
                   THEN [Awaiting(slot) EXCEPT !.pc = "done", !.stored = TRUE]
                   ELSE Awaiting(slot)
<1>1. /\ UNCHANGED <<kind, slot, expires, execution, resets, now>>
      /\ ~Vacant
      /\ caller' = [caller EXCEPT ![c] = call]
  BY DEF CallShares
<1>2. slot # 0 /\ slot \in Started /\ execution[slot].epoch = resets
  BY <1>1 DEF IInv, SlotInv, Vacant
<1>3. /\ call.of = slot /\ call.epoch = resets /\ call.at = now
      /\ call.stored <=> stored
  BY DEF Awaiting
<1>4. stored => now + Gap <= execution[slot].expires
  <2> SUFFICES ASSUME stored PROVE now + Gap <= execution[slot].expires
    OBVIOUS
  <2>1. now + Gap <= expires
    BY <1>1, SharedExecutionAssumption DEF Vacant, IInv, TypeOK
  <2>2. expires <= execution[slot].expires
    BY <1>2 DEF IInv, ExpiringInv
  <2>3. slot \in Execution
    BY <1>2 DEF Started
  <2> QED
    BY <2>1, <2>2, <2>3, SharedExecutionAssumption DEF IInv, TypeOK
<1>5. CallerInv'
  <2> SUFFICES ASSUME NEW b \in Caller
               PROVE  LET a == caller'[b].of IN
                      /\ a # 0 => a \in Started /\ execution[a].epoch >= caller'[b].epoch
                      /\ caller'[b].stored => /\ a # 0
                                              /\ execution[a].state \in Over
                                              /\ caller'[b].at + Gap <= execution[a].expires
    BY <1>1 DEF CallerInv, Started
  <2>1. CASE b = c
    <3> HIDE DEF call, stored
    <3>1. caller'[b] = call
      BY <1>1, <2>1 DEF IInv, TypeOK
    <3>2. resets \in Nat
      BY SharedExecutionAssumption DEF IInv, TypeOK
    <3> QED
      BY <1>2, <1>3, <1>4, <3>1, <3>2 DEF stored
  <2>2. CASE b # c
    <3>1. caller'[b] = caller[b]
      BY <1>1, <2>2 DEF IInv, TypeOK
    <3> QED
      BY <3>1 DEF IInv, CallerInv
  <2> QED
    BY <2>1, <2>2
<1> QED
  BY <1>1, <1>5 DEF IInv, Dense, SlotInv, SingleInv, ExpiringInv, QueueingInv, MemoInv,
                    Before, Started, Alive, InState

-----------------------------------------------------------------------------
(* What happens to an execution                                            *)

\* Callers are not affected by what happens to an execution that is not over.
LEMMA GoesOn ==
    ASSUME IInv, NEW e \in Execution, execution[e].state \notin Over \cup {"none"},
           NEW r, r.state # "none", r.epoch = execution[e].epoch,
           execution' = [execution EXCEPT ![e] = r], UNCHANGED caller
    PROVE  /\ e \in Started /\ e # 0
           /\ Started' = Started
           /\ execution'[e] = r
           /\ \A d \in Execution : d # e => execution'[d] = execution[d]
           /\ \A d \in Execution : execution'[d].epoch = execution[d].epoch
           /\ Dense'
           /\ CallerInv'
<1>1. /\ e \in Started /\ e # 0
      /\ Started' = Started
      /\ execution'[e] = r
      /\ \A d \in Execution : d # e => execution'[d] = execution[d]
      /\ Dense'
  BY Continues DEF IInv
<1>2. \A d \in Execution : execution'[d].epoch = execution[d].epoch
  BY <1>1
<1>3. CallerInv'
  <2> SUFFICES ASSUME NEW b \in Caller
               PROVE  LET a == caller[b].of IN
                      /\ a # 0 => a \in Started /\ execution'[a].epoch >= caller[b].epoch
                      /\ caller[b].stored => /\ a # 0
                                             /\ execution'[a].state \in Over
                                             /\ caller[b].at + Gap <= execution'[a].expires
    BY <1>1 DEF CallerInv
  <2> DEFINE a == caller[b].of
  <2>1. /\ a # 0 => a \in Started /\ execution[a].epoch >= caller[b].epoch
        /\ caller[b].stored => /\ a # 0
                               /\ execution[a].state \in Over
                               /\ caller[b].at + Gap <= execution[a].expires
    BY DEF IInv, CallerInv
  <2>2. a # 0 => execution'[a].epoch = execution[a].epoch
    BY <1>2, <2>1 DEF Started
  <2>3. a # 0 /\ execution[a].state \in Over => execution'[a] = execution[a]
    BY <1>1, <2>1 DEF Started
  <2> HIDE DEF a
  <2>4. /\ a # 0 => a \in Started /\ execution'[a].epoch >= caller[b].epoch
        /\ caller[b].stored => /\ a # 0
                               /\ execution'[a].state \in Over
                               /\ caller[b].at + Gap <= execution'[a].expires
    BY <2>1, <2>2, <2>3
  <2> QED
    BY <2>4 DEF a
<1> QED
  BY <1>1, <1>2, <1>3

\* Where one execution at most is stored, what is not over is stored.
LEMMA OnlyStored ==
    ASSUME IInv, kind \in {"coalescing", "expiring"}, NEW e \in Started,
           execution[e].state \notin Over
    PROVE  /\ slot = e
           /\ \A d \in Started : d # e => execution[d].state \in Over
  BY DEF IInv, SingleInv

\* An execution that advances but is not over changes nothing but its own state.
LEMMA Advances ==
    ASSUME IInv, NEW e \in Execution, NEW state \in ExecutionState \ Over,
           state # "none", execution[e].state \notin Over \cup {"none"},
           execution' = [execution EXCEPT ![e].state = state],
           UNCHANGED <<kind, slot, expires, caller, resets, now>>
    PROVE  /\ e \in Started /\ e # 0 /\ Started' = Started
           /\ execution'[e].state = state
           /\ \A d \in Started : execution'[d].after = execution[d].after
           /\ \A d \in Execution : d # e => execution'[d] = execution[d]
           /\ Dense' /\ SlotInv' /\ CallerInv' /\ SingleInv' /\ ExpiringInv' /\ MemoInv'
<1> DEFINE r == [execution[e] EXCEPT !.state = state]
<1>1. execution' = [execution EXCEPT ![e] = r]
  OBVIOUS
<1>2. /\ r.state = state /\ r.epoch = execution[e].epoch /\ r.after = execution[e].after
      /\ r.at = execution[e].at
  BY DEF IInv, TypeOK
<1> HIDE DEF r
<1>3. /\ e \in Started /\ e # 0 /\ Started' = Started
      /\ execution'[e] = r
      /\ \A d \in Execution : d # e => execution'[d] = execution[d]
      /\ \A d \in Execution : execution'[d].epoch = execution[d].epoch
      /\ Dense' /\ CallerInv'
  BY <1>1, <1>2, GoesOn
<1>4. Started \subseteq Execution
  BY DEF Started
<1>5. SlotInv'
  BY <1>3, <1>4 DEF IInv, SlotInv
<1>6. SingleInv'
  BY <1>3, <1>4, OnlyStored DEF SingleInv
<1>7. ExpiringInv'
  <2> SUFFICES ASSUME kind = "expiring" PROVE ExpiringInv'
    BY DEF ExpiringInv
  <2>1. slot = e
    BY <1>3, OnlyStored
  <2>2. expires = Infinity
    BY <1>3, <2>1 DEF IInv, ExpiringInv
  <2>3. execution'[e].state \notin Over \cup {"fulfilled"} /\ execution'[e].at = execution[e].at
    BY <1>2, <1>3 DEF Over
  <2>4. \A d \in Started : execution'[d].at = execution[d].at
    BY <1>3, <1>4, <2>3
  <2>5. \A d \in Started : execution'[d].state = "fulfilled" => execution'[d] = execution[d]
    BY <1>3, <1>4, <2>3
  <2> QED
    BY <1>3, <2>1, <2>2, <2>3, <2>4, <2>5 DEF IInv, ExpiringInv, Infinity
<1>8. MemoInv'
  <2>1. Alive' = Alive
    BY <1>2, <1>3, <1>4 DEF Alive, InState, Over
  <2> QED
    BY <2>1 DEF IInv, MemoInv
<1> QED
  BY <1>2, <1>3, <1>4, <1>5, <1>6, <1>7, <1>8

LEMMA SettleKeeps ==
    ASSUME IInv, NEW e \in Execution, NEW outcome \in {"resolved", "rejected"},
           Settle(e, outcome), TypeOK'
    PROVE  IInv'
<1>1. /\ e \in Started /\ Started' = Started
      /\ execution'[e].state = outcome
      /\ \A d \in Started : execution'[d].after = execution[d].after
      /\ \A d \in Execution : d # e => execution'[d] = execution[d]
      /\ Dense' /\ SlotInv' /\ CallerInv' /\ SingleInv' /\ ExpiringInv' /\ MemoInv'
  BY Advances DEF Settle, ExecutionState, Over
<1>2. QueueingInv'
  <2>1. execution[e].state = "running" /\ UNCHANGED <<kind, slot>>
    BY DEF Settle
  <2>2. \A d \in Started : /\ execution[d].state \in Over => execution'[d] = execution[d]
                           /\ execution'[d].state # "queued" => execution[d].state # "queued"
    BY <1>1, <2>1 DEF Over, Started
  <2> QED
    BY <1>1, <2>1, <2>2 DEF IInv, QueueingInv, Before
<1> QED
  BY <1>1, <1>2 DEF IInv

LEMMA UnqueueKeeps ==
    ASSUME IInv, NEW e \in Execution, Unqueue(e), TypeOK'
    PROVE  IInv'
<1>1. /\ e \in Started /\ Started' = Started
      /\ \A d \in Started : execution'[d].after = execution[d].after
      /\ \A d \in Execution : d # e => execution'[d] = execution[d]
      /\ Dense' /\ SlotInv' /\ CallerInv' /\ SingleInv' /\ ExpiringInv' /\ MemoInv'
  BY Advances DEF Unqueue, ExecutionState, Over
<1>2. QueueingInv'
  <2> SUFFICES ASSUME kind = "queueing" PROVE QueueingInv'
    BY DEF QueueingInv, Unqueue
  <2>1. /\ execution[e].state = "queued" /\ UNCHANGED <<kind, slot>>
        /\ execution[e].after # 0 => execution[execution[e].after].state \in Over
    BY DEF Unqueue
  <2>2. /\ e \in Nat \ {0} /\ Started \subseteq Execution
        /\ execution[e].after = e - 1
    BY <1>1, SharedExecutionAssumption DEF Execution, Started, IInv, QueueingInv
  <2>3. ASSUME NEW d \in Before(e) PROVE execution[d].state \in Over
    <3>1. d \in Started /\ d < e /\ d \in Nat /\ d # 0
      <4>1. d \in Started /\ d < e
        BY DEF Before
      <4>2. d \in Execution
        BY <2>2, <4>1
      <4>3. d \in Nat /\ d # 0
        BY <4>2, SharedExecutionAssumption DEF Execution
      <4> QED
        BY <4>1, <4>3
    <3>2. e - 1 \in Execution /\ execution[e - 1].state \in Over
      BY <2>1, <2>2, <3>1, SharedExecutionAssumption DEF Execution
    <3>3. e - 1 \in Started /\ execution[e - 1].state # "queued"
      BY <3>2 DEF Started, Over
    <3>4. d = e - 1 \/ d \in Before(e - 1)
      BY <2>2, <3>1 DEF Before
    <3> QED
      BY <3>2, <3>3, <3>4 DEF IInv, QueueingInv
  <2>4. \A d \in Started : execution[d].state \in Over => execution'[d] = execution[d]
    BY <1>1, <2>1, <2>2 DEF Over
  <2>5. ASSUME NEW f \in Started, execution'[f].state # "queued", NEW d \in Before(f)
        PROVE  execution'[d].state \in Over
    <3>1. execution[d].state \in Over
      <4>1. CASE f = e
        BY <2>3, <2>5, <4>1
      <4>2. CASE f # e
        BY <1>1, <2>2, <2>5, <4>2 DEF IInv, QueueingInv
      <4> QED
        BY <4>1, <4>2
    <3> QED
      BY <2>4, <2>5, <3>1 DEF Before
  <2> QED
    BY <1>1, <2>1, <2>5 DEF IInv, QueueingInv, Before
<1> QED
  BY <1>1, <1>2 DEF IInv

\* An execution that ends makes way for the queue behind it.
LEMMA EndsQueue ==
    ASSUME IInv, NEW e \in Execution, execution[e].state \notin {"none", "queued"},
           Started' = Started, UNCHANGED kind, kind = "queueing" => UNCHANGED slot,
           execution'[e].state \in Over, execution'[e].after = execution[e].after,
           \A d \in Execution : d # e => execution'[d] = execution[d]
    PROVE  QueueingInv'
<1>1. \A d \in Started : /\ execution'[d].after = execution[d].after
                         /\ execution[d].state \in Over => execution'[d].state \in Over
                         /\ execution'[d].state # "queued" => execution[d].state # "queued"
  BY DEF Started
<1> QED
  BY <1>1 DEF IInv, QueueingInv, Before

LEMMA ResolvedKeeps ==
    ASSUME IInv, NEW e \in Execution, NEW lifetime \in Lifetimes,
           Resolved(e, lifetime), TypeOK'
    PROVE  IInv'
<1> DEFINE r == IF kind = "expiring"
                THEN [execution[e] EXCEPT !.state = "fulfilled", !.expires = now + lifetime]
                ELSE [execution[e] EXCEPT !.state = "fulfilled"]
<1>1. /\ execution[e].state = "resolved"
      /\ execution' = [execution EXCEPT ![e] = r]
      /\ UNCHANGED <<kind, caller, resets, now>>
  BY DEF Resolved
<1>2. /\ r.state = "fulfilled" /\ r.epoch = execution[e].epoch
      /\ r.after = execution[e].after /\ r.at = execution[e].at
      /\ kind = "expiring" => r.expires = now + lifetime
  BY DEF IInv, TypeOK
<1> HIDE DEF r
<1>3. /\ e \in Started /\ e # 0 /\ Started' = Started
      /\ execution'[e] = r
      /\ \A d \in Execution : d # e => execution'[d] = execution[d]
      /\ \A d \in Execution : execution'[d].epoch = execution[d].epoch
      /\ Dense' /\ CallerInv'
  BY <1>1, <1>2, GoesOn DEF Over
<1>4. Started \subseteq Execution
  BY DEF Started
<1>5. kind \in {"coalescing", "expiring"} =>
          slot = e /\ \A d \in Started : d # e => execution[d].state \in Over
  BY <1>1, <1>3, OnlyStored DEF Over
<1>6. slot' = CASE kind = "expiring" -> e [] kind = "coalescing" -> 0 [] OTHER -> slot
  BY DEF Resolved
<1>7. SlotInv'
  BY <1>1, <1>3, <1>4, <1>5, <1>6 DEF IInv, SlotInv
<1>8. SingleInv'
  <2>1. kind \in {"coalescing", "expiring"} =>
            \A d \in Started : execution'[d].state \in Over
    BY <1>2, <1>3, <1>4, <1>5 DEF Over
  <2> QED
    BY <1>1, <1>3, <2>1 DEF SingleInv
<1>9. ExpiringInv'
  <2> SUFFICES ASSUME kind = "expiring" PROVE ExpiringInv'
    BY <1>1 DEF ExpiringInv
  <2>1. slot = e /\ slot' = e /\ expires' = IF lifetime = 0 THEN 0 ELSE now + lifetime
    BY <1>5 DEF Resolved
  <2>2. now \in Nat /\ lifetime \in Nat
    BY SharedExecutionAssumption DEF IInv, TypeOK
  <2>3. execution'[e].state \in Over /\ execution'[e].expires = now + lifetime
    BY <1>2, <1>3 DEF Over
  <2>4. /\ expires' <= execution'[e].expires
        /\ expires' = execution'[e].expires \/ execution'[e].expires <= now
    BY <2>1, <2>2, <2>3
  <2>5. \A d \in Started : d <= e
    BY <1>3, <2>1 DEF IInv, ExpiringInv
  <2>6. \A d \in Started : d # e => execution'[d] = execution[d]
    BY <1>3, <1>4
  <2>7. \A d \in Started : execution'[d].at = execution[d].at
    BY <1>2, <1>3, <1>4
  <2>8. ASSUME NEW d \in Started, NEW f \in Started, d < f PROVE d # e
    BY <2>5, <2>8, <1>4, SharedExecutionAssumption DEF Execution
  <2>9. \A d, f \in Started : d < f /\ execution'[d].state = "fulfilled" =>
            execution'[d].expires < execution'[f].at + Gap
    BY <2>6, <2>7, <2>8 DEF IInv, ExpiringInv
  <2>10. \A d \in Started : d # e /\ execution'[d].state = "fulfilled" =>
            execution'[d].expires < now + Gap
    BY <2>1, <2>6 DEF IInv, ExpiringInv
  <2> QED
    BY <1>1, <1>3, <2>1, <2>3, <2>4, <2>5, <2>9, <2>10 DEF ExpiringInv
<1>10. QueueingInv'
  BY <1>1, <1>2, <1>3, <1>6, EndsQueue DEF Over
<1>11. MemoInv'
  <2>1. Alive' = Alive
    BY <1>1, <1>2, <1>3, <1>4 DEF Alive, InState
  <2> QED
    BY <1>1, <1>6, <2>1 DEF IInv, MemoInv
<1> QED
  BY <1>3, <1>7, <1>8, <1>9, <1>10, <1>11 DEF IInv

LEMMA RejectedKeeps ==
    ASSUME IInv, NEW e \in Execution, Rejected(e), TypeOK'
    PROVE  IInv'
<1> DEFINE r == [execution[e] EXCEPT !.state = "failed"]
<1>1. /\ execution[e].state = "rejected"
      /\ execution' = [execution EXCEPT ![e] = r]
      /\ UNCHANGED <<kind, expires, caller, resets, now>>
      /\ slot' = IF kind = "queueing" THEN slot ELSE 0
  BY DEF Rejected
<1>2. /\ r.state = "failed" /\ r.epoch = execution[e].epoch
      /\ r.after = execution[e].after /\ r.at = execution[e].at
  BY DEF IInv, TypeOK
<1> HIDE DEF r
<1>3. /\ e \in Started /\ e # 0 /\ Started' = Started
      /\ execution'[e] = r
      /\ \A d \in Execution : d # e => execution'[d] = execution[d]
      /\ \A d \in Execution : execution'[d].epoch = execution[d].epoch
      /\ Dense' /\ CallerInv'
  BY <1>1, <1>2, GoesOn DEF Over
<1>4. Started \subseteq Execution
  BY DEF Started
<1>5. kind \in {"coalescing", "expiring"} =>
          slot = e /\ \A d \in Started : d # e => execution[d].state \in Over
  BY <1>1, <1>3, OnlyStored DEF Over
<1>6. SlotInv'
  BY <1>1, <1>3, <1>4 DEF IInv, SlotInv
<1>7. SingleInv'
  BY <1>1, <1>2, <1>3, <1>4, <1>5 DEF SingleInv, Over
<1>8. ExpiringInv'
  <2> SUFFICES ASSUME kind = "expiring" PROVE ExpiringInv'
    BY <1>1 DEF ExpiringInv
  <2>1. slot = e /\ slot' = 0
    BY <1>1, <1>5
  <2>2. \A d \in Started : /\ execution'[d].at = execution[d].at
                           /\ execution'[d].state = "fulfilled" =>
                                  d # e /\ execution'[d] = execution[d]
    BY <1>2, <1>3, <1>4
  <2> QED
    BY <1>1, <1>3, <2>1, <2>2 DEF IInv, ExpiringInv
<1>9. QueueingInv'
  BY <1>1, <1>2, <1>3, EndsQueue DEF Over
<1>10. MemoInv'
  <2> SUFFICES ASSUME kind \in {"oneTime", "lazy"}
               PROVE  Cardinality(Alive' \ {0}) <= resets
    BY <1>1 DEF MemoInv
  <2>1. Alive \in SUBSET Execution /\ e \in Alive /\ resets \in Nat
    BY <1>1, <1>3, SharedExecutionAssumption DEF Alive, Started, InState, IInv, TypeOK
  <2>2. Alive' \ {0} = Alive \ {e}
    BY <1>2, <1>3, <1>4, SharedExecutionAssumption DEF Alive, InState, Execution
  <2>3. Cardinality(Alive) <= resets + 1
    BY AliveWhenEmpty DEF IInv
  <2> QED
    BY <2>1, <2>2, <2>3, CountOne
<1> QED
  BY <1>3, <1>6, <1>7, <1>8, <1>9, <1>10 DEF IInv

-----------------------------------------------------------------------------
(* Answers, resets and the clock                                           *)

LEMMA AnswerKeeps ==
    ASSUME IInv, NEW c \in Caller, Answer(c), TypeOK'
    PROVE  IInv'
<1>1. UNCHANGED <<kind, slot, expires, execution, resets, now>>
  BY DEF Answer
<1>2. \A b \in Caller : /\ caller'[b].of = caller[b].of
                        /\ caller'[b].epoch = caller[b].epoch
                        /\ caller'[b].stored = caller[b].stored
                        /\ caller'[b].at = caller[b].at
  BY DEF Answer, IInv, TypeOK
<1>3. CallerInv'
  BY <1>1, <1>2 DEF IInv, CallerInv, Started
<1> QED
  BY <1>1, <1>3 DEF IInv, Dense, SlotInv, SingleInv, ExpiringInv, QueueingInv, MemoInv,
                    Before, Started, Alive, InState

LEMMA ResetKeeps ==
    ASSUME IInv, Reset, TypeOK'
    PROVE  IInv'
<1>1. /\ kind \in {"oneTime", "lazy"} /\ slot' = 0 /\ resets' = resets + 1
      /\ UNCHANGED <<kind, execution, caller>>
  BY DEF Reset
<1>2. Started' = Started /\ Alive' = Alive
  BY <1>1 DEF Started, Alive, InState
<1>3. Dense' /\ SlotInv' /\ CallerInv'
  BY <1>1, <1>2 DEF IInv, Dense, SlotInv, CallerInv
<1>4. MemoInv'
  <2>1. 0 \notin Alive
    BY SharedExecutionAssumption DEF Alive, Started, Execution
  <2>2. Alive' \ {slot'} = Alive
    BY <1>1, <1>2, <2>1
  <2> QED
    BY <1>1, <2>2, AliveWhenEmpty DEF IInv, MemoInv
<1> QED
  BY <1>1, <1>3, <1>4 DEF IInv, SingleInv, ExpiringInv, QueueingInv

LEMMA TickKeeps ==
    ASSUME IInv, Tick, TypeOK'
    PROVE  IInv'
<1>1. /\ kind = "expiring" /\ now' = now + 1
      /\ UNCHANGED <<kind, slot, expires, execution, caller, resets>>
  BY DEF Tick
<1>2. Started' = Started /\ Started \subseteq Execution
  BY <1>1 DEF Started
<1>3. Dense' /\ SlotInv' /\ CallerInv' /\ SingleInv'
  BY <1>1, <1>2 DEF IInv, Dense, SlotInv, CallerInv, SingleInv
<1>4. ExpiringInv'
  <2>1. now \in Nat /\ \A d \in Execution : execution[d].expires \in Nat
    BY SharedExecutionAssumption DEF IInv, TypeOK
  <2>2. slot # 0 => slot \in Execution
    BY <1>2 DEF IInv, SlotInv
  <2>3. ASSUME slot # 0, execution[slot].state \in Over
        PROVE  expires = execution[slot].expires \/ execution[slot].expires <= now'
    BY <1>1, <2>1, <2>2, <2>3 DEF IInv, ExpiringInv
  <2>4. ASSUME NEW d \in Started, d # slot, execution[d].state = "fulfilled"
        PROVE  execution[d].expires < now' + Gap
    <3>1. execution[d].expires < now + Gap /\ execution[d].expires \in Nat
      BY <1>1, <1>2, <2>1, <2>4 DEF IInv, ExpiringInv
    <3> QED
      BY <1>1, <2>1, <3>1, SharedExecutionAssumption
  <2> QED
    BY <1>1, <1>2, <2>3, <2>4 DEF IInv, ExpiringInv, Infinity
<1> QED
  BY <1>1, <1>3, <1>4 DEF IInv, QueueingInv, MemoInv

-----------------------------------------------------------------------------
(* The invariant and what follows from it                                  *)

LEMMA InvInit == Init => IInv
<1> SUFFICES ASSUME Init PROVE IInv
  OBVIOUS
<1>1. TypeOK
  BY TypeInit
<1>2. Started = {} /\ slot = 0 /\ resets = 0
  BY DEF Init, Started
<1>3. Alive \ {slot} = {}
  BY <1>2 DEF Alive
<1>4. MemoInv
  BY <1>2, <1>3, FS_EmptySet DEF MemoInv
<1>5. CallerInv
  BY DEF Init, CallerInv
<1> QED
  BY <1>1, <1>2, <1>4, <1>5 DEF IInv, Dense, SlotInv, SingleInv, ExpiringInv, QueueingInv

LEMMA InvNext == IInv /\ [Next]_vars => IInv'
<1> SUFFICES ASSUME IInv, [Next]_vars PROVE IInv'
  OBVIOUS
<1>1. TypeOK'
  BY TypeNext DEF IInv
<1>2. ASSUME NEW c \in Caller, Call(c) PROVE IInv'
  BY <1>1, <1>2, ExecutesKeeps, ReturnsKeeps, QueuesKeeps, SharesKeeps DEF Call
<1>3. ASSUME Proceed PROVE IInv'
  BY <1>1, <1>3, SettleKeeps, ResolvedKeeps, UnqueueKeeps, RejectedKeeps, AnswerKeeps
     DEF Proceed
<1>4. CASE UNCHANGED vars
  BY <1>4 DEF vars, IInv, TypeOK, Dense, SlotInv, CallerInv, SingleInv, ExpiringInv,
              QueueingInv, MemoInv, Before, Started, Alive, InState
<1> QED
  BY <1>1, <1>2, <1>3, <1>4, ResetKeeps, TickKeeps DEF Next

LEMMA Invariant == Spec => []IInv
  BY InvInit, InvNext, PTL DEF Spec

\* Every state of the wrappers and caches is of its type.
THEOREM TypeCorrect == Spec => []TypeOK
<1>1. IInv => TypeOK
  BY DEF IInv
<1> QED
  BY <1>1, Invariant, PTL

\* Who calls after resetMakeOneTime, delete or clear gets nothing from before it,
\* for any number of callers and resets.
THEOREM ResetIsRespected == Spec => []FreshAfterReset
<1>1. IInv => FreshAfterReset
  BY DEF IInv, CallerInv, FreshAfterReset
<1> QED
  BY <1>1, Invariant, PTL

\* A value that is handed out at once is valid for the gap, for any gap and any
\* lifetimes.
THEOREM StoredIsValid == Spec => []ServedFresh
<1>1. IInv => ServedFresh
  BY DEF IInv, CallerInv, ServedFresh
<1> QED
  BY <1>1, Invariant, PTL

\* Each execution after the first is owed to a failure, a reset or an expiration.
THEOREM NoneInVain == Spec => []OnceWhileValid
<1>1. ASSUME IInv, kind \in {"oneTime", "lazy"}
      PROVE  Cardinality(Started) <= 1 + resets + Cardinality(InState({"failed"}))
  <2> DEFINE Failed == InState({"failed"})
  <2>1. /\ Alive \in SUBSET Execution /\ Failed \in SUBSET Execution
        /\ Started \subseteq Alive \cup Failed
    BY DEF Alive, InState, Started
  <2>2. /\ IsFiniteSet(Alive) /\ IsFiniteSet(Failed)
        /\ Cardinality(Alive) \in Nat /\ Cardinality(Failed) \in Nat
    BY <2>1, FiniteExecutions
  <2>3. Alive \cap Failed \in SUBSET Execution
    BY <2>1
  <2>4. Cardinality(Alive \cap Failed) \in Nat
    BY <2>3, FiniteExecutions
  <2> HIDE DEF Failed
  <2>5. Cardinality(Alive \cup Failed) <= Cardinality(Alive) + Cardinality(Failed)
    <3>1. Cardinality(Alive \cup Failed)
              = Cardinality(Alive) + Cardinality(Failed) - Cardinality(Alive \cap Failed)
      BY <2>2, FS_Union
    <3> QED
      BY <2>2, <2>4, <3>1
  <2>6. Alive \cup Failed \in SUBSET Execution
    BY <2>1
  <2>7. /\ Cardinality(Started) <= Cardinality(Alive \cup Failed)
        /\ Cardinality(Started) \in Nat /\ Cardinality(Alive \cup Failed) \in Nat
    BY <2>1, <2>6, CountSubset
  <2>8. Cardinality(Alive) <= resets + 1 /\ resets \in Nat
    BY <1>1, AliveWhenEmpty, SharedExecutionAssumption DEF IInv, TypeOK
  <2> QED
    BY <2>2, <2>5, <2>7, <2>8 DEF Failed
<1>2. ASSUME IInv, kind = "expiring"
      PROVE  \A d, e \in Started :
                d < e /\ execution[d].state = "fulfilled" =>
                    execution[d].expires < execution[e].at + Gap
  BY <1>2 DEF IInv, ExpiringInv
<1>3. IInv => OnceWhileValid
  BY <1>1, <1>2 DEF OnceWhileValid
<1> QED
  BY <1>3, Invariant, PTL

\* One execution runs at a time, but for those a reset left running: never two in
\* a coalescing or queueing wrapper or for an expiring entry.
THEOREM NoOverlap == Spec => []OneAtATime
<1> DEFINE Running == InState({"running"})
<1>1. Running \in SUBSET Execution /\ Running \subseteq Started
  BY DEF InState, Started
<1>2. ASSUME IInv, NEW e \in Running, \A d \in Running : d = e
      PROVE  Cardinality(Running) <= 1 + resets
  <2>1. Running = {e}
    BY <1>2
  <2>2. Cardinality(Running) = 1
    BY <2>1, FS_Singleton
  <2>3. resets \in Nat
    BY <1>2, SharedExecutionAssumption DEF IInv, TypeOK
  <2> HIDE DEF Running
  <2> QED
    BY <2>2, <2>3
<1>3. ASSUME IInv, Running = {} PROVE Cardinality(Running) <= 1 + resets
  <2> HIDE DEF Running
  <2>1. Cardinality(Running) = 0
    BY <1>3, FS_EmptySet
  <2>2. resets \in Nat
    BY <1>3, SharedExecutionAssumption DEF IInv, TypeOK
  <2> QED
    BY <1>3, <2>1, <2>2
<1>4. ASSUME IInv, kind \in {"coalescing", "expiring", "queueing"},
             NEW d \in Running, NEW e \in Running
      PROVE  d = e
  <2>1. d \in Started /\ e \in Started /\ d \in Nat /\ e \in Nat
    BY <1>1, SharedExecutionAssumption DEF Execution
  <2>2. /\ execution[d].state = "running" /\ execution[e].state = "running"
        /\ "running" \notin Over
    BY DEF InState, Over
  <2>3. CASE kind = "queueing"
    BY <1>4, <2>1, <2>2, <2>3 DEF IInv, QueueingInv, Before
  <2>4. CASE kind # "queueing"
    BY <1>4, <2>1, <2>2, <2>4 DEF IInv, SingleInv
  <2> QED
    BY <2>3, <2>4
<1>5. ASSUME IInv, kind \in {"oneTime", "lazy"}
      PROVE  Cardinality(Running) <= 1 + resets
  <2>1. Running \subseteq Alive /\ Alive \in SUBSET Execution
    BY DEF InState, Alive, Started
  <2>2. Cardinality(Running) <= Cardinality(Alive)
        /\ Cardinality(Running) \in Nat /\ Cardinality(Alive) \in Nat
    BY <2>1, CountSubset
  <2>3. Cardinality(Alive) <= resets + 1 /\ resets \in Nat
    BY <1>5, AliveWhenEmpty, SharedExecutionAssumption DEF IInv, TypeOK
  <2> QED
    BY <2>2, <2>3
<1>6. IInv => OneAtATime
  <2> SUFFICES ASSUME IInv PROVE Cardinality(Running) <= 1 + resets
    BY DEF OneAtATime
  <2> HIDE DEF Running
  <2>1. kind \in {"oneTime", "lazy"} \/ kind \in {"coalescing", "expiring", "queueing"}
    BY DEF IInv, TypeOK, Kinds
  <2>2. CASE kind \in {"coalescing", "expiring", "queueing"}
    BY <1>2, <1>3, <1>4, <2>2
  <2> QED
    BY <1>5, <2>1, <2>2
<1> QED
  BY <1>6, Invariant, PTL
=============================================================================
