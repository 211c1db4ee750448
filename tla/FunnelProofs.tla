---------------------------- MODULE FunnelProofs ----------------------------
(***************************************************************************)
(* Proofs about Funnel, for any number of calls, any limit and any loads:  *)
(* first about dequeueAll, then about the capacity and those that wait for *)
(* some, and last about the order in which they get it.                    *)
(***************************************************************************)
EXTENDS Funnel, FiniteSetTheorems, WellFoundedInduction, TLAPS

-----------------------------------------------------------------------------
(* The states of the calls                                                 *)

\* Limit and loads are positive, whatever the arguments are.
LEMMA Positive ==
    /\ Limit \in Nat \ {0}
    /\ Load \in [Task -> Nat \ {0}]
  BY FunnelAssumption DEF Limit, Load, Task

\* A set of positions that is not empty has a first one.
LEMMA FirstExists ==
    ASSUME NEW S, S \subseteq Nat, S # {}
    PROVE  \E k \in S : \A l \in S : k <= l
<1>1. PICK k \in S : \A l \in S : ~(<<l, k>> \in OpToRel(<, Nat))
  BY NatLessThanWellFounded, WFMin
<1>2. \A l \in S : ~(l < k)
  BY <1>1 DEF OpToRel
<1> QED
  BY <1>2

LEMMA TypeInit == Init => TypeOK
<1> SUFFICES ASSUME Init PROVE TypeOK
  OBVIOUS
<1>1. Limit \in Int
  BY Positive
<1>2. /\ status \in [Task -> {"new", "sleeping", "resumed", "running"} \cup Settled]
      /\ raced \in [Task -> SUBSET Task] /\ before \subseteq Task \X Task
  BY DEF Init
<1>3. queue \in Seq(Task) /\ batch \in Seq(Task)
  BY DEF Init
<1> QED
  BY <1>1, <1>2, <1>3 DEF Init, TypeOK

\* One pass of the loop.
LEMMA CheckEffect ==
    ASSUME TypeOK, NEW t \in Task, status[t] # "running", Check(t)
    PROVE  /\ \A s \in Task : s # t => status'[s] = status[s] /\ raced'[s] = raced[s]
           /\ MustWait(t) => /\ status'[t] = "sleeping" /\ raced'[t] = Running
                            /\ free' = free /\ Running' = Running
                            /\ before' = Others(t) \cup (Sleeping \X {t})
           /\ ~MustWait(t) => /\ status'[t] = "running" /\ raced' = raced
                             /\ free' = free - Load[t] /\ Running' = Running \cup {t}
                             /\ before' = Others(t)
           /\ status' \in [Task -> {"new", "sleeping", "resumed", "running"} \cup Settled]
           /\ raced' \in [Task -> SUBSET Task]
<1>1. Running \subseteq Task
  BY DEF Running
<1>2. CASE MustWait(t)
  <2>1. /\ status' = [status EXCEPT ![t] = "sleeping"]
        /\ raced' = [raced EXCEPT ![t] = Running]
        /\ before' = Others(t) \cup (Sleeping \X {t}) /\ free' = free
    BY <1>2 DEF Check
  <2>2. Running' = Running
    BY <2>1 DEF Running, TypeOK
  <2> QED
    BY <1>1, <1>2, <2>1, <2>2 DEF TypeOK
<1>3. CASE ~MustWait(t)
  <2>1. /\ status' = [status EXCEPT ![t] = "running"]
        /\ before' = Others(t) /\ free' = free - Load[t] /\ raced' = raced
    BY <1>3 DEF Check
  <2>2. Running' = Running \cup {t}
    BY <2>1 DEF Running, TypeOK
  <2> QED
    BY <1>3, <2>1, <2>2 DEF TypeOK
<1> QED
  BY <1>2, <1>3

\* The end of a callback.
LEMMA SettleEffect ==
    ASSUME TypeOK, NEW t \in Task, NEW outcome \in Settled, Settle(t, outcome)
    PROVE  /\ Interrupts /\ status[t] = "running" /\ status'[t] = outcome
           /\ \A s \in Task : s # t =>
                 status'[s] = IF s \in Woken(t) THEN "resumed" ELSE status[s]
           /\ \A s \in Task : s \in Woken(t) <=> status[s] = "sleeping" /\ t \in raced[s]
           /\ free' = free + Load[t] /\ Running' = Running \ {t}
           /\ before' = {pair \in before : pair[1] \in Woken(t) <=> pair[2] \in Woken(t)}
                            \cup (Resumed \X Woken(t))
           /\ \A s \in Task : raced'[s] = IF s \in Woken(t) THEN {t} ELSE raced[s]
           /\ raced' \in [Task -> SUBSET Task]
           /\ UNCHANGED <<draining, queue, batch, dequeue, thrown>>
           /\ status' \in [Task -> {"new", "sleeping", "resumed", "running"} \cup Settled]
<1>1. /\ Interrupts /\ status[t] = "running"
      /\ status' = [s \in Task |-> IF s = t THEN outcome
                                   ELSE IF s \in Woken(t) THEN "resumed" ELSE status[s]]
      /\ free' = free + Load[t]
      /\ before' = {pair \in before : pair[1] \in Woken(t) <=> pair[2] \in Woken(t)}
                            \cup (Resumed \X Woken(t))
      /\ raced' = [s \in Task |-> IF s \in Woken(t) THEN {t} ELSE raced[s]]
      /\ UNCHANGED <<draining, queue, batch, dequeue, thrown>>
  BY DEF Settle, Ends
<1>2. \A s \in Task : s \in Woken(t) <=> status[s] = "sleeping" /\ t \in raced[s]
  BY DEF Woken, Sleeping
<1>3. Running' = Running \ {t}
  BY <1>1, <1>2 DEF Running, Settled
<1>4. status' \in [Task -> {"new", "sleeping", "resumed", "running"} \cup Settled]
  BY <1>1 DEF TypeOK
<1>5. raced' \in [Task -> SUBSET Task]
  BY <1>1 DEF TypeOK
<1> QED
  BY <1>1, <1>2, <1>3, <1>4, <1>5

LEMMA TypeNext ==
    ASSUME TypeOK, [Next]_vars
    PROVE  TypeOK'
<1>a. /\ Resumed \subseteq Task /\ Sleeping \subseteq Task
      /\ \A t \in Task : Load[t] \in Int /\ Woken(t) \subseteq Task
                        /\ Others(t) \subseteq Task \X Task
  BY Positive DEF Resumed, Sleeping, Woken, Others, TypeOK
<1>1. ASSUME NEW t \in Task, status[t] # "running", Check(t)
      PROVE  free' \in Int /\ before' \subseteq Task \X Task
  <2>1. CASE MustWait(t)
    BY <1>1, <1>a, <2>1, CheckEffect DEF TypeOK
  <2>2. CASE ~MustWait(t)
    BY <1>1, <1>a, <2>2, CheckEffect DEF TypeOK
  <2> QED
    BY <2>1, <2>2
<1>2. ASSUME NEW t \in Task, Enqueue(t) PROVE TypeOK'
  <2>1. status[t] # "running" /\ Check(t)
    BY <1>2 DEF Enqueue
  <2>2. /\ queue' = Append(queue, t)
        /\ UNCHANGED <<draining, batch, dequeue, thrown>>
    BY <1>2 DEF Enqueue
  <2>3. queue' \in Seq(Task)
    BY <2>2 DEF TypeOK
  <2>4. interrupted' \in BOOLEAN
    BY <1>2 DEF Enqueue, Interrupts, TypeOK
  <2> QED
    BY <1>1, <2>1, <2>2, <2>3, <2>4, CheckEffect DEF TypeOK
<1>3. ASSUME NEW t \in Task, Resume(t) PROVE TypeOK'
  <2>1. status[t] # "running" /\ Check(t)
    BY <1>3 DEF Resume, Resumed
  <2>2. /\ draining' \in {"no", "together", "apart"}
        /\ UNCHANGED <<interrupted, queue, batch, dequeue, thrown>>
    BY <1>3 DEF Resume, Rest
  <2> QED
    BY <1>1, <2>1, <2>2, CheckEffect DEF TypeOK
<1>4. ASSUME NEW t \in Task, NEW outcome \in Settled, Settle(t, outcome)
      PROVE  TypeOK'
  <2>0. /\ free' = free + Load[t]
        /\ before' = {pair \in before : pair[1] \in Woken(t) <=> pair[2] \in Woken(t)}
                         \cup (Resumed \X Woken(t))
    BY <1>4, SettleEffect
  <2>1. free' \in Int
    BY <2>0, <1>a DEF TypeOK
  <2>2. before' \subseteq Task \X Task
    BY <2>0, <1>a DEF TypeOK
  <2>3. interrupted' \in BOOLEAN
    BY <1>4, SettleEffect DEF Interrupts, TypeOK
  <2> QED
    BY <1>4, <2>1, <2>2, <2>3, SettleEffect DEF TypeOK
<1>5. ASSUME DequeueAll PROVE TypeOK'
  BY <1>5 DEF DequeueAll, TypeOK
<1>6. ASSUME DequeueReturns PROVE TypeOK'
  <2> DEFINE first == CHOOSE k \in Rejections : \A l \in Rejections : k <= l
  <2>1. dequeue' \in {"resolved", "rejected"} /\ thrown' \in {thrown, batch[first]}
        /\ (Rejections = {} => thrown' = thrown)
        /\ UNCHANGED <<status, free, raced, before, draining, interrupted, queue, batch>>
    BY <1>6 DEF DequeueReturns
  <2>2. Rejections \subseteq DOMAIN batch /\ DOMAIN batch \subseteq Nat
    BY DEF Rejections, TypeOK
  <2>3. Rejections # {} => first \in Rejections
    BY <2>2, FirstExists
  <2> HIDE DEF first
  <2>4. Rejections # {} => batch[first] \in Task
    BY <2>2, <2>3 DEF TypeOK
  <2>5. thrown' \in Task \cup {0}
    BY <2>1, <2>4 DEF TypeOK
  <2> QED
    BY <2>1, <2>5 DEF TypeOK
<1>7. CASE UNCHANGED vars
  BY <1>7 DEF vars, TypeOK
<1> QED
  BY <1>2, <1>3, <1>4, <1>5, <1>6, <1>7 DEF Next, Proceed

\* All parts of the state keep their types, for any loads and whatever rejects; what
\* dequeueAll throws is the rejection of a call.
THEOREM FunnelTypeCorrect == Spec => []TypeOK
  BY TypeInit, TypeNext, PTL DEF Spec

-----------------------------------------------------------------------------
(* dequeueAll                                                              *)

\* Calls come in calling order, and the queue and the batch list them in it.
CallingOrder ==
    /\ \A s, t \in Task : s < t /\ status[t] # "new" => status[s] # "new"
    /\ \A k \in DOMAIN queue : status[queue[k]] # "new"
    /\ \A k, l \in DOMAIN queue : k <= l => queue[k] <= queue[l]
    /\ \A k, l \in DOMAIN batch : k <= l => batch[k] <= batch[l]

\* What is thrown comes from a call.
ThrownByCall == dequeue = "rejected" => thrown \in Task

ResultInv == TypeOK /\ CallingOrder /\ ThrownByCall /\ ResultOfAll

\* No call becomes new again, and a settled call keeps its outcome.
LEMMA Progress ==
    ASSUME TypeOK, [Next]_vars, NEW t \in Task
    PROVE  /\ status[t] # "new" => status'[t] # "new"
           /\ status[t] \in Settled => status'[t] = status[t]
<1> USE DEF Settled
<1>1. ASSUME NEW s \in Task, status[s] \in {"new", "resumed"}, Check(s)
      PROVE  /\ status[t] # "new" => status'[t] # "new"
             /\ status[t] \in Settled => status'[t] = status[t]
  BY <1>1, CheckEffect
<1>2. ASSUME NEW s \in Task, NEW outcome \in Settled, Settle(s, outcome)
      PROVE  /\ status[t] # "new" => status'[t] # "new"
             /\ status[t] \in Settled => status'[t] = status[t]
  BY <1>2, SettleEffect
<1>3. ASSUME DequeueAll \/ DequeueReturns \/ UNCHANGED vars
      PROVE  status' = status
  BY <1>3 DEF DequeueAll, DequeueReturns, vars
<1>4. ASSUME NEW s \in Task, Enqueue(s) \/ Resume(s)
      PROVE  status[s] \in {"new", "resumed"} /\ Check(s)
  BY <1>4 DEF Enqueue, Resume, Resumed
<1> QED
  BY <1>1, <1>2, <1>3, <1>4 DEF Next, Proceed

LEMMA OrderNext ==
    ASSUME TypeOK, CallingOrder, [Next]_vars
    PROVE  CallingOrder'
<1>a. TypeOK'
  BY TypeNext
<1>b. \A t \in Task : status[t] # "new" => status'[t] # "new"
  BY Progress
<1>1. ASSUME NEW t \in Task, Enqueue(t) PROVE CallingOrder'
  <2>1. /\ status[t] = "new" /\ status'[t] # "new"
        /\ \A s \in Task : s < t => status[s] # "new"
        /\ \A s \in Task : s # t => status'[s] = status[s]
        /\ queue' = Append(queue, t) /\ batch' = batch
    BY <1>1, CheckEffect DEF Enqueue
  <2>2. ASSUME NEW s \in Task, NEW u \in Task, s < u, status'[u] # "new"
        PROVE  status'[s] # "new"
    BY <2>1, <2>2, <1>b DEF CallingOrder
  <2>3. /\ DOMAIN queue = 1..Len(queue) /\ Len(queue) \in Nat
        /\ DOMAIN queue' = 1..(Len(queue) + 1)
        /\ \A k \in 1..Len(queue) : queue'[k] = queue[k] /\ queue[k] \in Task
        /\ queue'[Len(queue) + 1] = t
    BY <2>1 DEF TypeOK
  <2>4. \A k \in DOMAIN queue' : queue'[k] = t \/ (k \in DOMAIN queue /\ queue'[k] = queue[k])
    BY <2>3
  <2>5. \A k \in DOMAIN queue' : status'[queue'[k]] # "new"
    BY <2>1, <2>3, <2>4, <1>b DEF CallingOrder
  <2>6. \A k \in DOMAIN queue : queue[k] <= t
    <3> SUFFICES ASSUME NEW k \in DOMAIN queue PROVE queue[k] <= t
      OBVIOUS
    <3>1. queue[k] \in Task /\ status[queue[k]] # "new"
      BY <2>3 DEF CallingOrder
    <3>2. ~(t < queue[k])
      BY <2>1, <3>1 DEF CallingOrder
    <3> QED
      BY <3>1, <3>2, FunnelAssumption DEF Task
  <2>7. ASSUME NEW k \in DOMAIN queue', NEW l \in DOMAIN queue', k <= l
        PROVE  queue'[k] <= queue'[l]
    <3>1. CASE l = Len(queue) + 1
      <4>1. queue'[l] = t /\ t \in Int
        BY <2>3, <3>1 DEF Task
      <4>2. queue'[k] = t \/ queue'[k] <= t
        BY <2>4, <2>6
      <4> QED
        BY <4>1, <4>2
    <3>2. CASE l # Len(queue) + 1
      BY <2>3, <2>7, <3>2 DEF CallingOrder
    <3> QED
      BY <3>1, <3>2
  <2> QED
    BY <2>1, <2>2, <2>5, <2>7 DEF CallingOrder
<1>2. ASSUME DequeueAll PROVE CallingOrder'
  BY <1>2 DEF DequeueAll, CallingOrder
<1>3. ASSUME UNCHANGED <<queue, batch>>, \A t \in Task : status'[t] = "new" <=> status[t] = "new"
      PROVE  CallingOrder'
  <2>1. \A k \in DOMAIN queue : queue[k] \in Task
    BY DEF TypeOK
  <2> QED
    BY <1>3, <2>1 DEF CallingOrder
<1>4. ASSUME NEW t \in Task, Resume(t) PROVE CallingOrder'
  BY <1>3, <1>4, CheckEffect DEF Resume, Resumed
<1>5. ASSUME NEW t \in Task, NEW outcome \in Settled, Settle(t, outcome)
      PROVE  CallingOrder'
  BY <1>3, <1>5, SettleEffect DEF Settled
<1>6. ASSUME DequeueReturns \/ UNCHANGED vars PROVE CallingOrder'
  BY <1>3, <1>6 DEF DequeueReturns, vars
<1> QED
  BY <1>1, <1>2, <1>4, <1>5, <1>6 DEF Next, Proceed

\* When dequeueAll returns, its result is right at that moment.
LEMMA ReturnsResult ==
    ASSUME TypeOK, CallingOrder, DequeueReturns
    PROVE  ThrownByCall' /\ ResultOfAll'
<1>1. /\ \A k \in DOMAIN batch : batch[k] \in Task
      /\ DOMAIN batch \subseteq Nat
  BY DEF TypeOK
<1>2. status' = status /\ batch' = batch /\ \A k \in DOMAIN batch : status[batch[k]] \in Settled
  BY DEF DequeueReturns
<1>3. CASE Rejections = {}
  <2>1. dequeue' = "resolved"
    BY <1>3 DEF DequeueReturns
  <2> QED
    BY <1>2, <1>3, <2>1 DEF ThrownByCall, ResultOfAll, Rejections
<1>4. CASE Rejections # {}
  <2> DEFINE first == CHOOSE k \in Rejections : \A l \in Rejections : k <= l
  <2>1. dequeue' = "rejected" /\ thrown' = batch[first]
    BY <1>4 DEF DequeueReturns
  <2>2. Rejections \subseteq DOMAIN batch /\ Rejections \subseteq Nat
    BY <1>1 DEF Rejections
  <2>3. first \in Rejections /\ \A l \in Rejections : first <= l
    BY <1>4, <2>2, FirstExists
  <2> HIDE DEF first
  <2>4. status[batch[first]] = "rejected" /\ batch[first] \in Task
    BY <1>1, <2>2, <2>3 DEF Rejections
  <2>5. ASSUME NEW k \in DOMAIN batch, status[batch[k]] = "rejected"
        PROVE  batch[first] <= batch[k]
    <3>1. k \in Rejections
      BY <2>5 DEF Rejections
    <3> QED
      BY <2>2, <2>3, <3>1 DEF CallingOrder
  <2> QED
    BY <1>2, <2>1, <2>4, <2>5 DEF ThrownByCall, ResultOfAll
<1> QED
  BY <1>3, <1>4

LEMMA ResultNext ==
    ASSUME ResultInv, [Next]_vars
    PROVE  ResultInv'
<1>a. TypeOK /\ CallingOrder /\ ThrownByCall /\ ResultOfAll
  BY DEF ResultInv
<1>b. TypeOK' /\ CallingOrder'
  BY <1>a, TypeNext, OrderNext
<1>1. ASSUME DequeueAll PROVE ThrownByCall' /\ ResultOfAll'
  BY <1>1 DEF DequeueAll, ThrownByCall, ResultOfAll
<1>2. ASSUME DequeueReturns PROVE ThrownByCall' /\ ResultOfAll'
  BY <1>a, <1>2, ReturnsResult
<1>3. ASSUME UNCHANGED <<batch, dequeue, thrown>> 
      PROVE  ThrownByCall' /\ ResultOfAll'
  <2> SUFFICES ASSUME dequeue \in {"resolved", "rejected"} PROVE ResultOfAll'
    BY <1>a, <1>3 DEF ThrownByCall, ResultOfAll
  <2>1. \A k \in DOMAIN batch : batch[k] \in Task
    BY <1>a DEF TypeOK
  <2>2. \A k \in DOMAIN batch : status[batch[k]] \in Settled
    BY <1>a DEF ResultOfAll
  <2>3. \A k \in DOMAIN batch : status'[batch[k]] = status[batch[k]]
    BY <1>a, <2>1, <2>2, Progress
  <2>4. Rejections' = Rejections
    BY <1>3, <2>3 DEF Rejections
  <2>5. dequeue = "rejected" => status'[thrown] = "rejected"
    BY <1>a, Progress DEF ThrownByCall, ResultOfAll, Settled
  <2> QED
    BY <1>3, <1>a, <2>2, <2>3, <2>4, <2>5 DEF ResultOfAll
<1>4. ASSUME NEW t \in Task, Enqueue(t) \/ Resume(t) PROVE UNCHANGED <<batch, dequeue, thrown>>
  BY <1>4 DEF Enqueue, Resume
<1>5. ASSUME NEW t \in Task, NEW outcome \in Settled, Settle(t, outcome)
      PROVE  UNCHANGED <<batch, dequeue, thrown>>
  BY <1>5 DEF Settle, Ends
<1>6. ASSUME UNCHANGED vars PROVE UNCHANGED <<batch, dequeue, thrown>>
  BY <1>6 DEF vars
<1>7. ThrownByCall' /\ ResultOfAll'
  BY <1>1, <1>2, <1>3, <1>4, <1>5, <1>6 DEF Next, Proceed
<1> QED
  BY <1>b, <1>7 DEF ResultInv

\* For any loads: dequeueAll returns when all callbacks it took over are settled,
\* and throws the first rejection in calling order (funnel.js:84-94).
THEOREM DequeueIsComplete == Spec => []ResultOfAll
<1>1. Init => ResultInv
  <2> SUFFICES ASSUME Init PROVE ResultInv
    OBVIOUS
  <2>1. \A t \in Task : status[t] = "new"
    BY DEF Init
  <2>2. DOMAIN queue = {} /\ DOMAIN batch = {}
    BY DEF Init
  <2>3. CallingOrder
    BY <2>1, <2>2 DEF CallingOrder
  <2>4. ResultOfAll
    BY DEF Init, ResultOfAll
  <2>5. ThrownByCall
    BY DEF Init, ThrownByCall
  <2> QED
    BY <2>3, <2>4, <2>5, TypeInit DEF ResultInv
<1>2. ResultInv /\ [Next]_vars => ResultInv'
  BY ResultNext
<1>3. ResultInv => ResultOfAll
  BY DEF ResultInv
<1> QED
  BY <1>1, <1>2, <1>3, PTL DEF Spec

-----------------------------------------------------------------------------
(* Sums of loads                                                           *)

Sum(S) == FoldFunctionOnSet(LAMBDA x, y : x + y, 0, Load, S)

\* What the calls of S need, unit by unit.
Units(S) == {unit \in Task \X Nat : unit[1] \in S /\ 1 <= unit[2] /\ unit[2] <= Load[unit[1]]}

LEMMA TasksFinite == \A S \in SUBSET Task : IsFiniteSet(S) /\ Cardinality(S) \in Nat
<1>1. IsFiniteSet(Task)
  BY FS_Interval, FunnelAssumption DEF Task
<1> QED
  BY <1>1, FS_Subset, FS_CardinalityType

LEMMA UnitsOfOne ==
    ASSUME NEW S \in SUBSET Task, NEW t \in S
    PROVE  LET own == {t} \X (1..Load[t])
           IN  /\ Units(S) = Units(S \ {t}) \cup own
               /\ Units(S \ {t}) \cap own = {}
               /\ IsFiniteSet(own) /\ Cardinality(own) = Load[t]
<1> DEFINE own == {t} \X (1..Load[t])
<1>1. t \in Task /\ Load[t] \in Nat \ {0}
  BY Positive
<1>2. IsFiniteSet(1..Load[t]) /\ Cardinality(1..Load[t]) = Load[t]
  BY <1>1, FS_Interval
<1>3. IsFiniteSet({t}) /\ Cardinality({t}) = 1
  BY FS_Singleton
<1>4. IsFiniteSet(own) /\ Cardinality(own) = Cardinality({t}) * Cardinality(1..Load[t])
  BY <1>2, <1>3, FS_Product
<1>5. Cardinality(own) = Load[t]
  BY <1>1, <1>2, <1>3, <1>4
<1>6. ASSUME NEW unit \in Units(S) PROVE unit \in Units(S \ {t}) \cup own
  BY <1>6 DEF Units
<1>7. ASSUME NEW unit \in Units(S \ {t}) PROVE unit \in Units(S) /\ unit \notin own
  BY <1>7 DEF Units
<1>8. ASSUME NEW unit \in own PROVE unit \in Units(S)
  BY <1>1, <1>8 DEF Units
<1> QED
  BY <1>4, <1>5, <1>6, <1>7, <1>8

LEMMA UnitsFinite == \A S \in SUBSET Task : IsFiniteSet(Units(S))
<1> DEFINE Bad == {n \in Nat : \E S \in SUBSET Task : Cardinality(S) = n /\ ~IsFiniteSet(Units(S))}
<1> SUFFICES ASSUME Bad # {} PROVE FALSE
  BY TasksFinite
<1>1. PICK n \in Bad : \A m \in Bad : n <= m
  BY FirstExists
<1>2. PICK S \in SUBSET Task : Cardinality(S) = n /\ ~IsFiniteSet(Units(S))
  OBVIOUS
<1>3. S # {}
  <2>1. Units({}) = {}
    BY DEF Units
  <2> QED
    BY <1>2, <2>1, FS_EmptySet
<1>4. PICK t \in S : TRUE
  BY <1>3
<1> DEFINE own == {t} \X (1..Load[t])
<1>5. Cardinality(S \ {t}) = n - 1 /\ n \in Nat /\ Cardinality(S \ {t}) \in Nat
  BY <1>2, TasksFinite, FS_RemoveElement
<1>6. S \ {t} \in SUBSET Task /\ Cardinality(S \ {t}) \notin Bad
  BY <1>1, <1>5
<1>7. IsFiniteSet(Units(S \ {t}))
  BY <1>5, <1>6
<1>8. Units(S) = Units(S \ {t}) \cup own /\ IsFiniteSet(own)
  BY UnitsOfOne
<1> HIDE DEF own
<1>9. IsFiniteSet(Units(S \ {t}) \cup own)
  BY <1>7, <1>8, FS_Union
<1> QED
  BY <1>2, <1>8, <1>9

LEMMA UnitsAdd ==
    ASSUME NEW S \in SUBSET Task, NEW t \in S
    PROVE  /\ Cardinality(Units(S)) = Load[t] + Cardinality(Units(S \ {t}))
           /\ Cardinality(Units(S)) \in Nat /\ Cardinality(Units(S \ {t})) \in Nat
<1> DEFINE own == {t} \X (1..Load[t])
<1>1. /\ Units(S) = Units(S \ {t}) \cup own /\ Units(S \ {t}) \cap own = {}
      /\ IsFiniteSet(own) /\ Cardinality(own) = Load[t]
  BY UnitsOfOne
<1>2. /\ IsFiniteSet(Units(S \ {t})) /\ IsFiniteSet(Units(S))
      /\ S \ {t} \in SUBSET Task
  BY UnitsFinite
<1>3. Cardinality(Units(S)) \in Nat /\ Cardinality(Units(S \ {t})) \in Nat
  BY <1>2, FS_CardinalityType
<1> HIDE DEF own
<1>4. Cardinality(Units(S \ {t}) \cup own)
        = Cardinality(Units(S \ {t})) + Cardinality(own) - Cardinality(Units(S \ {t}) \cap own)
  BY <1>1, <1>2, FS_Union
<1>5. Cardinality(Units(S \ {t}) \cap own) = 0
  BY <1>1, FS_EmptySet
<1>6. Cardinality(Units(S)) = Cardinality(Units(S \ {t})) + Load[t] - 0
  BY <1>1, <1>4, <1>5, Zenon
<1>7. Load[t] \in Nat
  BY Positive
<1> QED
  BY <1>3, <1>6, <1>7

LEMMA SumIsUnits == \A S \in SUBSET Task : Sum(S) = Cardinality(Units(S))
<1> SUFFICES ASSUME NEW S \in SUBSET Task PROVE Sum(S) = Cardinality(Units(S))
  OBVIOUS
<1> DEFINE Step(f) == [s \in SUBSET S |-> IF s = {} THEN 0
                                          ELSE LET x == CHOOSE y \in s : TRUE
                                               IN  Load[x] + f[s \ {x}]]
           G == [s \in SUBSET S |-> Cardinality(Units(s))]
           iter == CHOOSE f : f = Step(f)
<1>1. Sum(S) = iter[S]
  BY DEF Sum, FoldFunctionOnSet, MapThenFoldSet
<1>2. Cardinality(Units({})) = 0
  <2>1. Units({}) = {}
    BY DEF Units
  <2> QED
    BY <2>1, FS_EmptySet
<1>3. ASSUME NEW s \in SUBSET S, s # {}
      PROVE  LET x == CHOOSE y \in s : TRUE
             IN  x \in s /\ s \ {x} \in SUBSET S /\ G[s] = Load[x] + G[s \ {x}]
  <2> DEFINE x == CHOOSE y \in s : TRUE
  <2>1. x \in s
    BY <1>3
  <2> HIDE DEF x
  <2>2. Cardinality(Units(s)) = Load[x] + Cardinality(Units(s \ {x}))
    BY <2>1, UnitsAdd
  <2>3. G[s] = Cardinality(Units(s)) /\ G[s \ {x}] = Cardinality(Units(s \ {x}))
    OBVIOUS
  <2> HIDE DEF G
  <2> QED
    BY <2>1, <2>2, <2>3 DEF x
<1>4. G = Step(G)
  <2>1. \A s \in SUBSET S : G[s] = Step(G)[s]
    <3>1. G[{}] = 0
      BY <1>2
    <3> HIDE DEF G
    <3> QED
      BY <1>3, <3>1
  <2> QED
    BY <2>1
<1> HIDE DEF G
<1>5. iter = Step(iter)
  BY <1>4
<1> HIDE DEF iter
<1>6. iter[S] = G[S]
  <2> DEFINE Bad == {n \in Nat : \E s \in SUBSET S : Cardinality(s) = n /\ iter[s] # G[s]}
  <2> SUFFICES ASSUME Bad # {} PROVE FALSE
    BY TasksFinite
  <2>1. PICK n \in Bad : \A m \in Bad : n <= m
    BY FirstExists
  <2>2. PICK s \in SUBSET S : Cardinality(s) = n /\ iter[s] # G[s]
    OBVIOUS
  <2>3. s # {}
    BY <1>2, <1>5, <2>2 DEF G
  <2> DEFINE x == CHOOSE y \in s : TRUE
  <2>4. x \in s /\ s \ {x} \in SUBSET S /\ G[s] = Load[x] + G[s \ {x}]
    BY <1>3, <2>3
  <2>5. iter[s] = Load[x] + iter[s \ {x}]
    BY <1>5, <2>3
  <2> HIDE DEF x
  <2>6. Cardinality(s \ {x}) = n - 1 /\ n \in Nat /\ Cardinality(s \ {x}) \in Nat
    BY <2>2, <2>4, TasksFinite, FS_RemoveElement
  <2>a. n - 1 \notin Bad
    <3> HIDE DEF Bad
    <3>1. \A m \in Bad : n <= m
      BY <2>1
    <3> QED
      BY <2>6, <3>1
  <2>7. Cardinality(s \ {x}) \notin Bad
    BY <2>6, <2>a
  <2>8. iter[s \ {x}] = G[s \ {x}]
    BY <2>4, <2>6, <2>7
  <2> QED
    BY <2>2, <2>4, <2>5, <2>8
<1> QED
  BY <1>1, <1>6 DEF G

\* What is known of sums: a call more or less, and fewer calls.
LEMMA SumAdds ==
    ASSUME NEW S \in SUBSET Task, NEW t \in S
    PROVE  Sum(S) = Sum(S \ {t}) + Load[t] /\ Sum(S) \in Nat /\ Sum(S \ {t}) \in Nat
<1>1. Sum(S) = Cardinality(Units(S)) /\ Sum(S \ {t}) = Cardinality(Units(S \ {t}))
  BY SumIsUnits
<1>2. Load[t] \in Nat
  BY Positive
<1> QED
  BY <1>1, <1>2, UnitsAdd

LEMMA SumOfNone == Sum({}) = 0
<1>1. Units({}) = {}
  BY DEF Units
<1> QED
  BY <1>1, SumIsUnits, FS_EmptySet

LEMMA SumGrows ==
    ASSUME NEW S \in SUBSET Task, NEW R \in SUBSET S
    PROVE  Sum(R) <= Sum(S) /\ Sum(R) \in Nat /\ Sum(S) \in Nat
<1>1. Sum(S) = Cardinality(Units(S)) /\ Sum(R) = Cardinality(Units(R))
  BY SumIsUnits
<1>2. IsFiniteSet(Units(S)) /\ IsFiniteSet(Units(R))
  BY UnitsFinite
<1>3. Units(R) \subseteq Units(S)
  BY DEF Units
<1>4. Cardinality(Units(R)) <= Cardinality(Units(S))
  BY <1>2, <1>3, FS_Subset
<1> QED
  BY <1>1, <1>2, <1>4, FS_CardinalityType

-----------------------------------------------------------------------------
(* The capacity and those that wait for some                               *)

\* The free capacity is what the running callbacks leave, only one that is alone
\* exceeds it, and a call that races does so on callbacks that all still run and
\* by themselves leave too little for it.
LoadInv ==
    /\ TypeOK
    /\ free = Limit - Sum(Running)
    /\ OverbookedAlone
    /\ \A t \in Task : status[t] = "sleeping" =>
         /\ raced[t] \subseteq Running /\ raced[t] # {}
         /\ Limit - Sum(raced[t]) < Load[t]

LEMMA LoadInit == Init => LoadInv
<1> SUFFICES ASSUME Init PROVE LoadInv
  OBVIOUS
<1>1. Running = {}
  BY DEF Init, Running
<1>2. free = Limit /\ Limit \in Nat /\ Sum(Running) = 0
  BY <1>1, SumOfNone, Positive DEF Init
<1>3. OverbookedAlone
  BY <1>2 DEF OverbookedAlone
<1>4. \A t \in Task : status[t] # "sleeping"
  BY DEF Init
<1> QED
  BY <1>2, <1>3, <1>4, TypeInit DEF LoadInv

LEMMA LoadTypes ==
    /\ Running \in SUBSET Task /\ Limit \in Nat \ {0} /\ Sum(Running) \in Nat
    /\ Cardinality(Running) \in Nat /\ IsFiniteSet(Running)
    /\ \A t \in Task : Load[t] \in Nat \ {0}
<1>1. Running \in SUBSET Task
  BY DEF Running
<1> QED
  BY <1>1, SumGrows, TasksFinite, Positive

\* One pass of the loop: the call starts where there is room or nobody else, or sleeps.
LEMMA LoadCheck ==
    ASSUME LoadInv, TypeOK', NEW t \in Task, status[t] \in {"new", "resumed"}, Check(t)
    PROVE  LoadInv'
<1>a. /\ TypeOK /\ free = Limit - Sum(Running) /\ OverbookedAlone
      /\ t \notin Running
  BY DEF LoadInv, Running
<1>b. Limit' = Limit /\ Load' = Load
  BY DEF Limit, Load
<1>1. CASE MustWait(t)
  <2>1. free < Load[t] /\ Running # {}
    BY <1>1 DEF MustWait
  <2>2. /\ free' = free /\ Running' = Running /\ status'[t] = "sleeping" /\ raced'[t] = Running
        /\ \A s \in Task : s # t => status'[s] = status[s] /\ raced'[s] = raced[s]
    BY <1>1, <1>a, CheckEffect
  <2>3. free' = Limit' - Sum(Running')
    BY <1>a, <1>b, <2>2
  <2>4. OverbookedAlone'
    BY <1>a, <2>2 DEF OverbookedAlone
  <2>5. ASSUME NEW s \in Task, status'[s] = "sleeping"
        PROVE  /\ raced'[s] \subseteq Running' /\ raced'[s] # {}
               /\ Limit - Sum(raced'[s]) < Load[s]
    <3>1. CASE s = t
      BY <1>a, <2>1, <2>2, <3>1
    <3>2. CASE s # t
      BY <2>2, <2>5, <3>2 DEF LoadInv
    <3> QED
      BY <3>1, <3>2
  <2> QED
    BY <1>b, <2>3, <2>4, <2>5 DEF LoadInv
<1>2. CASE ~MustWait(t)
  <2>1. ~(free < Load[t]) \/ Running = {}
    BY <1>2 DEF MustWait
  <2>2. /\ free' = free - Load[t] /\ Running' = Running \cup {t}
        /\ status'[t] = "running" /\ raced' = raced
        /\ \A s \in Task : s # t => status'[s] = status[s]
    BY <1>2, <1>a, CheckEffect
  <2>3. Sum(Running') = Sum(Running) + Load[t]
    <3>1. Running' \in SUBSET Task /\ t \in Running' /\ Running' \ {t} = Running
      BY <1>a, <2>2, LoadTypes
    <3> QED
      BY <3>1, SumAdds
  <2>4. free' = Limit' - Sum(Running')
    BY <1>a, <1>b, <2>2, <2>3, LoadTypes
  <2>5. OverbookedAlone'
    <3>1. CASE Running = {}
      <4>1. Running' = {t}
        BY <2>2, <3>1
      <4> QED
        BY <4>1, FS_Singleton DEF OverbookedAlone
    <3>2. CASE ~(free < Load[t])
      <4>1. ~(free' < 0)
        BY <1>a, <2>2, <3>2, LoadTypes
      <4> QED
        BY <4>1 DEF OverbookedAlone
    <3> QED
      BY <2>1, <3>1, <3>2
  <2>6. ASSUME NEW s \in Task, status'[s] = "sleeping"
        PROVE  /\ raced'[s] \subseteq Running' /\ raced'[s] # {}
               /\ Limit - Sum(raced'[s]) < Load[s]
    BY <2>2, <2>6 DEF LoadInv
  <2> QED
    BY <1>b, <2>4, <2>5, <2>6 DEF LoadInv
<1> QED
  BY <1>1, <1>2

\* A callback settles: all calls that raced on it are resumed.
LEMMA LoadSettle ==
    ASSUME LoadInv, TypeOK', NEW t \in Task, NEW outcome \in Settled, Settle(t, outcome)
    PROVE  LoadInv'
<1>a. TypeOK /\ free = Limit - Sum(Running) /\ OverbookedAlone
  BY DEF LoadInv
<1>b. Limit' = Limit /\ Load' = Load
  BY DEF Limit, Load
<1>1. /\ status[t] = "running" /\ status'[t] = outcome /\ free' = free + Load[t]
      /\ Running' = Running \ {t}
      /\ \A s \in Task : s \notin Woken(t) => raced'[s] = raced[s]
      /\ \A s \in Task : s # t =>
            status'[s] = IF s \in Woken(t) THEN "resumed" ELSE status[s]
      /\ \A s \in Task : s \in Woken(t) <=> status[s] = "sleeping" /\ t \in raced[s]
  BY <1>a, SettleEffect
<1>2. t \in Running
  BY <1>1 DEF Running
<1>3. Sum(Running) = Sum(Running') + Load[t] /\ Sum(Running') \in Nat
  BY <1>1, <1>2, SumAdds, LoadTypes
<1>4. free' = Limit' - Sum(Running')
  BY <1>a, <1>b, <1>1, <1>3, LoadTypes
<1>5. OverbookedAlone'
  <2>1. Cardinality(Running') = Cardinality(Running) - 1
    BY <1>1, <1>2, LoadTypes, FS_RemoveElement
  <2>2. CASE free < 0
    <3>1. Cardinality(Running') = 0
      BY <1>a, <2>1, <2>2 DEF OverbookedAlone
    <3>2. Running' = {}
      BY <1>1, <3>1, LoadTypes, FS_EmptySet, FS_Subset
    <3>3. ~(free' < 0)
      BY <1>4, <1>b, <3>2, SumOfNone, LoadTypes
    <3> QED
      BY <3>3 DEF OverbookedAlone
  <2>3. CASE ~(free < 0)
    <3>1. ~(free' < 0)
      BY <1>a, <1>1, <2>3, LoadTypes DEF TypeOK
    <3> QED
      BY <3>1 DEF OverbookedAlone
  <2> QED
    BY <2>2, <2>3
<1>6. ASSUME NEW s \in Task, status'[s] = "sleeping"
      PROVE  /\ raced'[s] \subseteq Running' /\ raced'[s] # {}
             /\ Limit - Sum(raced'[s]) < Load[s]
  <2>1. status[s] = "sleeping" /\ t \notin raced[s] /\ s \notin Woken(t)
    BY <1>1, <1>6 DEF Settled
  <2> QED
    BY <1>1, <2>1 DEF LoadInv
<1> QED
  BY <1>b, <1>4, <1>5, <1>6 DEF LoadInv

LEMMA LoadNext == LoadInv /\ [Next]_vars => LoadInv'
<1> SUFFICES ASSUME LoadInv, [Next]_vars PROVE LoadInv'
  OBVIOUS
<1>a. TypeOK'
  BY TypeNext DEF LoadInv
<1>1. ASSUME NEW t \in Task, Enqueue(t) \/ Resume(t) PROVE LoadInv'
  BY <1>a, <1>1, LoadCheck DEF Enqueue, Resume, Resumed
<1>2. ASSUME NEW t \in Task, NEW outcome \in Settled, Settle(t, outcome) PROVE LoadInv'
  BY <1>a, <1>2, LoadSettle
<1>3. ASSUME UNCHANGED <<status, free, raced>> PROVE LoadInv'
  <2>1. Running' = Running /\ Limit' = Limit /\ Load' = Load
    BY <1>3 DEF Running, Limit, Load
  <2>2. OverbookedAlone'
    BY <1>3, <2>1 DEF LoadInv, OverbookedAlone
  <2> QED
    BY <1>a, <1>3, <2>1, <2>2 DEF LoadInv
<1>4. ASSUME DequeueAll \/ DequeueReturns \/ UNCHANGED vars
      PROVE  UNCHANGED <<status, free, raced>>
  BY <1>4 DEF DequeueAll, DequeueReturns, vars
<1> QED
  BY <1>1, <1>2, <1>3, <1>4 DEF Next, Proceed

LEMMA LoadAlways == Spec => []LoadInv
  BY LoadInit, LoadNext, PTL DEF Spec

LEMMA LoadSafe == LoadInv => CapacityAccounted /\ OverbookedAlone /\ NoLostWakeup
<1> SUFFICES ASSUME LoadInv PROVE CapacityAccounted /\ OverbookedAlone /\ NoLostWakeup
  OBVIOUS
<1>1. CapacityAccounted
  BY DEF LoadInv, CapacityAccounted, Sum
<1>2. ASSUME NEW t \in Task, status[t] = "sleeping"
      PROVE  free < Load[t] /\ raced[t] \cap Running # {}
  <2>1. /\ raced[t] \subseteq Running /\ raced[t] # {} /\ Limit - Sum(raced[t]) < Load[t]
        /\ free = Limit - Sum(Running)
    BY <1>2 DEF LoadInv
  <2>2. Sum(raced[t]) <= Sum(Running) /\ Sum(raced[t]) \in Nat
    BY <2>1, SumGrows, LoadTypes
  <2> QED
    BY <2>1, <2>2, LoadTypes
<1> QED
  BY <1>1, <1>2 DEF LoadInv, NoLostWakeup

\* Whatever the loads are and whoever rejects: a load that was taken is given back
\* exactly once (funnel.js:34-41).
THEOREM CapacityIsAccounted == Spec => []CapacityAccounted
  BY LoadAlways, LoadSafe, PTL

\* Whatever the loads are and whoever barges in: the limit is exceeded only by a
\* callback that found the funnel empty, and by none beside it (funnel.js:25-26).
THEOREM OverbookersAreAlone == Spec => []OverbookedAlone
  BY LoadAlways, LoadSafe, PTL

\* Whatever the loads are: a call sleeps only while callbacks run that will wake it
\* and that leave too little for it, although it never learns of callbacks that
\* start after it went to sleep (funnel.js:26-28).
THEOREM NoneSleepsOn == Spec => []NoLostWakeup
  BY LoadAlways, LoadSafe, PTL

-----------------------------------------------------------------------------
(* The order in which light calls get their turn                           *)

Waits(t) == status[t] \in {"sleeping", "resumed"}

\* Two calls of load 1 that both wait, with nobody having barged in after the first,
\* or come between two turns.
Rivals(s, t) ==
    /\ s < t /\ Load[s] = 1 /\ Load[t] = 1
    /\ Waits(s) /\ Waits(t) /\ NobodyBargedIn(s) /\ ~interrupted

\* Only calls that waited have raced. While a call of load 1 races nothing starts, so
\* it races on all that run; when it is resumed, and nobody barges in, there is room for
\* it. Of two rivals the first is never behind: it races when the second is still to
\* check again only in the middle of their turns.
OrderInv ==
    /\ \A t \in Task : (status[t] = "new" => raced[t] = {}) /\ (Waits(t) => raced[t] # {})
    /\ \A s \in Task : status[s] = "sleeping" /\ Load[s] = 1 => raced[s] = Running
    /\ \A s \in Task : status[s] = "resumed" /\ NobodyBargedIn(s) =>
         interrupted \/ draining # "no" \/ free >= 1 \/ Running = {}
    /\ \A s, t \in Task : Rivals(s, t) =>
         /\ status[s] = status[t] => <<s, t>> \in before
         /\ status[s] = "resumed" => status[t] = "resumed"
         /\ status[s] = "sleeping" /\ status[t] = "resumed" => draining # "no"

TurnInv == LoadInv /\ CallingOrder /\ OrderInv

LEMMA OrderInit == Init => OrderInv
<1> SUFFICES ASSUME Init PROVE OrderInv
  OBVIOUS
<1>1. \A t \in Task : status[t] = "new" /\ raced[t] = {}
  BY DEF Init
<1>2. \A t \in Task : ~Waits(t)
  BY <1>1 DEF Waits
<1> QED
  BY <1>1, <1>2 DEF OrderInv, Rivals

\* Whoever barged in has done so for good.
LEMMA BargedIn ==
    ASSUME TypeOK, OrderInv, NEW s \in Task, NobodyBargedIn(s)',
           \A u \in Task : status[u] # "new" => status'[u] # "new",
           \A u \in Task : raced'[u] # raced[u] => status[u] \in {"new", "sleeping", "resumed"}
    PROVE  NobodyBargedIn(s)
<1> SUFFICES ASSUME NEW u \in Task, u > s, status[u] # "new" PROVE raced[u] # {}
  BY DEF NobodyBargedIn
<1>1. raced'[u] # {}
  BY DEF NobodyBargedIn
<1>2. CASE raced'[u] = raced[u]
  BY <1>1, <1>2
<1>3. CASE raced'[u] # raced[u]
  BY <1>3 DEF OrderInv, Waits
<1> QED
  BY <1>2, <1>3

LEMMA OrderEnqueue ==
    ASSUME TurnInv, NEW u \in Task, Enqueue(u)
    PROVE  OrderInv'
<1>a. TypeOK /\ LoadInv /\ CallingOrder /\ OrderInv /\ NoLostWakeup
  BY LoadSafe DEF TurnInv, LoadInv
<1>b. Load' = Load
  BY DEF Load
<1>1. /\ draining' = draining /\ status[u] = "new" /\ Check(u)
      /\ \A s \in Task : s < u => status[s] # "new"
      /\ ~interrupted' => draining = "no" /\ ~interrupted
  BY <1>a DEF Enqueue, Interrupts, TypeOK
<1>2. /\ \A s \in Task : s # u => status'[s] = status[s] /\ raced'[s] = raced[s]
      /\ MustWait(u) => /\ status'[u] = "sleeping" /\ raced'[u] = Running
                        /\ free' = free /\ Running' = Running
                        /\ before' = Others(u) \cup (Sleeping \X {u})
      /\ ~MustWait(u) => /\ status'[u] = "running" /\ raced' = raced
                         /\ free' = free - Load[u] /\ Running' = Running \cup {u}
                         /\ before' = Others(u)
  BY <1>1, <1>a, CheckEffect
<1>3. \A s \in Task : status[s] # "new" => s < u
  <2> SUFFICES ASSUME NEW s \in Task, status[s] # "new", ~(s < u) PROVE FALSE
    OBVIOUS
  <2>1. s # u
    BY <1>1
  <2>2. u < s
    BY <2>1, FunnelAssumption DEF Task
  <2> QED
    BY <1>a, <1>1, <2>2 DEF CallingOrder
<1>4. ASSUME NEW s \in Task, NobodyBargedIn(s)', status[s] # "new"
      PROVE  NobodyBargedIn(s) /\ MustWait(u)
  <2>1. NobodyBargedIn(s)
    BY <1>a, <1>1, <1>2, <1>4, BargedIn
  <2>2. u > s
    BY <1>3, <1>4, FunnelAssumption DEF Task
  <2>3. status'[u] # "new" /\ raced[u] = {}
    BY <1>1, <1>2, <1>a DEF OrderInv
  <2>4. raced'[u] # {}
    BY <1>4, <2>2, <2>3 DEF NobodyBargedIn
  <2> QED
    BY <1>2, <2>1, <2>3, <2>4
<1>5. ASSUME NEW t \in Task
      PROVE  (status'[t] = "new" => raced'[t] = {}) /\ (Waits(t)' => raced'[t] # {})
  BY <1>1, <1>2, <1>a, <1>5 DEF OrderInv, Waits, MustWait
<1>6. ASSUME NEW s \in Task, status'[s] = "sleeping", Load[s] = 1
      PROVE  raced'[s] = Running'
  <2>1. CASE s = u
    BY <1>2, <1>6, <2>1
  <2>2. CASE s # u
    <3>1. status[s] = "sleeping" /\ raced'[s] = raced[s] /\ raced[s] = Running
      BY <1>2, <1>6, <1>a, <2>2 DEF OrderInv
    <3>2. free < 1 /\ Running # {}
      BY <1>a, <1>6, <3>1 DEF NoLostWakeup
    <3>3. MustWait(u)
      BY <3>2, <1>a, LoadTypes DEF MustWait, TypeOK
    <3> QED
      BY <1>2, <3>1, <3>3
  <2> QED
    BY <2>1, <2>2
<1>7. ASSUME NEW s \in Task, status'[s] = "resumed", NobodyBargedIn(s)', ~interrupted'
      PROVE  free' >= 1 \/ Running' = {}
  <2>1. s # u /\ status[s] = "resumed"
    BY <1>2, <1>7
  <2>2. NobodyBargedIn(s) /\ MustWait(u)
    BY <1>4, <1>7, <2>1
  <2>3. free >= 1 \/ Running = {}
    BY <1>1, <1>7, <1>a, <2>1, <2>2 DEF OrderInv
  <2> QED
    BY <1>2, <2>2, <2>3
<1>8. ASSUME NEW s \in Task, NEW t \in Task, Rivals(s, t)'
      PROVE  /\ status'[s] = status'[t] => <<s, t>> \in before'
             /\ status'[s] = "resumed" => status'[t] = "resumed"
             /\ ~(status'[s] = "sleeping" /\ status'[t] = "resumed")
  <2>0. /\ s < t /\ Load[s] = 1 /\ Load[t] = 1 /\ Waits(s)' /\ Waits(t)'
        /\ NobodyBargedIn(s)' /\ ~interrupted' /\ ~interrupted
    BY <1>1, <1>8, <1>b DEF Rivals
  <2>1. s # u
    <3>1. CASE t = u
      BY <2>0, <3>1, FunnelAssumption DEF Task
    <3>2. CASE t # u
      <4>1. status[t] # "new"
        BY <1>2, <2>0, <3>2 DEF Waits
      <4> QED
        BY <1>3, <2>0, <4>1, FunnelAssumption DEF Task
    <3> QED
      BY <3>1, <3>2
  <2>2. status'[s] = status[s] /\ Waits(s) /\ status[s] # "new"
    BY <1>2, <2>0, <2>1 DEF Waits
  <2>3. NobodyBargedIn(s) /\ MustWait(u)
    BY <1>4, <2>0, <2>2
  <2>4. before' = Others(u) \cup (Sleeping \X {u})
    BY <1>2, <2>3
  <2>5. CASE t = u
    <3>1. status'[t] = "sleeping"
      BY <1>2, <2>3, <2>5
    <3>2. status[s] # "resumed"
      <4> SUFFICES ASSUME status[s] = "resumed" PROVE FALSE
        OBVIOUS
      <4>1. free >= 1 \/ Running = {}
        BY <1>1, <1>a, <2>0, <2>3 DEF OrderInv
      <4> QED
        BY <2>0, <2>3, <2>5, <4>1, <1>a DEF MustWait, TypeOK
    <3>3. status[s] = "sleeping" /\ s \in Sleeping
      BY <2>2, <3>2 DEF Waits, Sleeping
    <3> QED
      BY <2>2, <2>4, <2>5, <3>1, <3>3
  <2>6. CASE t # u
    <3>1. status'[t] = status[t] /\ Rivals(s, t)
      BY <1>2, <2>0, <2>2, <2>3, <2>6 DEF Rivals, Waits
    <3>2. /\ status[s] = status[t] => <<s, t>> \in before
          /\ status[s] = "resumed" => status[t] = "resumed"
          /\ status[s] = "sleeping" /\ status[t] = "resumed" => draining # "no"
      BY <1>a, <3>1 DEF OrderInv
    <3>3. <<s, t>> \in before => <<s, t>> \in before'
      BY <2>1, <2>4, <2>6 DEF Others
    <3> QED
      BY <1>1, <2>0, <2>2, <3>1, <3>2, <3>3
  <2> QED
    BY <2>5, <2>6
<1> QED
  BY <1>b, <1>5, <1>6, <1>7, <1>8 DEF OrderInv

LEMMA OrderResume ==
    ASSUME TurnInv, NEW u \in Task, Resume(u)
    PROVE  OrderInv'
<1>a. TypeOK /\ LoadInv /\ OrderInv /\ NoLostWakeup
  BY LoadSafe DEF TurnInv, LoadInv
<1>b. Load' = Load
  BY DEF Load
<1>1. /\ status[u] = "resumed" /\ Check(u) /\ interrupted' = interrupted
      /\ Resumed # {u} => draining' # "no"
      /\ \A s \in Task : status[s] = "resumed" => <<s, u>> \notin before
  BY DEF Resume, Resumed, Rest
<1>2. /\ \A s \in Task : s # u => status'[s] = status[s] /\ raced'[s] = raced[s]
      /\ MustWait(u) => /\ status'[u] = "sleeping" /\ raced'[u] = Running
                        /\ free' = free /\ Running' = Running
                        /\ before' = Others(u) \cup (Sleeping \X {u})
      /\ ~MustWait(u) => /\ status'[u] = "running" /\ raced' = raced
                         /\ free' = free - Load[u] /\ Running' = Running \cup {u}
                         /\ before' = Others(u)
  BY <1>1, <1>a, CheckEffect
<1>3. \A s \in Task : s # u /\ status[s] = "resumed" => draining' # "no"
  BY <1>1 DEF Resumed
<1>4. \A s \in Task : NobodyBargedIn(s)' => NobodyBargedIn(s)
  BY <1>a, <1>1, <1>2, BargedIn
<1>5. ASSUME NEW t \in Task
      PROVE  (status'[t] = "new" => raced'[t] = {}) /\ (Waits(t)' => raced'[t] # {})
  BY <1>1, <1>2, <1>a, <1>5 DEF OrderInv, Waits, MustWait
<1>6. ASSUME NEW s \in Task, status'[s] = "sleeping", Load[s] = 1
      PROVE  raced'[s] = Running'
  <2>1. CASE s = u
    BY <1>2, <1>6, <2>1
  <2>2. CASE s # u
    <3>1. status[s] = "sleeping" /\ raced'[s] = raced[s] /\ raced[s] = Running
      BY <1>2, <1>6, <1>a, <2>2 DEF OrderInv
    <3>2. free < 1 /\ Running # {}
      BY <1>a, <1>6, <3>1 DEF NoLostWakeup
    <3>3. MustWait(u)
      BY <3>2, <1>a, LoadTypes DEF MustWait, TypeOK
    <3> QED
      BY <1>2, <3>1, <3>3
  <2> QED
    BY <2>1, <2>2
<1>7. ASSUME NEW s \in Task, status'[s] = "resumed"
      PROVE  draining' # "no"
  BY <1>2, <1>3, <1>7
<1>8. ASSUME NEW s \in Task, NEW t \in Task, Rivals(s, t)'
      PROVE  /\ status'[s] = status'[t] => <<s, t>> \in before'
             /\ status'[s] = "resumed" => status'[t] = "resumed"
             /\ status'[s] = "sleeping" /\ status'[t] = "resumed" => draining' # "no"
  <2>0. /\ s < t /\ Load[s] = 1 /\ Load[t] = 1 /\ Waits(s)' /\ Waits(t)'
        /\ NobodyBargedIn(s)' /\ s # t /\ ~interrupted
    BY <1>1, <1>8, <1>b, FunnelAssumption DEF Rivals, Task
  <2>1. Rivals(s, t)
    BY <1>1, <1>2, <1>4, <2>0 DEF Rivals, Waits
  <2>2. /\ status[s] = status[t] => <<s, t>> \in before
        /\ status[s] = "resumed" => status[t] = "resumed"
    BY <1>a, <2>1 DEF OrderInv
  <2>3. CASE t = u
    <3>1. status'[t] = "sleeping" /\ before' = Others(u) \cup (Sleeping \X {u})
      BY <1>2, <2>0, <2>3 DEF Waits
    <3>2. status[s] # "resumed"
      BY <1>1, <2>2, <2>3
    <3>3. s \in Sleeping /\ status'[s] = "sleeping"
      BY <1>2, <2>0, <2>3, <3>2 DEF Waits, Sleeping
    <3> QED
      BY <2>3, <3>1, <3>3
  <2>4. CASE s = u
    <3>1. status'[s] = "sleeping"
      BY <1>2, <2>0, <2>4 DEF Waits
    <3>2. status[t] = "resumed" /\ status'[t] = "resumed"
      BY <1>1, <1>2, <2>0, <2>2, <2>4
    <3> QED
      BY <1>7, <3>1, <3>2
  <2>5. CASE s # u /\ t # u
    <3>1. status'[s] = status[s] /\ status'[t] = status[t]
      BY <1>2, <2>5
    <3>2. <<s, t>> \in before => <<s, t>> \in before'
      BY <1>2, <2>5 DEF Others
    <3> QED
      BY <1>7, <2>2, <3>1, <3>2
  <2> QED
    BY <2>3, <2>4, <2>5
<1> QED
  BY <1>b, <1>5, <1>6, <1>7, <1>8 DEF OrderInv

LEMMA OrderSettle ==
    ASSUME TurnInv, NEW u \in Task, NEW outcome \in Settled, Settle(u, outcome)
    PROVE  OrderInv'
<1>a. TypeOK /\ LoadInv /\ OrderInv /\ OverbookedAlone
  BY DEF TurnInv, LoadInv
<1>b. Load' = Load
  BY DEF Load
<1>1. /\ status[u] = "running" /\ status'[u] = outcome
      /\ ~interrupted' => draining = "no" /\ ~interrupted
      /\ \A s \in Task : s # u =>
            status'[s] = IF s \in Woken(u) THEN "resumed" ELSE status[s]
      /\ \A s \in Task : s \in Woken(u) <=> status[s] = "sleeping" /\ u \in raced[s]
      /\ free' = free + Load[u] /\ Running' = Running \ {u}
      /\ before' = {pair \in before : pair[1] \in Woken(u) <=> pair[2] \in Woken(u)}
                       \cup (Resumed \X Woken(u))
      /\ \A s \in Task : raced'[s] = IF s \in Woken(u) THEN {u} ELSE raced[s]
      /\ draining' = draining
  BY <1>a, SettleEffect DEF Interrupts, TypeOK
<1>2. \A s \in Task : /\ Waits(s)' => Waits(s) /\ s # u
                      /\ status'[s] = "new" <=> status[s] = "new"
  BY <1>1 DEF Waits, Settled
<1>3. \A s \in Task : NobodyBargedIn(s)' => NobodyBargedIn(s)
  <2>1. \A s \in Task : raced'[s] # {} => raced[s] # {}
    BY <1>1
  <2> QED
    BY <1>2, <2>1 DEF NobodyBargedIn
<1>4. u \in Running
  BY <1>1 DEF Running
<1>5. free' >= 1 \/ Running' = {}
  <2>1. CASE free < 0
    <3>1. Cardinality(Running) = 1
      BY <1>a, <2>1 DEF OverbookedAlone
    <3>2. Cardinality(Running') = 0 /\ IsFiniteSet(Running')
      BY <1>1, <1>4, <3>1, LoadTypes, FS_RemoveElement
    <3> QED
      BY <3>2, FS_EmptySet
  <2>2. CASE ~(free < 0)
    BY <1>1, <1>a, <2>2, LoadTypes DEF TypeOK
  <2> QED
    BY <2>1, <2>2
<1>6. ASSUME NEW s \in Task, status[s] = "sleeping", Load[s] = 1
      PROVE  s \in Woken(u)
  BY <1>1, <1>4, <1>6, <1>a DEF OrderInv
<1>7. ASSUME NEW s \in Task, status'[s] = "sleeping", Load[s] = 1
      PROVE  FALSE
  BY <1>1, <1>2, <1>6, <1>7 DEF Waits, Settled
<1>8. ASSUME NEW s \in Task, NEW t \in Task, Rivals(s, t)'
      PROVE  /\ <<s, t>> \in before'
             /\ status'[s] = "resumed" /\ status'[t] = "resumed"
  <2>0. /\ Rivals(s, t) /\ Load[s] = 1 /\ Load[t] = 1 /\ Waits(s)' /\ Waits(t)'
        /\ draining = "no"
    BY <1>1, <1>2, <1>3, <1>8, <1>b DEF Rivals
  <2>1. status'[s] = "resumed" /\ status'[t] = "resumed"
    BY <1>7, <2>0 DEF Waits
  <2>2. /\ status[s] = status[t] => <<s, t>> \in before
        /\ status[s] = "resumed" => status[t] = "resumed"
        /\ ~(status[s] = "sleeping" /\ status[t] = "resumed")
    BY <1>1, <1>a, <2>0 DEF OrderInv
  <2>3. status[s] = status[t]
    BY <2>0, <2>2 DEF Rivals, Waits
  <2>4. s \in Woken(u) <=> t \in Woken(u)
    BY <1>1, <1>6, <2>0, <2>3
  <2> QED
    BY <1>1, <2>1, <2>2, <2>3, <2>4
<1> QED
  BY <1>1, <1>2, <1>5, <1>7, <1>8, <1>b, <1>a DEF OrderInv

LEMMA TurnNext == TurnInv /\ [Next]_vars => TurnInv'
<1> SUFFICES ASSUME TurnInv, [Next]_vars PROVE TurnInv'
  OBVIOUS
<1>a. LoadInv' /\ CallingOrder' /\ OrderInv
  BY LoadNext, OrderNext DEF TurnInv, LoadInv
<1>1. ASSUME NEW t \in Task, Enqueue(t) PROVE OrderInv'
  BY <1>1, OrderEnqueue
<1>2. ASSUME NEW t \in Task, Resume(t) PROVE OrderInv'
  BY <1>2, OrderResume
<1>3. ASSUME NEW t \in Task, NEW outcome \in Settled, Settle(t, outcome) PROVE OrderInv'
  BY <1>3, OrderSettle
<1>4. ASSUME UNCHANGED <<status, free, raced, before, draining, interrupted>> PROVE OrderInv'
  <2>1. Running' = Running /\ Load' = Load
    BY <1>4 DEF Running, Load
  <2> QED
    BY <1>a, <1>4, <2>1 DEF OrderInv, Rivals, Waits, NobodyBargedIn
<1>5. ASSUME DequeueAll \/ DequeueReturns \/ UNCHANGED vars
      PROVE  UNCHANGED <<status, free, raced, before, draining, interrupted>>
  BY <1>5 DEF DequeueAll, DequeueReturns, vars
<1>6. OrderInv'
  BY <1>1, <1>2, <1>3, <1>4, <1>5 DEF Next, Proceed
<1> QED
  BY <1>a, <1>6 DEF TurnInv

\* No step starts a call ahead of its rival.
LEMMA TurnStep ==
    ASSUME TurnInv, [Next]_vars, NEW s \in Task, NEW t \in Task,
           Rivals(s, t), status[t] = "resumed"
    PROVE  status'[t] # "running"
<1>a. /\ TypeOK /\ OrderInv /\ NoLostWakeup
      /\ s < t /\ Load[s] = 1 /\ Load[t] = 1 /\ Waits(s) /\ s # t
  BY LoadSafe, FunnelAssumption DEF TurnInv, LoadInv, Rivals, Task
<1>1. ASSUME NEW u \in Task, u # t, status[u] \in {"new", "resumed"}, Check(u)
      PROVE  status'[t] # "running"
  BY <1>1, <1>a, CheckEffect
<1>2. ASSUME Resume(t) PROVE status'[t] # "running"
  <2>1. Check(t) /\ (status[s] = "resumed" => <<s, t>> \notin before)
    BY <1>2 DEF Resume, Resumed
  <2>2. status[s] = "sleeping"
    BY <1>a, <2>1 DEF OrderInv, Waits
  <2>3. free < 1 /\ Running # {}
    BY <1>a, <2>2 DEF NoLostWakeup
  <2>4. MustWait(t)
    BY <1>a, <2>3 DEF MustWait
  <2> QED
    BY <1>a, <2>1, <2>4, CheckEffect
<1>3. ASSUME NEW u \in Task, NEW outcome \in Settled, Settle(u, outcome)
      PROVE  status'[t] # "running"
  BY <1>3, <1>a, SettleEffect DEF Settled
<1>4. ASSUME DequeueAll \/ DequeueReturns \/ UNCHANGED vars
      PROVE  status' = status
  BY <1>4 DEF DequeueAll, DequeueReturns, vars
<1>5. ASSUME NEW u \in Task, Enqueue(u) PROVE status'[t] # "running"
  BY <1>1, <1>5 DEF Enqueue
<1>6. ASSUME NEW u \in Task, Resume(u) PROVE status'[t] # "running"
  BY <1>1, <1>2, <1>6 DEF Resume, Resumed
<1> QED
  BY <1>3, <1>4, <1>5, <1>6 DEF Next, Proceed

\* Light calls, as all callers in src/ make them, are resumed in calling order unless
\* somebody barges in, which no caller does that enqueues everything at once; other
\* calls, whatever their load, cannot change this (funnel.js:26-28).
THEOREM LightInOrder == Spec => ResumedInOrder
<1>1. Init => TurnInv
  <2> SUFFICES ASSUME Init PROVE TurnInv
    OBVIOUS
  <2>1. CallingOrder
    <3>1. \A t \in Task : status[t] = "new"
      BY DEF Init
    <3>2. DOMAIN queue = {} /\ DOMAIN batch = {}
      BY DEF Init
    <3> QED
      BY <3>1, <3>2 DEF CallingOrder
  <2> QED
    BY <2>1, LoadInit, OrderInit DEF TurnInv
<1>2. TurnInv /\ [Next]_vars =>
        [\A s, t \in Task :
           /\ s < t /\ Load[s] = 1 /\ Load[t] = 1
           /\ status[t] = "resumed" /\ status[s] \in {"sleeping", "resumed"}
           /\ NobodyBargedIn(s) /\ ~interrupted
           => status'[t] # "running"]_vars
  BY TurnStep DEF Rivals, Waits
<1> QED
  BY <1>1, <1>2, TurnNext, PTL DEF Spec, ResumedInOrder
=============================================================================
