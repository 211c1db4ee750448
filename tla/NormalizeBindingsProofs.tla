---------------------- MODULE NormalizeBindingsProofs ----------------------
(***************************************************************************)
(* Proofs about NormalizeBindings, for every number of instances and       *)
(* bindings, every target count and any number of faults.                  *)
(***************************************************************************)
EXTENDS NormalizeBindings, FiniteSetTheorems, WellFoundedInduction, TLAPS

-----------------------------------------------------------------------------
(* Facts about the helpers                                                 *)

\* The bindings that a listing shows for an instance can be counted.
LEMMA SucceededFinite ==
    ASSUME NEW s, NEW i
    PROVE  /\ IsFiniteSet(Succeeded(s, i))
           /\ Cardinality(Succeeded(s, i)) \in Nat
<1>1. IsFiniteSet(BindingId)
  BY FS_Interval, BoundAssumption DEF BindingId
<1>2. Succeeded(s, i) \subseteq BindingId
  BY DEF Succeeded, Listed
<1>3. IsFiniteSet(Succeeded(s, i))
  BY <1>1, <1>2, FS_Subset
<1> QED
  BY <1>3, FS_CardinalityType

\* What the changes of a snapshot look like: a pruned binding is a succeeded one
\* of the instance but not its most recent one, and a binding that is cleaned
\* up is a listed one that has not succeeded.
LEMMA ChangesShape ==
    ASSUME NEW s, NEW i \in Instance, NEW t \in Nat, NEW c \in Changes(s, i, t)
    PROVE  /\ c \in Change
           /\ c.inst = i
           /\ c.kind = "prune" => c.arg \in Succeeded(s, i) \ MostRecent(Succeeded(s, i))
           /\ c.kind = "cleanup" => c.arg \in NotSucceeded(s, i)
<1>1. CASE c \in Missing(s, i, t)
  <2>1. PICK n \in 1..(t - Cardinality(Succeeded(s, i))) : c = Create(i, n)
    BY <1>1 DEF Missing
  <2>2. n \in Nat
    BY <2>1, SucceededFinite
  <2> QED
    BY <2>1, <2>2 DEF Create, Change
<1>2. CASE c \in {Prune(i, b) : b \in Ambivalent(s, i, t)}
  <2>1. PICK b \in Ambivalent(s, i, t) : c = Prune(i, b)
    BY <1>2
  <2>2. b \in Succeeded(s, i) \ MostRecent(Succeeded(s, i))
    BY <2>1 DEF Ambivalent
  <2>3. b \in Nat
    BY <2>2, BoundAssumption DEF Succeeded, Listed, BindingId
  <2> QED
    BY <2>1, <2>2, <2>3 DEF Prune, Change
<1>3. CASE c \in {Cleanup(i, b) : b \in NotSucceeded(s, i)}
  <2>1. PICK b \in NotSucceeded(s, i) : c = Cleanup(i, b)
    BY <1>3
  <2>2. b \in Nat
    BY <2>1, BoundAssumption DEF NotSucceeded, Listed, BindingId
  <2> QED
    BY <2>1, <2>2 DEF Cleanup, Change
<1> QED
  BY <1>1, <1>2, <1>3 DEF Changes

-----------------------------------------------------------------------------
(* Type correctness                                                        *)

LEMMA InitType == Init => TypeOK
<1> SUFFICES ASSUME Init PROVE TypeOK
  OBVIOUS
<1>1. PICK n \in 0..MaxInitial :
         /\ issued = n
         /\ clock = n
         /\ \E s \in [1..n -> InitialState] :
              lastOp = [b \in BindingId |-> IF b <= n THEN s[b] ELSE "none"]
         /\ \E o \in [1..n -> Instance] :
              owner = [b \in BindingId |-> IF b <= n THEN o[b] ELSE 0]
         /\ updatedAt = [b \in BindingId |-> IF b <= n THEN b ELSE 0]
  BY DEF Init
<1>2. PICK s \in [1..n -> InitialState] :
         lastOp = [b \in BindingId |-> IF b <= n THEN s[b] ELSE "none"]
  BY <1>1
<1>3. PICK o \in [1..n -> Instance] :
         owner = [b \in BindingId |-> IF b <= n THEN o[b] ELSE 0]
  BY <1>1
<1>4. lastOp \in [BindingId -> OpState]
  <2>1. InitialState \subseteq OpState
    BY InitialStateAssumption DEF OpState
  <2>2. \A b \in BindingId : b <= n => s[b] \in OpState
    BY <1>2, <2>1, BoundAssumption DEF BindingId
  <2>3. "none" \in OpState
    BY DEF OpState
  <2> QED
    BY <1>2, <2>2, <2>3
<1>5. owner \in [BindingId -> Instance \cup {0}]
  BY <1>3, BoundAssumption DEF BindingId
<1>6. updatedAt \in [BindingId -> Nat] /\ issued \in 0..MaxBindings /\ clock \in Nat
  BY <1>1, BoundAssumption DEF BindingId
<1>7. seen \in [BindingId -> OpState]
  BY DEF Init, OpState
<1>8. /\ phase = "idle" /\ target \in Target /\ scope \in Scopes
      /\ waiting = {} /\ polling = {} /\ rejected = FALSE /\ outcome = "none"
      /\ refusals = 0 /\ late = 0
  BY DEF Init
<1>9. refusals \in 0..MaxRefusals /\ late \in 0..MaxLate
  BY <1>8, BoundAssumption
<1> QED
  BY <1>4, <1>5, <1>6, <1>7, <1>8, <1>9 DEF TypeOK

LEMMA AcceptType ==
    ASSUME TypeOK, NEW c \in Change, NEW b \in BindingId,
           AcceptCreate(c, b) \/ AcceptDelete(c, b)
    PROVE  /\ lastOp' \in [BindingId -> OpState]
           /\ owner' \in [BindingId -> Instance \cup {0}]
           /\ updatedAt' \in [BindingId -> Nat]
           /\ issued' \in 0..MaxBindings
           /\ clock' \in Nat
<1>1. CASE AcceptCreate(c, b)
  <2>1. c.inst \in Instance
    BY DEF Change
  <2>2. "creating" \in OpState
    BY DEF OpState, InProgress
  <2> QED
    BY <1>1, <2>1, <2>2, BoundAssumption DEF TypeOK, AcceptCreate, BindingId
<1>2. CASE AcceptDelete(c, b)
  <2>1. "deleting" \in OpState
    BY DEF OpState, InProgress
  <2> QED
    BY <1>2, <2>1 DEF TypeOK, AcceptDelete
<1> QED
  BY <1>1, <1>2

\* A step of the run, of the service-manager or of a fault leads from a state
\* of the right types to another one.
LEMMA NextType == TypeOK /\ [Next]_vars => TypeOK'
<1> SUFFICES ASSUME TypeOK, [Next]_vars PROVE TypeOK'
  OBVIOUS
<1>1. ASSUME NEW t \in Target, NEW sc \in Scopes, Start(t, sc) PROVE TypeOK'
  BY <1>1 DEF Start, TypeOK, svm
<1>2. CASE Read
  <2>1. target \in Nat
    BY TargetAssumption DEF TypeOK
  <2>2. waiting' \subseteq Change
    <3>1. SUFFICES ASSUME NEW i \in scope \cap Usable,
                          NEW c \in Changes(lastOp, i, target)
                   PROVE  c \in Change
      BY <1>2 DEF Read
    <3>2. i \in Instance
      BY InstanceAssumption
    <3> QED
      BY <2>1, <3>2, ChangesShape
  <2> QED
    BY <1>2, <2>2 DEF Read, TypeOK, svm
<1>3. CASE ReadFails
  BY <1>3, BoundAssumption DEF ReadFails, TypeOK, svm
<1>4. ASSUME NEW c \in waiting, NEW b \in BindingId, Submit(c, b) PROVE TypeOK'
  <2>1. c \in Change
    BY DEF TypeOK
  <2> QED
    BY <1>4, <2>1, AcceptType DEF Submit, TypeOK
<1>5. ASSUME NEW c \in waiting, NEW b \in BindingId, LoseResponse(c, b) PROVE TypeOK'
  <2>1. c \in Change
    BY DEF TypeOK
  <2> QED
    BY <1>5, <2>1, AcceptType, BoundAssumption DEF LoseResponse, TypeOK
<1>6. ASSUME NEW c \in waiting, RefuseDelete(c) PROVE TypeOK'
  BY <1>6 DEF RefuseDelete, TypeOK, svm
<1>7. ASSUME NEW c \in waiting, Refuse(c) PROVE TypeOK'
  BY <1>7, BoundAssumption DEF Refuse, TypeOK, svm
<1>8. ASSUME NEW b \in polling, Poll(b) PROVE TypeOK'
  BY <1>8 DEF Poll, TypeOK, svm
<1>9. ASSUME NEW b \in polling, PollFails(b) PROVE TypeOK'
  BY <1>9, BoundAssumption DEF PollFails, TypeOK, svm
<1>10. CASE Finish
  BY <1>10 DEF Finish, TypeOK, svm
<1>11. CASE Crash
  BY <1>11, BoundAssumption DEF Crash, TypeOK, svm
<1>12. ASSUME NEW b \in BindingId, CreateCompletes(b) PROVE TypeOK'
  BY <1>12 DEF CreateCompletes, TypeOK, run, OpState
<1>13. ASSUME NEW b \in BindingId, DeleteCompletes(b) PROVE TypeOK'
  BY <1>13 DEF DeleteCompletes, TypeOK, run, OpState
<1>14. ASSUME NEW b \in BindingId, OperationFails(b) PROVE TypeOK'
  BY <1>14, BoundAssumption DEF OperationFails, TypeOK, run, OpState, FailedState
<1>15. CASE UNCHANGED vars
  BY <1>15 DEF vars, TypeOK
<1> QED
  BY <1>1, <1>2, <1>3, <1>4, <1>5, <1>6, <1>7, <1>8, <1>9, <1>10, <1>11, <1>12,
     <1>13, <1>14, <1>15 DEF Next, Proceed, Complete, Fault

\* The state of service-manager, run and fault counters always has its type.
THEOREM TypeCorrect == Spec => []TypeOK
  BY InitType, NextType, PTL DEF Spec

-----------------------------------------------------------------------------
(* The most recent binding survives                                        *)

\* Bindings are issued one after the other, and a listing shows only issued ones.
OnlyIssued == \A b \in BindingId : b > issued => lastOp[b] = "none" /\ seen[b] = "none"

\* A binding that was listed as succeeded does not go back.
SeenAsSucceeded ==
    \A b \in BindingId :
        seen[b] = "succeeded" =>
            lastOp[b] \in {"succeeded", "deleting", "deleteFailed", "gone"}

\* No change in the queue deletes the most recent binding of an instance, and
\* all that delete anything delete a binding that was issued.
QueueSpares ==
    \A c \in waiting :
        c.kind # "create" =>
            /\ c.arg \in 1..issued
            /\ \A i \in Instance : c.arg \notin MostRecent(Succeeded(seen, i))

SurvivalInv == /\ TypeOK
               /\ OnlyIssued
               /\ SeenAsSucceeded
               /\ QueueSpares
               /\ MostRecentSurvives

\* The most recent listed bindings of an instance stay what they are as long as
\* the listing is the same and no time stamp or owner of a binding in it changes.
LEMMA SameMostRecent ==
    ASSUME seen' = seen,
           \A b \in BindingId :
               IF seen[b] = "succeeded"
               THEN owner'[b] = owner[b] /\ updatedAt'[b] = updatedAt[b]
               ELSE TRUE
    PROVE  \A i : MostRecent(Succeeded(seen, i))' = MostRecent(Succeeded(seen, i))
<1> SUFFICES ASSUME NEW i
             PROVE  MostRecent(Succeeded(seen, i))' = MostRecent(Succeeded(seen, i))
  OBVIOUS
<1>1. Succeeded(seen, i)' = Succeeded(seen, i)
  BY DEF Succeeded, Listed
<1>2. \A b \in Succeeded(seen, i) : updatedAt'[b] = updatedAt[b]
  BY DEF Succeeded, Listed
<1> QED
  BY <1>1, <1>2 DEF MostRecent

\* A step that takes no new listing, adds nothing to the queue and moves only
\* bindings that are in progress or not succeeded keeps the invariant.
LEMMA SurvivalStep ==
    ASSUME SurvivalInv, TypeOK',
           seen' = seen,
           waiting' \subseteq waiting,
           issued' \in Nat /\ issued <= issued',
           \A b \in BindingId : b > issued' => lastOp'[b] = lastOp[b],
           \A b \in BindingId :
               seen[b] = "succeeded" =>
                   /\ owner'[b] = owner[b] /\ updatedAt'[b] = updatedAt[b]
                   /\ lastOp'[b] \in {"succeeded", "deleting", "deleteFailed", "gone"}
                   /\ \A i \in Instance :
                        b \in MostRecent(Succeeded(seen, i)) => lastOp'[b] = lastOp[b]
    PROVE  SurvivalInv'
<1>1. \A i \in Instance :
         MostRecent(Succeeded(seen, i))' = MostRecent(Succeeded(seen, i))
  BY SameMostRecent
<1>2. issued \in Nat
  BY BoundAssumption DEF SurvivalInv, TypeOK
<1>3. OnlyIssued'
  <2> SUFFICES ASSUME NEW b \in BindingId, b > issued'
               PROVE  lastOp'[b] = "none" /\ seen'[b] = "none"
    BY DEF OnlyIssued
  <2>1. b > issued
    BY <1>2, BoundAssumption DEF BindingId
  <2> QED
    BY <2>1 DEF SurvivalInv, OnlyIssued
<1>4. SeenAsSucceeded'
  BY DEF SeenAsSucceeded
<1>5. QueueSpares'
  <2> SUFFICES ASSUME NEW c \in waiting', c.kind # "create"
               PROVE  /\ c.arg \in 1..issued'
                      /\ \A i \in Instance : c.arg \notin MostRecent(Succeeded(seen, i))'
    BY DEF QueueSpares
  <2>1. c.arg \in 1..issued
        /\ \A i \in Instance : c.arg \notin MostRecent(Succeeded(seen, i))
    BY DEF SurvivalInv, QueueSpares
  <2> QED
    BY <1>1, <1>2, <2>1
<1>6. MostRecentSurvives'
  <2> SUFFICES ASSUME NEW i \in Instance, NEW b \in MostRecent(Succeeded(seen, i))'
               PROVE  lastOp'[b] = "succeeded"
    BY DEF MostRecentSurvives
  <2>1. b \in MostRecent(Succeeded(seen, i))
    BY <1>1
  <2>2. b \in BindingId /\ seen[b] = "succeeded"
    BY <2>1 DEF MostRecent, Succeeded, Listed
  <2>3. lastOp[b] = "succeeded"
    BY <2>1 DEF SurvivalInv, MostRecentSurvives
  <2> QED
    BY <2>1, <2>2, <2>3
<1> QED
  BY <1>3, <1>4, <1>5, <1>6 DEF SurvivalInv

\* What the service-manager does on accepting a request from the queue.
LEMMA SurvivalAccept ==
    ASSUME SurvivalInv, TypeOK', NEW c \in waiting, NEW b \in BindingId,
           AcceptCreate(c, b) \/ AcceptDelete(c, b),
           seen' = seen, waiting' \subseteq waiting
    PROVE  SurvivalInv'
<1>1. issued \in Nat /\ TypeOK /\ c \in Change
  BY BoundAssumption DEF SurvivalInv, TypeOK
<1>2. CASE AcceptCreate(c, b)
  <2>1. b \in Nat /\ b > issued
    BY <1>1, <1>2 DEF AcceptCreate
  <2>2. seen[b] = "none"
    BY <2>1 DEF SurvivalInv, OnlyIssued
  <2>3. \A d \in BindingId : d # b => lastOp'[d] = lastOp[d] /\ owner'[d] = owner[d]
    BY <1>1, <1>2 DEF AcceptCreate, TypeOK
  <2>4. issued' = b /\ updatedAt' = updatedAt
    BY <1>2 DEF AcceptCreate
  <2>5. \A d \in BindingId : d > issued' => lastOp'[d] = lastOp[d]
    BY <2>1, <2>3, <2>4
  <2>6. \A d \in BindingId :
           seen[d] = "succeeded" =>
               /\ owner'[d] = owner[d] /\ updatedAt'[d] = updatedAt[d]
               /\ lastOp'[d] = lastOp[d]
    BY <2>2, <2>3, <2>4
  <2>7. \A d \in BindingId :
           seen[d] = "succeeded" =>
               lastOp[d] \in {"succeeded", "deleting", "deleteFailed", "gone"}
    BY DEF SurvivalInv, SeenAsSucceeded
  <2>8. issued' \in Nat /\ issued <= issued'
    BY <1>1, <2>1, <2>4
  <2> QED
    BY <2>5, <2>6, <2>7, <2>8, SurvivalStep
<1>3. CASE AcceptDelete(c, b)
  <2>1. b \in 1..issued /\ \A i \in Instance : b \notin MostRecent(Succeeded(seen, i))
    BY <1>3 DEF AcceptDelete, SurvivalInv, QueueSpares
  <2>2. /\ issued' = issued /\ owner' = owner /\ updatedAt' = updatedAt
        /\ lastOp' = [lastOp EXCEPT ![b] = "deleting"]
    BY <1>3 DEF AcceptDelete
  <2>3. lastOp'[b] = "deleting" /\ \A d \in BindingId : d # b => lastOp'[d] = lastOp[d]
    BY <1>1, <2>2 DEF TypeOK
  <2>4. \A d \in BindingId : d > issued' => lastOp'[d] = lastOp[d]
    BY <1>1, <2>1, <2>2, <2>3
  <2>5. \A d \in BindingId :
           seen[d] = "succeeded" =>
               lastOp[d] \in {"succeeded", "deleting", "deleteFailed", "gone"}
    BY DEF SurvivalInv, SeenAsSucceeded
  <2>6. \A d \in BindingId :
           seen[d] = "succeeded" =>
               /\ owner'[d] = owner[d] /\ updatedAt'[d] = updatedAt[d]
               /\ lastOp'[d] \in {"succeeded", "deleting", "deleteFailed", "gone"}
               /\ \A i \in Instance :
                    d \in MostRecent(Succeeded(seen, i)) => lastOp'[d] = lastOp[d]
    BY <2>1, <2>2, <2>3, <2>5
  <2>7. issued' \in Nat /\ issued <= issued'
    BY <1>1, <2>2
  <2> QED
    BY <2>4, <2>6, <2>7, SurvivalStep
<1> QED
  BY <1>2, <1>3

\* Steps that leave the service-manager alone and take no new listing.
LEMMA SurvivalQuiet ==
    ASSUME SurvivalInv, TypeOK', UNCHANGED svm, seen' = seen, waiting' \subseteq waiting
    PROVE  SurvivalInv'
<1>1. issued \in Nat
  BY BoundAssumption DEF SurvivalInv, TypeOK
<1>2. \A d \in BindingId :
         seen[d] = "succeeded" =>
             lastOp[d] \in {"succeeded", "deleting", "deleteFailed", "gone"}
  BY DEF SurvivalInv, SeenAsSucceeded
<1>3. issued' = issued /\ owner' = owner /\ updatedAt' = updatedAt /\ lastOp' = lastOp
  BY DEF svm
<1> QED
  BY <1>1, <1>2, <1>3, SurvivalStep

\* The service-manager finishes an operation: it never touches a succeeded
\* binding.
LEMMA SurvivalServer ==
    ASSUME SurvivalInv, TypeOK', NEW b \in BindingId,
           CreateCompletes(b) \/ DeleteCompletes(b) \/ OperationFails(b)
    PROVE  SurvivalInv'
<1>1. issued \in Nat /\ TypeOK
  BY BoundAssumption DEF SurvivalInv, TypeOK
<1>2. /\ issued' = issued /\ owner' = owner
      /\ seen' = seen /\ waiting' = waiting
      /\ lastOp[b] \in {"creating", "deleting"}
  BY DEF CreateCompletes, DeleteCompletes, OperationFails, run, InProgress
<1>3. \A d \in BindingId : d # b => lastOp'[d] = lastOp[d] /\ updatedAt'[d] = updatedAt[d]
  BY <1>1 DEF CreateCompletes, DeleteCompletes, OperationFails, TypeOK
<1>4. seen[b] = "succeeded" =>
        /\ lastOp[b] = "deleting"
        /\ \A i \in Instance : b \notin MostRecent(Succeeded(seen, i))
  BY <1>2 DEF SurvivalInv, SeenAsSucceeded, MostRecentSurvives
<1>5. seen[b] = "succeeded" =>
        /\ lastOp'[b] \in {"gone", "deleteFailed"}
        /\ updatedAt' = updatedAt
  BY <1>1, <1>4 DEF CreateCompletes, DeleteCompletes, OperationFails, TypeOK
<1>6. b <= issued
  BY <1>1, <1>2, BoundAssumption DEF SurvivalInv, OnlyIssued, BindingId
<1>7. \A d \in BindingId : d > issued' => lastOp'[d] = lastOp[d]
  <2> SUFFICES ASSUME NEW d \in BindingId, d > issued' PROVE d # b
    BY <1>3
  <2> QED
    BY <1>1, <1>2, <1>6, BoundAssumption DEF BindingId
<1>8. \A d \in BindingId :
         seen[d] = "succeeded" =>
             lastOp[d] \in {"succeeded", "deleting", "deleteFailed", "gone"}
  BY DEF SurvivalInv, SeenAsSucceeded
<1>9. \A d \in BindingId :
         seen[d] = "succeeded" =>
             /\ owner'[d] = owner[d] /\ updatedAt'[d] = updatedAt[d]
             /\ lastOp'[d] \in {"succeeded", "deleting", "deleteFailed", "gone"}
             /\ \A i \in Instance :
                  d \in MostRecent(Succeeded(seen, i)) => lastOp'[d] = lastOp[d]
  BY <1>2, <1>3, <1>4, <1>5, <1>8
<1> QED
  BY <1>1, <1>2, <1>7, <1>9, SurvivalStep

\* A new listing: the queue is made for it.
LEMMA SurvivalRead == ASSUME SurvivalInv, TypeOK', Read PROVE SurvivalInv'
<1>1. /\ seen' = lastOp /\ lastOp' = lastOp /\ owner' = owner
      /\ updatedAt' = updatedAt /\ issued' = issued
      /\ waiting' = UNION {Changes(lastOp, i, target) : i \in scope \cap Usable}
  BY DEF Read, svm
<1>2. \A i : /\ Succeeded(seen, i)' = Succeeded(lastOp, i)
             /\ MostRecent(Succeeded(seen, i))' = MostRecent(Succeeded(lastOp, i))
  BY <1>1 DEF Succeeded, Listed, MostRecent
<1>3. OnlyIssued' /\ SeenAsSucceeded'
  BY <1>1 DEF SurvivalInv, OnlyIssued, SeenAsSucceeded
<1>4. MostRecentSurvives'
  BY <1>1, <1>2 DEF MostRecentSurvives, MostRecent, Succeeded
<1>5. QueueSpares'
  <2> SUFFICES ASSUME NEW c \in waiting', c.kind # "create"
               PROVE  /\ c.arg \in 1..issued'
                      /\ \A j \in Instance : c.arg \notin MostRecent(Succeeded(seen, j))'
    BY DEF QueueSpares
  <2>1. PICK i \in scope \cap Usable : c \in Changes(lastOp, i, target)
    BY <1>1
  <2>2. i \in Instance /\ target \in Nat
    BY InstanceAssumption, TargetAssumption DEF SurvivalInv, TypeOK
  <2>3. /\ c \in Change
        /\ c.kind = "prune" => c.arg \in Succeeded(lastOp, i) \ MostRecent(Succeeded(lastOp, i))
        /\ c.kind = "cleanup" => c.arg \in NotSucceeded(lastOp, i)
    BY <2>1, <2>2, ChangesShape
  <2>4. c.kind \in {"prune", "cleanup"}
    BY <2>3 DEF Change
  <2>5. c.arg \in Listed(lastOp, i)
    BY <2>3, <2>4 DEF Succeeded, NotSucceeded
  <2>6. c.arg \in 1..issued'
    <3>1. c.arg \in BindingId /\ lastOp[c.arg] # "none" /\ owner[c.arg] = i
      BY <2>5 DEF Listed
    <3>2. ~(c.arg > issued)
      BY <3>1 DEF SurvivalInv, OnlyIssued
    <3> QED
      BY <1>1, <3>1, <3>2, BoundAssumption DEF BindingId, SurvivalInv, TypeOK
  <2>7. ASSUME NEW j \in Instance PROVE c.arg \notin MostRecent(Succeeded(lastOp, j))
    <3>1. CASE c.kind = "prune"
      <4>1. c.arg \in Succeeded(lastOp, j) => i = j
        BY <2>5 DEF Succeeded, Listed
      <4> QED
        BY <2>3, <3>1, <4>1 DEF MostRecent
    <3>2. CASE c.kind = "cleanup"
      BY <2>3, <3>2 DEF NotSucceeded, MostRecent, Succeeded
    <3> QED
      BY <2>4, <3>1, <3>2
  <2> QED
    BY <1>2, <2>6, <2>7
<1> QED
  BY <1>3, <1>4, <1>5 DEF SurvivalInv

LEMMA SurvivalInit == Init => SurvivalInv
<1> SUFFICES ASSUME Init PROVE SurvivalInv
  OBVIOUS
<1>1. seen = [b \in BindingId |-> "none"] /\ waiting = {}
  BY DEF Init
<1>2. \A b \in BindingId : b > issued => lastOp[b] = "none"
  <2>1. PICK n \in 0..MaxInitial :
           /\ issued = n
           /\ \E s \in [1..n -> InitialState] :
                lastOp = [b \in BindingId |-> IF b <= n THEN s[b] ELSE "none"]
    BY DEF Init
  <2> QED
    BY <2>1, BoundAssumption DEF BindingId
<1>3. OnlyIssued /\ SeenAsSucceeded
  BY <1>1, <1>2 DEF OnlyIssued, SeenAsSucceeded
<1>4. QueueSpares
  BY <1>1 DEF QueueSpares
<1>5. MostRecentSurvives
  BY <1>1 DEF MostRecentSurvives, MostRecent, Succeeded, Listed
<1> QED
  BY <1>3, <1>4, <1>5, InitType DEF SurvivalInv

LEMMA SurvivalNext == SurvivalInv /\ [Next]_vars => SurvivalInv'
<1> SUFFICES ASSUME SurvivalInv, [Next]_vars PROVE SurvivalInv'
  OBVIOUS
<1>0. TypeOK'
  BY NextType DEF SurvivalInv
<1>1. ASSUME NEW t \in Target, NEW sc \in Scopes, Start(t, sc) PROVE SurvivalInv'
  BY <1>0, <1>1, SurvivalQuiet DEF Start
<1>2. CASE Read
  BY <1>0, <1>2, SurvivalRead
<1>3. CASE ReadFails
  BY <1>0, <1>3, SurvivalQuiet DEF ReadFails
<1>4. ASSUME NEW c \in waiting, NEW b \in BindingId, Submit(c, b) PROVE SurvivalInv'
  BY <1>0, <1>4, SurvivalAccept DEF Submit
<1>5. ASSUME NEW c \in waiting, NEW b \in BindingId, LoseResponse(c, b) PROVE SurvivalInv'
  BY <1>0, <1>5, SurvivalAccept DEF LoseResponse
<1>6. ASSUME NEW c \in waiting, RefuseDelete(c) PROVE SurvivalInv'
  BY <1>0, <1>6, SurvivalQuiet DEF RefuseDelete
<1>7. ASSUME NEW c \in waiting, Refuse(c) PROVE SurvivalInv'
  BY <1>0, <1>7, SurvivalQuiet DEF Refuse
<1>8. ASSUME NEW b \in polling, Poll(b) PROVE SurvivalInv'
  BY <1>0, <1>8, SurvivalQuiet DEF Poll
<1>9. ASSUME NEW b \in polling, PollFails(b) PROVE SurvivalInv'
  BY <1>0, <1>9, SurvivalQuiet DEF PollFails
<1>10. CASE Finish
  BY <1>0, <1>10, SurvivalQuiet DEF Finish
<1>11. CASE Crash
  BY <1>0, <1>11, SurvivalQuiet DEF Crash
<1>12. ASSUME NEW b \in BindingId,
              CreateCompletes(b) \/ DeleteCompletes(b) \/ OperationFails(b)
       PROVE  SurvivalInv'
  BY <1>0, <1>12, SurvivalServer
<1>13. CASE UNCHANGED vars
  BY <1>0, <1>13, SurvivalQuiet DEF vars, svm
<1> QED
  BY <1>1, <1>2, <1>3, <1>4, <1>5, <1>6, <1>7, <1>8, <1>9, <1>10, <1>11, <1>12,
     <1>13 DEF Next, Proceed, Complete, Fault

\* Whatever fails or gets lost, and however often runs are repeated: the binding
\* that a run of make-bindings saw as the most recent one is not deleted before
\* another run has listed the bindings anew (serviceManager.js:228-231).
THEOREM MostRecentIsKept == Spec => []MostRecentSurvives
<1>1. SurvivalInv => MostRecentSurvives
  BY DEF SurvivalInv
<1> QED
  BY <1>1, SurvivalInit, SurvivalNext, PTL DEF Spec

-----------------------------------------------------------------------------
(* Quiet at rest                                                           *)

RestInv ==
    /\ TypeOK
    /\ phase # "changing" => polling = {} /\ waiting = {}
    /\ late = 0 => \A b \in BindingId : lastOp[b] \in InProgress => b \in polling

LEMMA RestInit ==
    ASSUME InitialState \cap InProgress = {}
    PROVE  Init => RestInv
<1> SUFFICES ASSUME Init PROVE RestInv
  OBVIOUS
<1>1. PICK n \in 0..MaxInitial :
         \E s \in [1..n -> InitialState] :
            lastOp = [b \in BindingId |-> IF b <= n THEN s[b] ELSE "none"]
  BY DEF Init
<1>2. PICK s \in [1..n -> InitialState] :
         lastOp = [b \in BindingId |-> IF b <= n THEN s[b] ELSE "none"]
  BY <1>1
<1>3. ASSUME NEW b \in BindingId PROVE lastOp[b] \notin InProgress
  <2>1. CASE b <= n
    <3>1. b \in 1..n
      BY <2>1, BoundAssumption DEF BindingId
    <3>2. s[b] \in InitialState
      BY <1>2, <3>1
    <3> QED
      BY <1>2, <2>1, <3>2
  <2>2. CASE ~(b <= n)
    BY <1>2, <2>2 DEF InProgress
  <2> QED
    BY <2>1, <2>2
<1>4. polling = {} /\ waiting = {}
  BY DEF Init
<1> QED
  BY <1>3, <1>4, InitType DEF RestInv

LEMMA RestNext == RestInv /\ [Next]_vars => RestInv'
<1> SUFFICES ASSUME RestInv, [Next]_vars PROVE RestInv'
  OBVIOUS
<1>0. TypeOK'
  BY NextType DEF RestInv
<1>a. late \in Nat /\ lastOp \in [BindingId -> OpState]
  BY BoundAssumption DEF RestInv, TypeOK
<1>b. polling # {} \/ waiting # {} => phase = "changing"
  BY DEF RestInv
<1>1. ASSUME NEW t \in Target, NEW sc \in Scopes, Start(t, sc) PROVE RestInv'
  BY <1>0, <1>1 DEF RestInv, Start, svm
<1>2. CASE Read
  BY <1>0, <1>2 DEF RestInv, Read, svm
<1>3. CASE ReadFails
  BY <1>0, <1>3 DEF RestInv, ReadFails, svm
<1>4. ASSUME NEW c \in waiting, NEW b \in BindingId, Submit(c, b) PROVE RestInv'
  <2>1. phase' = "changing"
    BY <1>4 DEF Submit, Ready
  <2>2. \A d \in BindingId : d # b => lastOp'[d] = lastOp[d]
    BY <1>4, <1>a DEF Submit, AcceptCreate, AcceptDelete
  <2>3. late' = late /\ polling' = polling \cup {b}
    BY <1>4 DEF Submit
  <2> QED
    BY <1>0, <2>1, <2>2, <2>3 DEF RestInv
<1>5. ASSUME NEW c \in waiting, NEW b \in BindingId, LoseResponse(c, b) PROVE RestInv'
  BY <1>0, <1>5, <1>a DEF RestInv, LoseResponse, Ready
<1>6. ASSUME NEW c \in waiting, RefuseDelete(c) \/ Refuse(c) PROVE RestInv'
  BY <1>0, <1>6 DEF RestInv, RefuseDelete, Refuse, Ready, svm
<1>7. ASSUME NEW b \in polling, Poll(b) PROVE RestInv'
  BY <1>0, <1>7, <1>b DEF RestInv, Poll, svm
<1>8. ASSUME NEW b \in polling, PollFails(b) PROVE RestInv'
  BY <1>0, <1>8, <1>a, <1>b DEF RestInv, PollFails
<1>9. CASE Finish
  BY <1>0, <1>9 DEF RestInv, Finish, svm
<1>10. CASE Crash
  BY <1>0, <1>10, <1>a DEF RestInv, Crash
<1>11. ASSUME NEW b \in BindingId,
              CreateCompletes(b) \/ DeleteCompletes(b) \/ OperationFails(b)
       PROVE  RestInv'
  <2>1. phase' = phase /\ waiting' = waiting /\ polling' = polling /\ late' = late
    BY <1>11 DEF CreateCompletes, DeleteCompletes, OperationFails, run
  <2>2. \A d \in BindingId : lastOp'[d] \in InProgress => lastOp[d] \in InProgress
    BY <1>11, <1>a DEF CreateCompletes, DeleteCompletes, OperationFails, InProgress
  <2> QED
    BY <1>0, <2>1, <2>2 DEF RestInv
<1>12. CASE UNCHANGED vars
  BY <1>0, <1>12 DEF RestInv, vars
<1> QED
  BY <1>1, <1>2, <1>3, <1>4, <1>5, <1>6, <1>7, <1>8, <1>9, <1>10, <1>11, <1>12
     DEF Next, Proceed, Complete, Fault

\* A run leaves no operation behind unless a late fault happened, so that a
\* failed run can be repeated on the final state of all bindings.
THEOREM NothingLeftBehind ==
    ASSUME InitialState \cap InProgress = {}
    PROVE  Spec => []QuietAtRest
<1>1. RestInv => QuietAtRest
  BY DEF RestInv, QuietAtRest
<1> QED
  BY <1>1, RestInit, RestNext, PTL DEF Spec

-----------------------------------------------------------------------------
(* The refinement of CredentialPool                                        *)

\* A non-empty set of bindings has a most recent one.
LEMMA MostRecentExists ==
    ASSUME TypeOK, \A b \in BindingId : updatedAt[b] <= clock,
           NEW S, S \subseteq BindingId, S # {}
    PROVE  MostRecent(S) # {}
<1>1. \A b \in BindingId : updatedAt[b] \in Nat /\ updatedAt[b] <= clock
  BY DEF TypeOK
<1>2. clock \in Nat
  BY DEF TypeOK
<1> DEFINE Age(b) == clock - updatedAt[b]
           Ages == {Age(b) : b \in S}
<1>3. Ages \subseteq Nat /\ Ages # {}
  BY <1>1, <1>2
<1>4. \E x \in Ages : \A y \in Ages : ~ (<<y, x>> \in OpToRel(<, Nat))
  <2> HIDE DEF Ages
  <2> QED
    BY <1>3, NatLessThanWellFounded, WFMin
<1>5. PICK x \in Ages : \A y \in Ages : ~ (<<y, x>> \in OpToRel(<, Nat))
  BY <1>4
<1>6. \A y \in Ages : ~(y < x)
  BY <1>3, <1>5 DEF OpToRel
<1>7. PICK b \in S : x = Age(b)
  OBVIOUS
<1>8. ASSUME NEW c \in S PROVE updatedAt[c] <= updatedAt[b]
  <2>1. ~(Age(c) < Age(b))
    BY <1>6, <1>7
  <2> QED
    BY <1>1, <1>2, <2>1
<1> QED
  BY <1>7, <1>8 DEF MostRecent

\* The newest binding of a non-empty set is one of its most recent ones.
LEMMA NewestIsMostRecent ==
    ASSUME TypeOK, \A b \in BindingId : updatedAt[b] <= clock,
           NEW S, S \subseteq BindingId, S # {}
    PROVE  Newest(S) \in MostRecent(S)
  BY MostRecentExists DEF Newest

\* Time stamps come from the clock, and bindings belong to an instance from the
\* time they are issued.
Stamped == /\ \A b \in BindingId : updatedAt[b] <= clock
           /\ \A b \in 1..issued : owner[b] \in Instance

\* What is cleaned up has no credentials and will get none; what is pruned has
\* a more recent sibling.
QueueJustified ==
    late = 0 =>
        \A c \in waiting :
            /\ c.kind = "cleanup" => lastOp[c.arg] \notin {"succeeded", "creating"}
            /\ c.kind = "prune" =>
                 c.arg \in Succeeded(seen, c.inst) \ MostRecent(Succeeded(seen, c.inst))

PoolInv == SurvivalInv /\ RestInv /\ Stamped /\ QueueJustified

LEMMA StampedInit == Init => Stamped
<1> SUFFICES ASSUME Init PROVE Stamped
  OBVIOUS
<1>1. PICK n \in 0..MaxInitial :
         /\ issued = n
         /\ clock = n
         /\ \E o \in [1..n -> Instance] :
              owner = [b \in BindingId |-> IF b <= n THEN o[b] ELSE 0]
         /\ updatedAt = [b \in BindingId |-> IF b <= n THEN b ELSE 0]
  BY DEF Init
<1>2. PICK o \in [1..n -> Instance] :
         owner = [b \in BindingId |-> IF b <= n THEN o[b] ELSE 0]
  BY <1>1
<1>3. \A b \in BindingId : updatedAt[b] <= clock
  BY <1>1, BoundAssumption DEF BindingId
<1>4. \A b \in 1..issued : owner[b] \in Instance
  BY <1>1, <1>2, BoundAssumption DEF BindingId
<1> QED
  BY <1>3, <1>4 DEF Stamped

LEMMA StampedNext == TypeOK /\ Stamped /\ [Next]_vars => Stamped'
<1> SUFFICES ASSUME TypeOK, Stamped, [Next]_vars PROVE Stamped'
  OBVIOUS
<1>a. /\ lastOp \in [BindingId -> OpState] /\ owner \in [BindingId -> Instance \cup {0}]
      /\ updatedAt \in [BindingId -> Nat] /\ clock \in Nat /\ issued \in 0..MaxBindings
  BY DEF TypeOK
<1>1. ASSUME UNCHANGED svm PROVE Stamped'
  BY <1>1 DEF Stamped, svm
<1>2. ASSUME NEW c \in waiting, NEW b \in BindingId, AcceptCreate(c, b) PROVE Stamped'
  <2>1. c.inst \in Instance
    BY DEF TypeOK, Change
  <2> QED
    BY <1>2, <1>a, <2>1, BoundAssumption DEF Stamped, AcceptCreate, BindingId
<1>3. ASSUME NEW c \in waiting, NEW b \in BindingId, AcceptDelete(c, b) PROVE Stamped'
  BY <1>3, <1>a DEF Stamped, AcceptDelete
<1>4. ASSUME NEW b \in BindingId, CreateCompletes(b) PROVE Stamped'
  BY <1>4, <1>a DEF Stamped, CreateCompletes
<1>5. ASSUME NEW b \in BindingId, DeleteCompletes(b) \/ OperationFails(b) PROVE Stamped'
  BY <1>5, <1>a DEF Stamped, DeleteCompletes, OperationFails, InProgress
<1> QED
  BY <1>1, <1>2, <1>3, <1>4, <1>5
     DEF Next, Proceed, Complete, Fault, Start, Read, ReadFails, Submit, LoseResponse,
         RefuseDelete, Refuse, Poll, PollFails, Finish, Crash, vars, svm

LEMMA LateGrows == TypeOK /\ [Next]_vars /\ late' = 0 => late = 0
<1>1. TypeOK => late \in Nat
  BY BoundAssumption DEF TypeOK
<1> QED
  BY <1>1 DEF Next, Start, Proceed, Complete, Fault, Read, ReadFails, Submit,
              LoseResponse, RefuseDelete, Refuse, Poll, PollFails, Finish, Crash,
              CreateCompletes, DeleteCompletes, OperationFails, vars

LEMMA QueueJustifiedNext == PoolInv /\ [Next]_vars => QueueJustified'
<1> SUFFICES ASSUME PoolInv, [Next]_vars, late' = 0 PROVE QueueJustified'
  BY DEF QueueJustified
<1>a. /\ TypeOK /\ SurvivalInv /\ RestInv
      /\ late \in Nat /\ late' \in Nat /\ issued \in Nat
  BY NextType, BoundAssumption DEF PoolInv, SurvivalInv, TypeOK
<1>b. late = 0
  BY <1>a, LateGrows
<1>c. \A c \in waiting :
         /\ c.kind = "cleanup" => lastOp[c.arg] \notin {"succeeded", "creating"}
         /\ c.kind = "prune" =>
              c.arg \in Succeeded(seen, c.inst) \ MostRecent(Succeeded(seen, c.inst))
         /\ c.kind # "create" => c.arg \in 1..issued
  BY <1>a, <1>b DEF PoolInv, QueueJustified, SurvivalInv, QueueSpares
\* Only a new listing changes what the pruned bindings were chosen from.
<1>d. ASSUME seen' = seen, waiting' \subseteq waiting,
             \A d \in BindingId :
                 seen[d] = "succeeded" =>
                     owner'[d] = owner[d] /\ updatedAt'[d] = updatedAt[d],
             \A d \in 1..issued :
                 lastOp[d] \notin {"succeeded", "creating"} =>
                     lastOp'[d] \notin {"succeeded", "creating"}
      PROVE  QueueJustified'
  <2>1. \A i : MostRecent(Succeeded(seen, i))' = MostRecent(Succeeded(seen, i))
    BY <1>d, SameMostRecent
  <2>2. \A i : Succeeded(seen, i)' = Succeeded(seen, i)
    BY <1>d DEF Succeeded, Listed
  <2> QED
    BY <1>c, <1>d, <2>1, <2>2 DEF QueueJustified
<1>1. ASSUME UNCHANGED svm, seen' = seen, waiting' \subseteq waiting PROVE QueueJustified'
  BY <1>1, <1>d DEF svm
<1>2. CASE Read
  <2>1. /\ seen' = lastOp /\ lastOp' = lastOp /\ owner' = owner /\ updatedAt' = updatedAt
        /\ waiting' = UNION {Changes(lastOp, i, target) : i \in scope \cap Usable}
    BY <1>2 DEF Read, svm
  <2>2. \A i : /\ Succeeded(seen, i)' = Succeeded(lastOp, i)
               /\ MostRecent(Succeeded(seen, i))' = MostRecent(Succeeded(lastOp, i))
    BY <2>1 DEF Succeeded, Listed, MostRecent
  <2>3. \A b \in BindingId : lastOp[b] \notin InProgress
    BY <1>2, <1>a, <1>b DEF Read, RestInv
  <2> SUFFICES ASSUME NEW c \in waiting'
               PROVE  /\ c.kind = "cleanup" => lastOp'[c.arg] \notin {"succeeded", "creating"}
                      /\ c.kind = "prune" =>
                           c.arg \in Succeeded(seen, c.inst)' \ MostRecent(Succeeded(seen, c.inst))'
    BY DEF QueueJustified
  <2>4. PICK i \in scope \cap Usable : c \in Changes(lastOp, i, target)
    BY <2>1
  <2>5. i \in Instance /\ target \in Nat
    BY <1>a, InstanceAssumption, TargetAssumption DEF TypeOK
  <2>6. /\ c.inst = i
        /\ c.kind = "prune" => c.arg \in Succeeded(lastOp, i) \ MostRecent(Succeeded(lastOp, i))
        /\ c.kind = "cleanup" => c.arg \in NotSucceeded(lastOp, i)
    BY <2>4, <2>5, ChangesShape
  <2>7. c.kind = "cleanup" => lastOp[c.arg] \notin {"succeeded", "creating"}
    BY <2>3, <2>6 DEF NotSucceeded, Succeeded, Listed, InProgress
  <2> QED
    BY <2>1, <2>2, <2>6, <2>7
<1>3. ASSUME NEW c \in waiting, NEW b \in BindingId, Submit(c, b) PROVE QueueJustified'
  <2>1. seen' = seen /\ waiting' \subseteq waiting
    BY <1>3 DEF Submit
  <2>2. CASE AcceptCreate(c, b)
    <3>1. b > issued /\ updatedAt' = updatedAt
      BY <1>a, <2>2 DEF AcceptCreate
    <3>2. seen[b] = "none"
      BY <1>a, <3>1 DEF SurvivalInv, OnlyIssued
    <3>3. \A d \in BindingId : d # b => lastOp'[d] = lastOp[d] /\ owner'[d] = owner[d]
      BY <1>a, <2>2 DEF AcceptCreate, TypeOK
    <3>4. \A d \in 1..issued : d \in BindingId /\ d # b
      BY <1>a, <3>1, BoundAssumption DEF BindingId, TypeOK
    <3> QED
      BY <1>d, <2>1, <3>1, <3>2, <3>3, <3>4
  <2>3. CASE AcceptDelete(c, b)
    <3>1. \A d \in 1..issued : d \in BindingId
      BY <1>a, BoundAssumption DEF BindingId, TypeOK
    <3>2. owner' = owner /\ updatedAt' = updatedAt
      BY <2>3 DEF AcceptDelete
    <3>3. \A d \in BindingId : lastOp'[d] \in {lastOp[d], "deleting"}
      BY <1>a, <2>3 DEF AcceptDelete, TypeOK
    <3> QED
      BY <1>d, <2>1, <3>1, <3>2, <3>3
  <2> QED
    BY <1>3, <2>2, <2>3 DEF Submit
<1>4. ASSUME NEW c \in waiting, NEW b \in BindingId, LoseResponse(c, b) PROVE QueueJustified'
  BY <1>4, <1>b DEF LoseResponse
<1>5. ASSUME NEW b \in BindingId,
             CreateCompletes(b) \/ DeleteCompletes(b) \/ OperationFails(b)
      PROVE  QueueJustified'
  <2>1. seen' = seen /\ waiting' = waiting /\ owner' = owner
    BY <1>5 DEF CreateCompletes, DeleteCompletes, OperationFails, run
  <2>2. \A d \in 1..issued : d \in BindingId
    BY <1>a, BoundAssumption DEF BindingId, TypeOK
  <2>3. seen[b] = "succeeded" => lastOp[b] # "creating"
    BY <1>a DEF SurvivalInv, SeenAsSucceeded
  <2>4. \A d \in BindingId : seen[d] = "succeeded" => updatedAt'[d] = updatedAt[d]
    BY <1>5, <1>a, <2>3 DEF CreateCompletes, DeleteCompletes, OperationFails, TypeOK
  <2>5. \A d \in BindingId :
           lastOp[d] \notin {"succeeded", "creating"} =>
               lastOp'[d] \notin {"succeeded", "creating"}
    BY <1>5, <1>a DEF CreateCompletes, DeleteCompletes, OperationFails, TypeOK
  <2> QED
    BY <1>d, <2>1, <2>2, <2>4, <2>5
<1> QED
  BY <1>1, <1>2, <1>3, <1>4, <1>5
     DEF Next, Proceed, Complete, Fault, Start, ReadFails,
         RefuseDelete, Refuse, Poll, PollFails, Finish, Crash, vars, svm

Live(i) == Succeeded(lastOp, i)

\* The newest binding of an instance depends only on its live bindings and on
\* their time stamps.
LEMMA SameNewest ==
    ASSUME NEW i, Live(i)' = Live(i), \A b \in Live(i) : updatedAt'[b] = updatedAt[b]
    PROVE  Newest(Live(i))' = Newest(Live(i))
<1>1. MostRecent(Live(i))' = MostRecent(Live(i))
  BY DEF MostRecent
<1> QED
  BY <1>1 DEF Newest

\* A step that changes no live binding is a stuttering step of the pool.
LEMMA PoolStutters ==
    ASSUME \A i \in Instance : Live(i)' = Live(i),
           \A i \in Instance : \A b \in Live(i) : updatedAt'[b] = updatedAt[b]
    PROVE  UNCHANGED Pool!vars
<1>1. \A i \in Instance : Newest(Live(i))' = Newest(Live(i))
  BY SameNewest
<1> QED
  BY <1>1 DEF Pool!vars, Live

\* Of the live bindings of an instance only older ones are deleted.
LEMMA WithdrawsOlder ==
    ASSUME PoolInv, late = 0, NEW c \in waiting, NEW b \in BindingId, AcceptDelete(c, b)
    PROVE  /\ \A i \in Instance : b \notin MostRecent(Live(i))
           /\ lastOp[b] = "succeeded" =>
                /\ c.inst \in Instance /\ b \in Live(c.inst)
                /\ \E m \in Live(c.inst) \ {b} : ~(updatedAt[m] <= updatedAt[b])
<1>a. /\ TypeOK /\ c \in Change /\ b = c.arg /\ c.kind # "create"
      /\ \A d \in BindingId : updatedAt[d] \in Nat /\ updatedAt[d] <= clock
  BY DEF PoolInv, SurvivalInv, Stamped, TypeOK, AcceptDelete
<1>1. CASE lastOp[b] # "succeeded"
  BY <1>1 DEF MostRecent, Live, Succeeded
<1>2. CASE lastOp[b] = "succeeded"
  <2> DEFINE i == c.inst
  <2>1. c.kind = "prune" /\ i \in Instance
    BY <1>a, <1>2 DEF PoolInv, QueueJustified, Change
  <2>2. b \in Succeeded(seen, i) /\ b \notin MostRecent(Succeeded(seen, i))
    BY <1>a, <2>1 DEF PoolInv, QueueJustified
  <2>3. Succeeded(seen, i) \subseteq BindingId
    BY DEF Succeeded, Listed
  <2>4. PICK m \in MostRecent(Succeeded(seen, i)) : TRUE
    BY <1>a, <2>2, <2>3, MostRecentExists
  <2>5. m \in Live(i)
    BY <2>1, <2>4 DEF PoolInv, SurvivalInv, MostRecentSurvives, Live, MostRecent,
                      Succeeded, Listed
  <2>6. PICK d \in Succeeded(seen, i) : ~(updatedAt[d] <= updatedAt[b])
    BY <2>2 DEF MostRecent
  <2>7. updatedAt[d] <= updatedAt[m]
    BY <2>4 DEF MostRecent
  <2>8. ~(updatedAt[m] <= updatedAt[b])
    <3>1. m \in BindingId /\ d \in BindingId
      BY <2>3, <2>4 DEF MostRecent
    <3> QED
      BY <1>a, <2>6, <2>7, <3>1
  <2>9. b \in Live(i) /\ b \notin MostRecent(Live(i)) /\ m # b
    BY <1>2, <1>a, <2>2, <2>5, <2>8 DEF Live, MostRecent, Succeeded, Listed
  <2>10. \A j \in Instance : b \notin MostRecent(Live(j))
    BY <2>9 DEF MostRecent, Live, Succeeded, Listed
  <2> QED
    BY <2>1, <2>5, <2>8, <2>9, <2>10
<1> QED
  BY <1>1, <1>2

\* An accepted deletion withdraws a binding that is not the newest, or one that
\* was not live.
LEMMA PoolWithdraws ==
    ASSUME PoolInv, late = 0, NEW c \in waiting, NEW b \in BindingId, AcceptDelete(c, b)
    PROVE  [Pool!Next]_(Pool!vars)
<1>a. /\ TypeOK
      /\ \A d \in BindingId : updatedAt[d] \in Nat /\ updatedAt[d] <= clock
      /\ \A i : Live(i) \subseteq BindingId
  BY DEF PoolInv, SurvivalInv, Stamped, TypeOK, Live, Succeeded, Listed
<1>b. /\ b = c.arg /\ c.kind # "create" /\ c \in Change
      /\ lastOp'[b] = "deleting" /\ \A d \in BindingId : d # b => lastOp'[d] = lastOp[d]
      /\ owner' = owner /\ updatedAt' = updatedAt
  BY <1>a DEF AcceptDelete, TypeOK
<1>c. \A i \in Instance : Live(i)' = Live(i) \ {b}
  BY <1>b DEF Live, Succeeded, Listed
<1>1. CASE lastOp[b] # "succeeded"
  <2>1. \A i \in Instance : Live(i)' = Live(i)
    BY <1>c, <1>1 DEF Live, Succeeded
  <2> QED
    BY <1>b, <2>1, PoolStutters
<1>2. CASE lastOp[b] = "succeeded"
  <2> DEFINE i == c.inst
  <2>1. i \in Instance
    BY <1>2, WithdrawsOlder
  <2>2. PICK m \in Live(i) \ {b} : ~(updatedAt[m] <= updatedAt[b])
    BY <1>2, WithdrawsOlder
  <2>3. m \in Live(i)
    BY <2>2
  <2>4. ~(updatedAt[m] <= updatedAt[b])
    BY <2>2
  <2>5. b \in Live(i) /\ b \notin MostRecent(Live(i)) /\ m # b
    BY <1>2, <2>1, <2>2, WithdrawsOlder
  <2>6. Newest(Live(i)) \in MostRecent(Live(i))
    BY <1>a, <2>3, NewestIsMostRecent
  <2>7. MostRecent(Live(i))' = MostRecent(Live(i))
    <3>1. Live(i)' = Live(i) \ {b}
      BY <1>c, <2>1
    <3>2. ASSUME NEW x \in MostRecent(Live(i)) PROVE x \in MostRecent(Live(i))'
      BY <1>b, <2>5, <3>1, <3>2 DEF MostRecent
    <3>3. ASSUME NEW x \in MostRecent(Live(i))' PROVE x \in MostRecent(Live(i))
      <4>1. /\ x \in Live(i) /\ x \in BindingId
            /\ \A y \in Live(i) \ {b} : updatedAt[y] <= updatedAt[x]
        BY <1>a, <1>b, <3>1, <3>3 DEF MostRecent
      <4>2. updatedAt[m] <= updatedAt[x]
        BY <2>3, <2>5, <4>1
      <4>3. updatedAt[b] <= updatedAt[x]
        BY <1>a, <2>3, <2>4, <4>1, <4>2
      <4> QED
        BY <4>1, <4>3 DEF MostRecent
    <3> QED
      BY <3>2, <3>3
  <2>8. Newest(Live(i))' = Newest(Live(i))
    <3>1. Live(i) # {} /\ Live(i)' # {}
      BY <1>c, <2>1, <2>3, <2>5
    <3> QED
      BY <2>7, <3>1 DEF Newest
  <2>9. \A j \in Instance : j # i => Live(j)' = Live(j) /\ Newest(Live(j))' = Newest(Live(j))
    <3> SUFFICES ASSUME NEW j \in Instance, j # i
                 PROVE  Live(j)' = Live(j) /\ Newest(Live(j))' = Newest(Live(j))
      OBVIOUS
    <3>1. b \notin Live(j)
      BY <2>5 DEF Live, Succeeded, Listed
    <3>2. Live(j)' = Live(j)
      BY <1>c, <3>1
    <3> QED
      BY <1>b, <3>2, SameNewest
  <2>10. [k \in Instance |-> Live(k)]' = [[k \in Instance |-> Live(k)] EXCEPT ![i] = @ \ {b}]
    BY <1>c, <2>1, <2>9
  <2>11. [k \in Instance |-> Newest(Live(k))]' = [k \in Instance |-> Newest(Live(k))]
    BY <2>8, <2>9
  <2>12. b # Newest(Live(i))
    BY <2>5, <2>6
  <2>13. Pool!Withdraw(i, b)
    BY <2>1, <2>5, <2>10, <2>11, <2>12 DEF Pool!Withdraw, Live
  <2> QED
    BY <2>1, <2>13 DEF Pool!Next
<1> QED
  BY <1>1, <1>2

\* A binding whose creation is complete becomes the newest of its instance.
LEMMA PoolAdds ==
    ASSUME PoolInv, NEW b \in BindingId, CreateCompletes(b)
    PROVE  [Pool!Next]_(Pool!vars)
<1>a. /\ TypeOK /\ clock \in Nat /\ issued \in 0..MaxBindings
      /\ \A d \in BindingId : updatedAt[d] \in Nat /\ updatedAt[d] <= clock
      /\ \A i : Live(i) \subseteq BindingId
  BY DEF PoolInv, SurvivalInv, Stamped, TypeOK, Live, Succeeded, Listed
<1>b. /\ lastOp[b] = "creating" /\ lastOp'[b] = "succeeded"
      /\ \A d \in BindingId : d # b => lastOp'[d] = lastOp[d]
      /\ owner' = owner /\ updatedAt'[b] = clock + 1
      /\ \A d \in BindingId : d # b => updatedAt'[d] = updatedAt[d]
  BY <1>a DEF CreateCompletes, TypeOK
<1>1. PICK i \in Instance : i = owner[b]
  <2>1. ~(b > issued)
    BY <1>b DEF PoolInv, SurvivalInv, OnlyIssued
  <2>2. b \in 1..issued
    BY <1>a, <2>1, BoundAssumption DEF BindingId
  <2> QED
    BY <2>2 DEF PoolInv, Stamped
<1>2. \A j : b \notin Live(j)
  BY <1>b DEF Live, Succeeded
<1>3. Live(i)' = Live(i) \cup {b}
  BY <1>1, <1>b DEF Live, Succeeded, Listed
<1>4. \A j \in Instance : j # i => Live(j)' = Live(j)
  BY <1>1, <1>b DEF Live, Succeeded, Listed
<1>5. Newest(Live(i))' = b
  <2>1. ASSUME NEW d \in Live(i) PROVE updatedAt'[d] < updatedAt'[b]
    <3>1. d \in BindingId /\ d # b
      BY <1>a, <1>2
    <3> QED
      BY <1>a, <1>b, <3>1
  <2>2. MostRecent(Live(i))' = {b}
    BY <1>3, <1>a, <1>b, <2>1 DEF MostRecent
  <2> QED
    BY <1>3, <2>2 DEF Newest
<1>6. \A j \in Instance : j # i => Newest(Live(j))' = Newest(Live(j))
  <2> SUFFICES ASSUME NEW j \in Instance, j # i PROVE Newest(Live(j))' = Newest(Live(j))
    OBVIOUS
  <2>1. \A d \in Live(j) : updatedAt'[d] = updatedAt[d]
    BY <1>a, <1>b, <1>2
  <2> QED
    BY <1>4, <2>1, SameNewest
<1>7. [k \in Instance |-> Live(k)]' = [[k \in Instance |-> Live(k)] EXCEPT ![i] = @ \cup {b}]
  BY <1>1, <1>3, <1>4
<1>8. [k \in Instance |-> Newest(Live(k))]'
        = [[k \in Instance |-> Newest(Live(k))] EXCEPT ![i] = b]
  BY <1>1, <1>5, <1>6
<1>9. Pool!Add(i, b)
  BY <1>2, <1>7, <1>8 DEF Pool!Add, Live
<1> QED
  BY <1>1, <1>9 DEF Pool!Next

LEMMA PoolNext ==
    ASSUME PoolInv, late = 0, [Next]_vars
    PROVE  [Pool!Next]_(Pool!vars) \/ late' # 0
<1>a. TypeOK /\ late \in Nat
  BY BoundAssumption DEF PoolInv, SurvivalInv, TypeOK
<1>1. ASSUME UNCHANGED svm PROVE UNCHANGED Pool!vars
  <2>1. \A i \in Instance : Live(i)' = Live(i)
    BY <1>1 DEF svm, Live, Succeeded, Listed
  <2> QED
    BY <1>1, <2>1, PoolStutters DEF svm
<1>2. ASSUME NEW c \in waiting, NEW b \in BindingId, Submit(c, b)
      PROVE  [Pool!Next]_(Pool!vars)
  <2>1. CASE AcceptCreate(c, b)
    <3>1. /\ b \notin 1..issued /\ lastOp'[b] = "creating" /\ updatedAt' = updatedAt
          /\ \A d \in BindingId : d # b => lastOp'[d] = lastOp[d] /\ owner'[d] = owner[d]
      BY <1>a, <2>1 DEF AcceptCreate, TypeOK
    <3>2. lastOp[b] = "none"
      BY <1>a, <2>1 DEF AcceptCreate, PoolInv, SurvivalInv, OnlyIssued, TypeOK
    <3>3. \A i \in Instance : Live(i)' = Live(i)
      BY <3>1, <3>2 DEF Live, Succeeded, Listed
    <3> QED
      BY <3>1, <3>3, PoolStutters
  <2>2. CASE AcceptDelete(c, b)
    BY <2>2, PoolWithdraws
  <2> QED
    BY <1>2, <2>1, <2>2 DEF Submit
<1>3. ASSUME NEW b \in BindingId, CreateCompletes(b) PROVE [Pool!Next]_(Pool!vars)
  BY <1>3, PoolAdds
<1>4. ASSUME NEW b \in BindingId, DeleteCompletes(b) \/ OperationFails(b)
      PROVE  UNCHANGED Pool!vars
  <2>1. /\ owner' = owner /\ updatedAt' = updatedAt
        /\ \A d \in BindingId : d # b => lastOp'[d] = lastOp[d]
        /\ lastOp[b] # "succeeded" /\ lastOp'[b] # "succeeded"
    BY <1>4, <1>a DEF DeleteCompletes, OperationFails, InProgress, TypeOK
  <2>2. \A i \in Instance : Live(i)' = Live(i)
    BY <2>1 DEF Live, Succeeded, Listed
  <2> QED
    BY <2>1, <2>2, PoolStutters
<1>5. ASSUME NEW c \in waiting, NEW b \in BindingId, LoseResponse(c, b) PROVE late' # 0
  BY <1>5, <1>a DEF LoseResponse
<1> QED
  BY <1>1, <1>2, <1>3, <1>4, <1>5
     DEF Next, Proceed, Complete, Fault, Start, Read, ReadFails,
         RefuseDelete, Refuse, Poll, PollFails, Finish, Crash, vars, svm

LEMMA PoolInit == ASSUME PoolInv PROVE Pool!Init
<1>a. /\ TypeOK
      /\ \A d \in BindingId : updatedAt[d] <= clock
      /\ \A i : Live(i) \subseteq BindingId
  BY DEF PoolInv, SurvivalInv, Stamped, Live, Succeeded, Listed
<1>1. \A i \in Instance :
         IF Live(i) = {} THEN Newest(Live(i)) = 0
                         ELSE Newest(Live(i)) \in Live(i)
  <2> SUFFICES ASSUME NEW i \in Instance, Live(i) # {} PROVE Newest(Live(i)) \in Live(i)
    BY DEF Newest
  <2> QED
    BY <1>a, NewestIsMostRecent DEF MostRecent
<1>2. \A i \in Instance : Newest(Live(i)) \in BindingId \cup {0}
  BY <1>a, <1>1
<1> QED
  BY <1>a, <1>1, <1>2 DEF Pool!Init, Live

\* Without late faults the credentials of every instance behave like a
\* CredentialPool: only new bindings become the newest, and the newest is never
\* withdrawn.  An instance with credentials never loses the last ones.
THEOREM ImplementsPool ==
    ASSUME InitialState \cap InProgress = {}, MaxLate = 0
    PROVE  Spec => KeepsNewest
<1>1. Init => PoolInv
  <2> SUFFICES ASSUME Init PROVE PoolInv
    OBVIOUS
  <2>1. QueueJustified
    BY DEF Init, QueueJustified
  <2> QED
    BY <2>1, SurvivalInit, RestInit, StampedInit DEF PoolInv
<1>2. PoolInv /\ [Next]_vars => PoolInv'
  BY SurvivalNext, RestNext, StampedNext, QueueJustifiedNext DEF PoolInv, SurvivalInv
<1>3. PoolInv => late = 0
  BY DEF PoolInv, SurvivalInv, TypeOK
<1>4. PoolInv /\ PoolInv' /\ [Next]_vars => [Pool!Next]_(Pool!vars)
  <2> SUFFICES ASSUME PoolInv, PoolInv', [Next]_vars PROVE [Pool!Next]_(Pool!vars)
    OBVIOUS
  <2>1. late = 0 /\ late' = 0
    BY <1>3 DEF PoolInv, SurvivalInv, TypeOK
  <2> QED
    BY <2>1, PoolNext
<1>5. PoolInv => Pool!Init
  BY PoolInit
<1> QED
  BY <1>1, <1>2, <1>4, <1>5, PTL DEF Spec, KeepsNewest, Pool!Spec

-----------------------------------------------------------------------------
(* Successful runs converge                                                *)

\* No two bindings have the same time stamp, and all with credentials have one.
Dated ==
    /\ \A b, c \in BindingId : updatedAt[b] = updatedAt[c] /\ updatedAt[b] # 0 => b = c
    /\ \A b \in BindingId : lastOp[b] = "succeeded" => updatedAt[b] # 0

\* What was gone when it was listed stays away, and what was listed was issued.
GoneStays ==
    \A b \in BindingId : /\ seen[b] = "gone" => lastOp[b] = "gone"
                         /\ seen[b] # "none" => lastOp[b] # "none"

\* Only a run that is changing bindings has a queue.
QueueAtRest == phase # "changing" => polling = {} /\ waiting = {}

\* The bindings of an instance that were created for this run, the creations
\* still in the queue, the number of bindings that were missing, and the ones
\* that the run is not to touch.
New(i) == {b \in BindingId : owner[b] = i /\ seen[b] = "none" /\ lastOp[b] # "none"}
ToCreate(i) == {c \in waiting : c.kind = "create" /\ c.inst = i}
Need(i) == IF Cardinality(Succeeded(seen, i)) < target
           THEN target - Cardinality(Succeeded(seen, i)) ELSE 0
Kept(i) == Succeeded(seen, i) \ Ambivalent(seen, i, target)

\* A binding to be deleted is still in the queue, or polled, or gone.
Deleted(i, b, change) == change \in waiting \/ b \in polling \/ lastOp[b] = "gone"

\* The queue holds changes of the selected instances that follow from the
\* listing, and what is polled is a creation or a deletion of this run.
QueueMeant ==
    \A c \in waiting :
        /\ c.inst \in scope \cap Usable
        /\ c.kind = "prune" => c.arg \in Ambivalent(seen, c.inst, target)
        /\ c.kind = "cleanup" => c.arg \in NotSucceeded(seen, c.inst)
PollingMeant ==
    \A b \in polling :
        IF seen[b] = "none" THEN lastOp[b] \in {"creating", "succeeded", "failed"}
                            ELSE lastOp[b] \in {"deleting", "gone", "deleteFailed"}

\* Everything that was to be done for an instance is done or under way.
AccountedFor(i) ==
    /\ \A b \in Ambivalent(seen, i, target) : Deleted(i, b, Prune(i, b))
    /\ \A b \in NotSucceeded(seen, i) : Deleted(i, b, Cleanup(i, b))
    /\ \A b \in Kept(i) : lastOp[b] = "succeeded"
    /\ \A b \in New(i) : lastOp[b] = "succeeded" \/ b \in polling
    /\ IsFiniteSet(ToCreate(i))
    /\ Cardinality(New(i)) + Cardinality(ToCreate(i)) = Need(i)

RunAccounted ==
    phase = "changing" /\ ~rejected =>
        /\ QueueMeant
        /\ PollingMeant
        /\ \A i \in scope \cap Usable : AccountedFor(i)

ConvergeInv == /\ SurvivalInv
               /\ Stamped
               /\ Dated
               /\ GoneStays
               /\ QueueAtRest
               /\ RunAccounted
               /\ Converges

LEMMA DatedInit == Init => Dated
<1> SUFFICES ASSUME Init PROVE Dated
  OBVIOUS
<1>1. PICK n \in 0..MaxInitial :
         /\ \E s \in [1..n -> InitialState] :
              lastOp = [b \in BindingId |-> IF b <= n THEN s[b] ELSE "none"]
         /\ updatedAt = [b \in BindingId |-> IF b <= n THEN b ELSE 0]
  BY DEF Init
<1> QED
  BY <1>1, BoundAssumption DEF Dated, BindingId

LEMMA DatedNext ==
    ASSUME TypeOK, Stamped, Dated, [Next]_vars
    PROVE  Dated'
<1>a. /\ lastOp \in [BindingId -> OpState] /\ updatedAt \in [BindingId -> Nat]
      /\ clock \in Nat
  BY DEF TypeOK
<1>1. ASSUME UNCHANGED svm PROVE Dated'
  BY <1>1 DEF Dated, svm
<1>2. ASSUME NEW c, NEW b \in BindingId, AcceptCreate(c, b) \/ AcceptDelete(c, b)
      PROVE  Dated'
  <2>1. updatedAt' = updatedAt
    BY <1>2 DEF AcceptCreate, AcceptDelete
  <2>2. \A d \in BindingId : lastOp'[d] = "succeeded" => lastOp[d] = "succeeded"
    BY <1>2, <1>a DEF AcceptCreate, AcceptDelete
  <2> QED
    BY <2>1, <2>2 DEF Dated
<1>3. ASSUME NEW b \in BindingId, CreateCompletes(b) PROVE Dated'
  <2>1. /\ updatedAt'[b] = clock + 1
        /\ \A d \in BindingId : d # b => updatedAt'[d] = updatedAt[d]
        /\ \A d \in BindingId : d # b => lastOp'[d] = lastOp[d]
    BY <1>3, <1>a DEF CreateCompletes
  <2>2. \A d \in BindingId : updatedAt[d] \in Nat /\ updatedAt[d] # clock + 1
    BY <1>a DEF Stamped
  <2> QED
    BY <2>1, <2>2, <1>a DEF Dated
<1>4. ASSUME NEW b \in BindingId, DeleteCompletes(b) \/ OperationFails(b) PROVE Dated'
  <2>1. updatedAt' = updatedAt
    BY <1>4 DEF DeleteCompletes, OperationFails
  <2>2. \A d \in BindingId : lastOp'[d] = "succeeded" => lastOp[d] = "succeeded"
    BY <1>4, <1>a DEF DeleteCompletes, OperationFails
  <2> QED
    BY <2>1, <2>2 DEF Dated
<1> QED
  BY <1>1, <1>2, <1>3, <1>4
     DEF Next, Proceed, Complete, Fault, Start, Read, ReadFails, Submit, LoseResponse,
         RefuseDelete, Refuse, Poll, PollFails, Finish, Crash, vars, svm

LEMMA GoneStaysNext ==
    ASSUME SurvivalInv, GoneStays, [Next]_vars
    PROVE  GoneStays'
<1>a. lastOp \in [BindingId -> OpState] /\ issued \in Nat
  BY BoundAssumption DEF SurvivalInv, TypeOK
<1>1. ASSUME UNCHANGED svm, seen' = seen PROVE GoneStays'
  BY <1>1 DEF GoneStays, svm
<1>2. CASE Read
  BY <1>2 DEF GoneStays, Read, svm
<1>3. ASSUME NEW c, NEW b \in BindingId, AcceptCreate(c, b) \/ AcceptDelete(c, b),
             seen' = seen
      PROVE  GoneStays'
  <2>1. CASE AcceptCreate(c, b)
    <3>1. lastOp[b] = "none"
      BY <1>a, <2>1 DEF AcceptCreate, SurvivalInv, OnlyIssued
    <3> QED
      BY <1>3, <1>a, <2>1, <3>1 DEF AcceptCreate, GoneStays
  <2>2. CASE AcceptDelete(c, b)
    BY <1>3, <1>a, <2>2 DEF AcceptDelete, GoneStays
  <2> QED
    BY <1>3, <2>1, <2>2
<1>4. ASSUME NEW b \in BindingId,
             CreateCompletes(b) \/ DeleteCompletes(b) \/ OperationFails(b)
      PROVE  GoneStays'
  BY <1>4, <1>a DEF CreateCompletes, DeleteCompletes, OperationFails, GoneStays, InProgress, run
<1> QED
  BY <1>1, <1>2, <1>3, <1>4
     DEF Next, Proceed, Complete, Fault, Start, ReadFails, Submit, LoseResponse,
         RefuseDelete, Refuse, Poll, PollFails, Finish, Crash, vars, svm

LEMMA QueueAtRestNext == QueueAtRest /\ [Next]_vars => QueueAtRest'
  BY DEF QueueAtRest, Next, Proceed, Complete, Fault, Start, Read, ReadFails, Submit,
         LoseResponse, RefuseDelete, Refuse, Poll, PollFails, Finish, Crash, Ready,
         CreateCompletes, DeleteCompletes, OperationFails, vars, run, svm

\* What follows from a listing depends only on the listing and on the owners and
\* time stamps of the bindings in it.
LEMMA SameChoice ==
    ASSUME seen' = seen, target' = target,
           \A b \in BindingId : seen[b] # "none" => owner'[b] = owner[b],
           \A b \in BindingId : seen[b] = "succeeded" => updatedAt'[b] = updatedAt[b]
    PROVE  \A i : /\ Succeeded(seen, i)' = Succeeded(seen, i)
                  /\ NotSucceeded(seen, i)' = NotSucceeded(seen, i)
                  /\ Ambivalent(seen, i, target)' = Ambivalent(seen, i, target)
                  /\ Kept(i)' = Kept(i)
                  /\ Need(i)' = Need(i)
<1> SUFFICES ASSUME NEW i
             PROVE  /\ Succeeded(seen, i)' = Succeeded(seen, i)
                    /\ NotSucceeded(seen, i)' = NotSucceeded(seen, i)
                    /\ Ambivalent(seen, i, target)' = Ambivalent(seen, i, target)
                    /\ Kept(i)' = Kept(i)
                    /\ Need(i)' = Need(i)
  OBVIOUS
<1>1. Listed(seen, i)' = Listed(seen, i)
  BY DEF Listed
<1>2. Succeeded(seen, i)' = Succeeded(seen, i)
  BY <1>1 DEF Succeeded
<1>3. NotSucceeded(seen, i)' = NotSucceeded(seen, i)
  BY <1>1, <1>2 DEF NotSucceeded
<1>4. \A b \in Succeeded(seen, i) : updatedAt'[b] = updatedAt[b]
  BY DEF Succeeded, Listed
<1>5. MostRecent(Succeeded(seen, i))' = MostRecent(Succeeded(seen, i))
  BY <1>2, <1>4 DEF MostRecent
<1>6. Ambivalent(seen, i, target)' = Ambivalent(seen, i, target)
  BY <1>2, <1>5 DEF Ambivalent
<1>7. Kept(i)' = Kept(i)
  BY <1>2, <1>6 DEF Kept
<1>8. Need(i)' = Need(i)
  BY <1>2 DEF Need
<1> QED
  BY <1>2, <1>3, <1>6, <1>7, <1>8

\* The number of creations that a listing leads to.
LEMMA MissingCount ==
    ASSUME TypeOK, NEW s, NEW i
    PROVE  /\ IsFiniteSet(Missing(s, i, target))
           /\ Cardinality(Missing(s, i, target)) =
                IF Cardinality(Succeeded(s, i)) < target
                THEN target - Cardinality(Succeeded(s, i)) ELSE 0
<1>1. target \in Nat /\ Cardinality(Succeeded(s, i)) \in Nat
  BY TargetAssumption, SucceededFinite DEF TypeOK
<1> DEFINE k == target - Cardinality(Succeeded(s, i))
           f == [n \in 1..k |-> Create(i, n)]
<1>2. k \in Int
  BY <1>1
<1>3. IsFiniteSet(1..k) /\ Cardinality(1..k) = IF k < 1 THEN 0 ELSE k
  <2> HIDE DEF k
  <2> QED
    BY <1>2, FS_Interval
<1>4. f \in Bijection(1..k, Missing(s, i, target))
  BY DEF Bijection, Injection, Surjection, IsInjective, Missing, Create
<1>5. ExistsBijection(1..k, Missing(s, i, target))
  BY <1>4 DEF ExistsBijection
<1>6. /\ IsFiniteSet(Missing(s, i, target))
      /\ Cardinality(Missing(s, i, target)) = Cardinality(1..k)
  <2> HIDE DEF k
  <2> QED
    BY <1>3, <1>5, FS_Bijection
<1> QED
  BY <1>1, <1>3, <1>6

\* A new listing: everything that is to be done is in the queue.
LEMMA AccountedRead ==
    ASSUME TypeOK, QueueAtRest, Read
    PROVE  RunAccounted'
<1>1. /\ seen' = lastOp /\ lastOp' = lastOp /\ owner' = owner /\ updatedAt' = updatedAt
      /\ target' = target /\ scope' = scope /\ polling' = polling
      /\ waiting' = UNION {Changes(lastOp, i, target) : i \in scope \cap Usable}
  BY DEF Read, svm
<1>2. polling' = {}
  BY <1>1 DEF QueueAtRest, Read
<1>3. \A i : /\ Succeeded(seen, i)' = Succeeded(lastOp, i)
             /\ NotSucceeded(seen, i)' = NotSucceeded(lastOp, i)
             /\ Ambivalent(seen, i, target)' = Ambivalent(lastOp, i, target)
  BY <1>1 DEF Succeeded, NotSucceeded, Listed, Ambivalent, MostRecent
<1>4. target \in Nat /\ \A i \in scope \cap Usable : i \in Instance
  BY InstanceAssumption, TargetAssumption DEF TypeOK
<1>5. QueueMeant'
  <2> SUFFICES ASSUME NEW c \in waiting'
               PROVE  /\ c.inst \in (scope \cap Usable)'
                      /\ c.kind = "prune" => c.arg \in Ambivalent(seen, c.inst, target)'
                      /\ c.kind = "cleanup" => c.arg \in NotSucceeded(seen, c.inst)'
    BY DEF QueueMeant
  <2>1. PICK i \in scope \cap Usable : c \in Changes(lastOp, i, target)
    BY <1>1
  <2>2. c.inst = i /\ (c.kind = "cleanup" => c.arg \in NotSucceeded(lastOp, i))
    BY <1>4, <2>1, ChangesShape
  <2>3. c.kind = "prune" => c.arg \in Ambivalent(lastOp, i, target)
    BY <2>1 DEF Changes, Missing, Create, Prune, Cleanup
  <2> QED
    BY <1>1, <1>3, <2>2, <2>3
<1>6. PollingMeant'
  BY <1>2 DEF PollingMeant
<1>7. ASSUME NEW i \in scope \cap Usable PROVE AccountedFor(i)'
  <2>1. Changes(lastOp, i, target) \subseteq waiting'
    BY <1>1
  <2>2. \A b \in Ambivalent(lastOp, i, target) : Prune(i, b) \in waiting'
    BY <2>1 DEF Changes
  <2>3. \A b \in NotSucceeded(lastOp, i) : Cleanup(i, b) \in waiting'
    BY <2>1 DEF Changes
  <2>4. \A b \in Kept(i)' : lastOp'[b] = "succeeded"
    BY <1>1, <1>3 DEF Kept, Succeeded
  <2>5. New(i)' = {}
    BY <1>1 DEF New
  <2>6. ToCreate(i)' = Missing(lastOp, i, target)
    <3>1. ASSUME NEW c \in waiting', c.kind = "create", c.inst = i
          PROVE  c \in Missing(lastOp, i, target)
      <4>1. PICK j \in scope \cap Usable : c \in Changes(lastOp, j, target)
        BY <1>1
      <4>2. c.inst = j
        BY <1>4, <4>1, ChangesShape
      <4> QED
        BY <3>1, <4>1, <4>2 DEF Changes, Prune, Cleanup
    <3>2. ASSUME NEW c \in Missing(lastOp, i, target)
          PROVE  c \in waiting' /\ c.kind = "create" /\ c.inst = i
      BY <2>1 DEF Changes, Missing, Create
    <3> QED
      BY <3>1, <3>2 DEF ToCreate
  <2>7. Need(i)' = Cardinality(Missing(lastOp, i, target))
    BY <1>1, <1>3, MissingCount DEF Need
  <2>8. /\ IsFiniteSet(ToCreate(i)')
        /\ Cardinality(New(i)') + Cardinality(ToCreate(i)') = Need(i)'
    <3>1. Cardinality(New(i)') = 0
      BY <2>5, FS_EmptySet
    <3>2. IsFiniteSet(ToCreate(i)') /\ Cardinality(ToCreate(i)') \in Nat
      BY <2>6, MissingCount, FS_CardinalityType
    <3> QED
      BY <2>6, <2>7, <3>1, <3>2
  <2> QED
    BY <1>3, <2>2, <2>3, <2>4, <2>5, <2>8 DEF AccountedFor, Deleted
<1> QED
  BY <1>1, <1>5, <1>6, <1>7 DEF RunAccounted

LEMMA NewFinite ==
    ASSUME NEW i
    PROVE  IsFiniteSet(New(i)) /\ Cardinality(New(i)) \in Nat
<1>1. IsFiniteSet(BindingId) /\ New(i) \subseteq BindingId
  BY FS_Interval, BoundAssumption DEF BindingId, New
<1>2. IsFiniteSet(New(i))
  BY <1>1, FS_Subset
<1> QED
  BY <1>2, FS_CardinalityType

\* A creation is accepted: one less in the queue, one more new binding.
LEMMA AccountedCreate ==
    ASSUME ConvergeInv, RunAccounted, phase = "changing", ~rejected,
           NEW c \in waiting, NEW b \in BindingId, Submit(c, b), AcceptCreate(c, b)
    PROVE  RunAccounted'
<1>a. TypeOK /\ issued \in Nat /\ QueueMeant /\ PollingMeant
      /\ \A i \in scope \cap Usable : AccountedFor(i)
  BY BoundAssumption DEF ConvergeInv, SurvivalInv, TypeOK, RunAccounted
<1>b. /\ waiting' = waiting \ {c} /\ polling' = polling \cup {b}
      /\ seen' = seen /\ target' = target /\ scope' = scope
      /\ updatedAt' = updatedAt /\ c.kind = "create"
  BY DEF Submit, AcceptCreate
<1>c. /\ lastOp'[b] = "creating" /\ owner'[b] = c.inst
      /\ \A d \in BindingId : d # b => lastOp'[d] = lastOp[d] /\ owner'[d] = owner[d]
  BY <1>a DEF AcceptCreate, TypeOK
<1>d. lastOp[b] = "none" /\ seen[b] = "none"
  BY <1>a DEF AcceptCreate, ConvergeInv, SurvivalInv, OnlyIssued
<1>e. \A i : /\ Succeeded(seen, i)' = Succeeded(seen, i)
             /\ NotSucceeded(seen, i)' = NotSucceeded(seen, i)
             /\ Ambivalent(seen, i, target)' = Ambivalent(seen, i, target)
             /\ Kept(i)' = Kept(i)
             /\ Need(i)' = Need(i)
  BY <1>b, <1>c, <1>d, SameChoice
<1>1. QueueMeant'
  BY <1>a, <1>b, <1>e DEF QueueMeant
<1>2. PollingMeant'
  <2>1. \A d \in polling : d \in BindingId
    BY <1>a DEF TypeOK
  <2>2. ASSUME NEW d \in polling', d # b
        PROVE  IF seen[d] = "none" THEN lastOp'[d] \in {"creating", "succeeded", "failed"}
                                  ELSE lastOp'[d] \in {"deleting", "gone", "deleteFailed"}
    BY <1>a, <1>b, <1>c, <2>1, <2>2 DEF PollingMeant
  <2> QED
    BY <1>b, <1>c, <1>d, <2>2 DEF PollingMeant
<1>3. ASSUME NEW i \in scope \cap Usable PROVE AccountedFor(i)'
  <2>1. \A d \in Ambivalent(seen, i, target) : Deleted(i, d, Prune(i, d))'
    <3> SUFFICES ASSUME NEW d \in Ambivalent(seen, i, target)
                 PROVE  Deleted(i, d, Prune(i, d))'
      OBVIOUS
    <3>1. Deleted(i, d, Prune(i, d)) /\ d \in BindingId
      BY <1>a DEF AccountedFor, Ambivalent, Succeeded, Listed
    <3>2. Prune(i, d) # c
      BY <1>b DEF Prune
    <3> QED
      BY <1>b, <1>c, <1>d, <3>1, <3>2 DEF Deleted
  <2>2. \A d \in NotSucceeded(seen, i) : Deleted(i, d, Cleanup(i, d))'
    <3> SUFFICES ASSUME NEW d \in NotSucceeded(seen, i)
                 PROVE  Deleted(i, d, Cleanup(i, d))'
      OBVIOUS
    <3>1. Deleted(i, d, Cleanup(i, d)) /\ d \in BindingId
      BY <1>a DEF AccountedFor, NotSucceeded, Listed
    <3>2. Cleanup(i, d) # c
      BY <1>b DEF Cleanup
    <3> QED
      BY <1>b, <1>c, <1>d, <3>1, <3>2 DEF Deleted
  <2>3. \A d \in Kept(i) : lastOp'[d] = "succeeded"
    <3>1. \A d \in Kept(i) : d \in BindingId /\ lastOp[d] = "succeeded"
      BY <1>a DEF AccountedFor, Kept, Succeeded, Listed
    <3> QED
      BY <1>c, <1>d, <3>1
  <2>4. CASE i = c.inst
    <3>1. New(i)' = New(i) \cup {b} /\ b \notin New(i)
      BY <1>b, <1>c, <1>d, <2>4 DEF New
    <3>2. ToCreate(i)' = ToCreate(i) \ {c} /\ c \in ToCreate(i)
      BY <1>b, <2>4 DEF ToCreate
    <3>3. \A d \in New(i)' : lastOp'[d] = "succeeded" \/ d \in polling'
      BY <1>a, <1>b, <1>c, <3>1 DEF AccountedFor, New
    <3>4. /\ IsFiniteSet(ToCreate(i)) /\ IsFiniteSet(New(i))
          /\ Cardinality(ToCreate(i)) \in Nat /\ Cardinality(New(i)) \in Nat
      BY <1>a, NewFinite, FS_CardinalityType DEF AccountedFor
    <3>5. Cardinality(New(i)') = Cardinality(New(i)) + 1
      BY <3>1, <3>4, FS_AddElement
    <3>6. /\ IsFiniteSet(ToCreate(i)')
          /\ Cardinality(ToCreate(i)') = Cardinality(ToCreate(i)) - 1
      BY <3>2, <3>4, FS_RemoveElement
    <3>7. Cardinality(New(i)') + Cardinality(ToCreate(i)') = Need(i)'
      <4>1. Cardinality(New(i)) + Cardinality(ToCreate(i)) = Need(i)'
        BY <1>a, <1>e DEF AccountedFor
      <4> QED
        BY <3>4, <3>5, <3>6, <4>1
    <3> QED
      BY <1>e, <2>1, <2>2, <2>3, <3>3, <3>6, <3>7 DEF AccountedFor
  <2>5. CASE i # c.inst
    <3>1. New(i)' = New(i)
      BY <1>b, <1>c, <1>d, <2>5 DEF New
    <3>2. ToCreate(i)' = ToCreate(i)
      BY <1>b, <2>5 DEF ToCreate
    <3>3. \A d \in New(i)' : lastOp'[d] = "succeeded" \/ d \in polling'
      BY <1>a, <1>b, <1>c, <1>d, <3>1 DEF AccountedFor, New
    <3> QED
      BY <1>a, <1>e, <2>1, <2>2, <2>3, <3>1, <3>2, <3>3 DEF AccountedFor
  <2> QED
    BY <2>4, <2>5
<1> QED
  BY <1>b, <1>1, <1>2, <1>3 DEF RunAccounted

\* Steps between a listing and the end of a run that create no binding: it is
\* enough that nothing is dropped that is still to be deleted, that new bindings
\* stay polled until they have succeeded, and that the kept ones are spared.
LEMMA AccountedStep ==
    ASSUME ConvergeInv, RunAccounted, phase = "changing", ~rejected,
           seen' = seen, target' = target, scope' = scope, owner' = owner,
           waiting' \subseteq waiting,
           \A c \in waiting : c.kind = "create" => c \in waiting',
           PollingMeant',
           \A b \in BindingId : seen[b] = "succeeded" => updatedAt'[b] = updatedAt[b],
           \A b \in BindingId : lastOp'[b] = "none" <=> lastOp[b] = "none",
           \A i \in scope \cap Usable :
              /\ \A b \in Ambivalent(seen, i, target) :
                    Deleted(i, b, Prune(i, b)) => Deleted(i, b, Prune(i, b))'
              /\ \A b \in NotSucceeded(seen, i) :
                    Deleted(i, b, Cleanup(i, b)) => Deleted(i, b, Cleanup(i, b))'
              /\ \A b \in Kept(i) : lastOp[b] = "succeeded" => lastOp'[b] = "succeeded"
              /\ \A b \in New(i) : lastOp[b] = "succeeded" \/ b \in polling
                                     => lastOp'[b] = "succeeded" \/ b \in polling'
    PROVE  RunAccounted'
<1>a. QueueMeant /\ \A i \in scope \cap Usable : AccountedFor(i)
  BY DEF RunAccounted
<1>b. \A i : /\ Succeeded(seen, i)' = Succeeded(seen, i)
             /\ NotSucceeded(seen, i)' = NotSucceeded(seen, i)
             /\ Ambivalent(seen, i, target)' = Ambivalent(seen, i, target)
             /\ Kept(i)' = Kept(i)
             /\ Need(i)' = Need(i)
  BY SameChoice
<1>1. QueueMeant'
  BY <1>a, <1>b DEF QueueMeant
<1>2. ASSUME NEW i \in scope \cap Usable PROVE AccountedFor(i)'
  <2>1. New(i)' = New(i)
    BY DEF New
  <2>2. ToCreate(i)' = ToCreate(i)
    BY DEF ToCreate
  <2>3. AccountedFor(i)
    BY <1>a
  <2>4. \A b \in Ambivalent(seen, i, target) : Deleted(i, b, Prune(i, b))'
    BY <2>3 DEF AccountedFor
  <2>5. \A b \in NotSucceeded(seen, i) : Deleted(i, b, Cleanup(i, b))'
    BY <2>3 DEF AccountedFor
  <2>6. \A b \in Kept(i) : lastOp'[b] = "succeeded"
    BY <2>3 DEF AccountedFor
  <2>7. \A b \in New(i) : lastOp'[b] = "succeeded" \/ b \in polling'
    BY <2>3 DEF AccountedFor
  <2>8. IsFiniteSet(ToCreate(i)) /\ Cardinality(New(i)) + Cardinality(ToCreate(i)) = Need(i)
    BY <2>3 DEF AccountedFor
  <2> QED
    BY <1>b, <2>1, <2>2, <2>4, <2>5, <2>6, <2>7, <2>8 DEF AccountedFor
<1> QED
  BY <1>1, <1>2 DEF RunAccounted

\* A deletion is accepted: it leaves the queue and is polled.
LEMMA AccountedDelete ==
    ASSUME ConvergeInv, RunAccounted, phase = "changing", ~rejected,
           NEW c \in waiting, NEW b \in BindingId, Submit(c, b), AcceptDelete(c, b)
    PROVE  RunAccounted'
<1>a. TypeOK /\ QueueMeant /\ PollingMeant
  BY DEF ConvergeInv, SurvivalInv, RunAccounted
<1>b. /\ waiting' = waiting \ {c} /\ polling' = polling \cup {b}
      /\ seen' = seen /\ target' = target /\ scope' = scope /\ owner' = owner
      /\ updatedAt' = updatedAt /\ c.kind # "create" /\ b = c.arg /\ lastOp[b] # "gone"
  BY DEF Submit, AcceptDelete
<1>c. /\ lastOp'[b] = "deleting"
      /\ \A d \in BindingId : d # b => lastOp'[d] = lastOp[d]
  BY <1>a DEF AcceptDelete, TypeOK
<1>d. /\ \A d \in polling : d \in BindingId
      /\ c \in Change
  BY <1>a DEF TypeOK
<1>e. b \in Ambivalent(seen, c.inst, target) \/ b \in NotSucceeded(seen, c.inst)
  BY <1>a, <1>b, <1>d DEF QueueMeant, Change
<1>f. seen[b] \notin {"none", "gone"} /\ owner[b] = c.inst
  BY <1>e DEF Ambivalent, NotSucceeded, Succeeded, Listed
<1>g. lastOp[b] # "none"
  BY <1>f DEF ConvergeInv, GoneStays
<1>1. PollingMeant'
  <2>1. ASSUME NEW d \in polling', d # b
        PROVE  IF seen[d] = "none" THEN lastOp'[d] \in {"creating", "succeeded", "failed"}
                                  ELSE lastOp'[d] \in {"deleting", "gone", "deleteFailed"}
    BY <1>a, <1>b, <1>c, <1>d, <2>1 DEF PollingMeant
  <2> QED
    BY <1>b, <1>c, <1>f, <2>1 DEF PollingMeant
<1>2. ASSUME NEW i \in scope \cap Usable
      PROVE  /\ \A d \in Ambivalent(seen, i, target) :
                   Deleted(i, d, Prune(i, d)) => Deleted(i, d, Prune(i, d))'
             /\ \A d \in NotSucceeded(seen, i) :
                   Deleted(i, d, Cleanup(i, d)) => Deleted(i, d, Cleanup(i, d))'
  <2>1. ASSUME NEW d \in BindingId, NEW change, change.arg = d, Deleted(i, d, change)
        PROVE  Deleted(i, d, change)'
    BY <1>b, <1>c, <2>1 DEF Deleted
  <2>2. ASSUME NEW d \in Ambivalent(seen, i, target), Deleted(i, d, Prune(i, d))
        PROVE  Deleted(i, d, Prune(i, d))'
    BY <2>1, <2>2 DEF Prune, Ambivalent, Succeeded, Listed
  <2>3. ASSUME NEW d \in NotSucceeded(seen, i), Deleted(i, d, Cleanup(i, d))
        PROVE  Deleted(i, d, Cleanup(i, d))'
    BY <2>1, <2>3 DEF Cleanup, NotSucceeded, Listed
  <2> QED
    BY <2>2, <2>3
<1>3. ASSUME NEW i, NEW d \in Kept(i) PROVE d # b /\ lastOp'[d] = lastOp[d]
  <2>1. b \notin Kept(i)
    BY <1>e, <1>f DEF Kept, NotSucceeded, Succeeded, Listed
  <2>2. d \in BindingId
    BY DEF Kept, Succeeded, Listed
  <2> QED
    BY <1>c, <2>1, <2>2
<1>4. ASSUME NEW i, NEW d \in New(i) PROVE d # b /\ lastOp'[d] = lastOp[d]
  BY <1>c, <1>f DEF New
<1> QED
  BY <1>b, <1>c, <1>g, <1>1, <1>2, <1>3, <1>4, AccountedStep

\* A poll finds an operation over: had it failed, the change would be rejected.
LEMMA AccountedPoll ==
    ASSUME ConvergeInv, RunAccounted, phase = "changing", ~rejected,
           NEW b \in polling, Poll(b)
    PROVE  RunAccounted'
<1> SUFFICES ASSUME ~rejected' PROVE RunAccounted'
  BY DEF RunAccounted
<1>a. TypeOK /\ PollingMeant /\ b \in BindingId
  BY DEF ConvergeInv, SurvivalInv, RunAccounted, TypeOK
<1>b. /\ UNCHANGED <<lastOp, owner, updatedAt, seen, target, scope, waiting>>
      /\ polling' = polling \ {b}
      /\ lastOp[b] \notin InProgress \cup FailedState
  BY DEF Poll, svm
<1>1. PollingMeant'
  BY <1>a, <1>b DEF PollingMeant
<1>2. IF seen[b] = "none" THEN lastOp[b] = "succeeded" ELSE lastOp[b] = "gone"
  BY <1>a, <1>b DEF PollingMeant, InProgress, FailedState
<1>3. ASSUME NEW i, NEW d, NEW change, seen[d] # "none", Deleted(i, d, change)
      PROVE  Deleted(i, d, change)'
  BY <1>b, <1>2, <1>3 DEF Deleted
<1>4. ASSUME NEW i
      PROVE  /\ \A d \in Ambivalent(seen, i, target) : seen[d] # "none"
             /\ \A d \in NotSucceeded(seen, i) : seen[d] # "none"
  BY DEF Ambivalent, NotSucceeded, Succeeded, Listed
<1>5. \A i : \A d \in New(i) : lastOp[d] = "succeeded" \/ d \in polling
                                 => lastOp'[d] = "succeeded" \/ d \in polling'
  BY <1>b, <1>2 DEF New
<1> QED
  BY <1>b, <1>1, <1>3, <1>4, <1>5, AccountedStep

\* The service-manager finishes an operation.
LEMMA AccountedServer ==
    ASSUME ConvergeInv, RunAccounted, phase = "changing", ~rejected,
           NEW b \in BindingId,
           CreateCompletes(b) \/ DeleteCompletes(b) \/ OperationFails(b)
    PROVE  RunAccounted'
<1>a. TypeOK /\ PollingMeant /\ \A i \in scope \cap Usable : AccountedFor(i)
  BY DEF ConvergeInv, SurvivalInv, RunAccounted
<1>b. UNCHANGED <<owner, seen, target, scope, waiting, polling>>
  BY DEF CreateCompletes, DeleteCompletes, OperationFails, run
<1>c. /\ \A d \in BindingId : d # b => lastOp'[d] = lastOp[d]
      /\ \A d \in BindingId : d # b => updatedAt'[d] = updatedAt[d]
      /\ \/ /\ lastOp[b] = "creating" /\ lastOp'[b] \in {"succeeded", "failed"}
         \/ /\ lastOp[b] = "deleting" /\ lastOp'[b] \in {"gone", "deleteFailed"}
            /\ updatedAt' = updatedAt
  BY <1>a DEF CreateCompletes, DeleteCompletes, OperationFails, InProgress, TypeOK
<1>d. seen[b] = "succeeded" => lastOp[b] # "creating"
  BY DEF ConvergeInv, SurvivalInv, SeenAsSucceeded
<1>1. PollingMeant'
  <2>1. \A d \in polling : d \in BindingId
    BY <1>a DEF TypeOK
  <2> SUFFICES ASSUME NEW d \in polling
               PROVE  IF seen[d] = "none"
                      THEN lastOp'[d] \in {"creating", "succeeded", "failed"}
                      ELSE lastOp'[d] \in {"deleting", "gone", "deleteFailed"}
    BY <1>b DEF PollingMeant
  <2>2. IF seen[d] = "none" THEN lastOp[d] \in {"creating", "succeeded", "failed"}
                            ELSE lastOp[d] \in {"deleting", "gone", "deleteFailed"}
    BY <1>a DEF PollingMeant
  <2> QED
    BY <1>c, <2>1, <2>2
<1>2. ASSUME NEW i, NEW d \in BindingId, NEW change, Deleted(i, d, change)
      PROVE  Deleted(i, d, change)'
  BY <1>b, <1>c, <1>2 DEF Deleted
<1>3. \A i : /\ Ambivalent(seen, i, target) \subseteq BindingId
             /\ NotSucceeded(seen, i) \subseteq BindingId
             /\ Kept(i) \subseteq BindingId
             /\ New(i) \subseteq BindingId
  BY DEF Ambivalent, NotSucceeded, Kept, New, Succeeded, Listed
<1>4. \A i : \A d \in Kept(i) : lastOp[d] = "succeeded" => lastOp'[d] = "succeeded"
  BY <1>c, <1>3
<1>5. \A i : \A d \in New(i) : lastOp[d] = "succeeded" \/ d \in polling
                                 => lastOp'[d] = "succeeded" \/ d \in polling'
  BY <1>b, <1>c, <1>3
<1>6. \A d \in BindingId : seen[d] = "succeeded" => updatedAt'[d] = updatedAt[d]
  BY <1>c, <1>d
<1>7. \A d \in BindingId : lastOp'[d] = "none" <=> lastOp[d] = "none"
  BY <1>c
<1> QED
  BY <1>b, <1>1, <1>2, <1>3, <1>4, <1>5, <1>6, <1>7, AccountedStep

LEMMA AccountedSame ==
    ASSUME ConvergeInv, UNCHANGED <<svm, run>>
    PROVE  RunAccounted'
<1>a. /\ UNCHANGED <<lastOp, owner, updatedAt>>
      /\ UNCHANGED <<phase, target, scope, seen, waiting, polling, rejected>>
  BY DEF svm, run
<1> SUFFICES ASSUME phase = "changing", ~rejected PROVE RunAccounted'
  BY <1>a DEF RunAccounted
<1>1. RunAccounted /\ PollingMeant /\ PollingMeant'
  BY <1>a DEF ConvergeInv, RunAccounted, PollingMeant
<1>2. \A i, b, change : Deleted(i, b, change)' <=> Deleted(i, b, change)
  BY <1>a DEF Deleted
<1> QED
  BY <1>a, <1>1, <1>2, AccountedStep

LEMMA RunAccountedNext ==
    ASSUME ConvergeInv, [Next]_vars
    PROVE  RunAccounted'
<1>a. TypeOK /\ QueueAtRest /\ RunAccounted
  BY DEF ConvergeInv, SurvivalInv
<1>b. rejected \in BOOLEAN
  BY <1>a DEF TypeOK
<1>1. ASSUME phase' # "changing" \/ rejected' PROVE RunAccounted'
  BY <1>1 DEF RunAccounted
<1>2. CASE Read
  BY <1>2, <1>a, AccountedRead
<1>3. ASSUME NEW c \in waiting, NEW b \in BindingId, Submit(c, b) PROVE RunAccounted'
  <2>1. phase = "changing" /\ rejected' = rejected
    BY <1>3 DEF Submit, Ready
  <2>2. CASE AcceptCreate(c, b)
    BY <1>1, <1>3, <1>a, <2>1, <2>2, AccountedCreate
  <2>3. CASE AcceptDelete(c, b)
    BY <1>1, <1>3, <1>a, <2>1, <2>3, AccountedDelete
  <2> QED
    BY <1>3, <2>2, <2>3 DEF Submit
<1>4. ASSUME NEW b \in polling, Poll(b) PROVE RunAccounted'
  <2>1. phase = "changing" /\ (~rejected' => ~rejected)
    BY <1>4, <1>a DEF Poll, QueueAtRest
  <2> QED
    BY <1>1, <1>4, <1>a, <2>1, AccountedPoll
<1>5. ASSUME NEW b \in BindingId,
             CreateCompletes(b) \/ DeleteCompletes(b) \/ OperationFails(b)
      PROVE  RunAccounted'
  <2>1. phase' = phase /\ rejected' = rejected
    BY <1>5 DEF CreateCompletes, DeleteCompletes, OperationFails, run
  <2> QED
    BY <1>1, <1>5, <1>a, <2>1, AccountedServer
<1>6. CASE UNCHANGED vars
  BY <1>6, AccountedSame DEF vars, svm, run
<1>7. ASSUME NEW t \in Target, NEW sc \in Scopes, Start(t, sc) PROVE RunAccounted'
  BY <1>1, <1>7 DEF Start
<1>8. ASSUME NEW c \in waiting,
             RefuseDelete(c) \/ Refuse(c) \/ \E b \in BindingId : LoseResponse(c, b)
      PROVE  RunAccounted'
  BY <1>1, <1>8 DEF RefuseDelete, Refuse, LoseResponse
<1>9. ASSUME NEW b \in polling, PollFails(b) PROVE RunAccounted'
  BY <1>1, <1>9 DEF PollFails
<1>10. CASE ReadFails \/ Finish \/ Crash
  BY <1>1, <1>10 DEF ReadFails, Finish, Crash
<1> QED
  BY <1>2, <1>3, <1>4, <1>5, <1>6, <1>7, <1>8, <1>9, <1>10
     DEF Next, Proceed, Complete, Fault

\* Of bindings with different time stamps only one is the most recent.
LEMMA OneMostRecent ==
    ASSUME TypeOK, Stamped, Dated, NEW S, S \subseteq BindingId, S # {},
           \A b \in MostRecent(S) : lastOp[b] = "succeeded"
    PROVE  Cardinality(MostRecent(S)) = 1
<1>1. PICK m \in MostRecent(S) : TRUE
  BY MostRecentExists DEF Stamped
<1>2. ASSUME NEW b \in MostRecent(S) PROVE b = m
  <2>1. b \in BindingId /\ m \in BindingId /\ updatedAt[b] \in Nat /\ updatedAt[m] \in Nat
    BY DEF MostRecent, TypeOK
  <2>2. updatedAt[b] = updatedAt[m]
    BY <2>1 DEF MostRecent
  <2>3. updatedAt[m] # 0
    BY <1>1, <2>1 DEF Dated
  <2> QED
    BY <2>1, <2>2, <2>3 DEF Dated
<1>3. MostRecent(S) = {m}
  BY <1>1, <1>2
<1> QED
  BY <1>3, FS_Singleton

\* A listing in which nothing is to be changed has converged already.
LEMMA NothingToChange ==
    ASSUME ConvergeInv, NEW i \in Instance, Changes(lastOp, i, target) = {}
    PROVE  /\ NotSucceeded(lastOp, i) = {}
           /\ Cardinality(Succeeded(lastOp, i)) = target
<1>a. TypeOK /\ Stamped /\ Dated /\ target \in Nat \ {0}
  BY TargetAssumption DEF ConvergeInv, SurvivalInv, TypeOK
<1>b. IsFiniteSet(Succeeded(lastOp, i)) /\ Cardinality(Succeeded(lastOp, i)) \in Nat
  BY SucceededFinite
<1>1. /\ NotSucceeded(lastOp, i) = {}
      /\ Ambivalent(lastOp, i, target) = {}
      /\ Missing(lastOp, i, target) = {}
  BY DEF Changes
<1>2. ~(Cardinality(Succeeded(lastOp, i)) < target)
  <2>1. Cardinality(Missing(lastOp, i, target)) = 0
    BY <1>1, FS_EmptySet
  <2> QED
    BY <1>a, <1>b, <2>1, MissingCount
<1>3. ~(Cardinality(Succeeded(lastOp, i)) > target)
  <2> SUFFICES ASSUME Cardinality(Succeeded(lastOp, i)) > target PROVE FALSE
    OBVIOUS
  <2>1. Succeeded(lastOp, i) \subseteq MostRecent(Succeeded(lastOp, i))
    BY <1>1 DEF Ambivalent
  <2>2. MostRecent(Succeeded(lastOp, i)) = Succeeded(lastOp, i)
    BY <2>1 DEF MostRecent
  <2>3. Succeeded(lastOp, i) # {}
    BY <1>a, FS_EmptySet
  <2>4. Cardinality(MostRecent(Succeeded(lastOp, i))) = 1
    BY <1>a, <2>3, OneMostRecent DEF Succeeded, Listed, MostRecent
  <2> QED
    BY <1>a, <2>2, <2>4
<1> QED
  BY <1>a, <1>b, <1>1, <1>2, <1>3

\* When everything is settled and nothing was rejected, an instance has what it
\* kept and what was created for it.
LEMMA AllSettled ==
    ASSUME ConvergeInv, phase = "changing", ~rejected, waiting = {}, polling = {},
           NEW i \in scope \cap Usable
    PROVE  /\ NotSucceeded(lastOp, i) = {}
           /\ Cardinality(Succeeded(lastOp, i)) =
                IF Cardinality(Succeeded(seen, i)) > target THEN 1 ELSE target
<1>a. /\ TypeOK /\ Stamped /\ Dated /\ target \in Nat \ {0} /\ AccountedFor(i)
      /\ i \in Instance
  BY TargetAssumption, InstanceAssumption
     DEF ConvergeInv, SurvivalInv, TypeOK, RunAccounted
<1>b. IsFiniteSet(Succeeded(seen, i)) /\ Cardinality(Succeeded(seen, i)) \in Nat
  BY SucceededFinite
<1>1. /\ \A b \in Ambivalent(seen, i, target) : lastOp[b] = "gone"
      /\ \A b \in NotSucceeded(seen, i) : lastOp[b] = "gone"
      /\ \A b \in Kept(i) : lastOp[b] = "succeeded"
      /\ \A b \in New(i) : lastOp[b] = "succeeded"
  BY <1>a DEF AccountedFor, Deleted
<1>2. Listed(lastOp, i) = New(i) \cup Kept(i)
  <2>1. ASSUME NEW b \in Listed(lastOp, i) PROVE b \in New(i) \cup Kept(i)
    <3>1. b \in BindingId /\ owner[b] = i /\ lastOp[b] \notin {"none", "gone"}
      BY DEF Listed
    <3>2. CASE seen[b] = "none"
      BY <3>1, <3>2 DEF New
    <3>3. CASE seen[b] # "none"
      <4>1. b \in Listed(seen, i)
        BY <3>1, <3>3 DEF Listed, ConvergeInv, GoneStays
      <4>2. b \notin NotSucceeded(seen, i) /\ b \notin Ambivalent(seen, i, target)
        BY <1>1, <3>1
      <4> QED
        BY <4>1, <4>2 DEF NotSucceeded, Kept
    <3> QED
      BY <3>2, <3>3
  <2>2. ASSUME NEW b \in New(i) \cup Kept(i) PROVE b \in Listed(lastOp, i)
    BY <1>1 DEF New, Kept, Succeeded, Listed
  <2> QED
    BY <2>1, <2>2
<1>3. Succeeded(lastOp, i) = New(i) \cup Kept(i) /\ NotSucceeded(lastOp, i) = {}
  BY <1>1, <1>2 DEF Succeeded, NotSucceeded
<1>4. Cardinality(New(i)) = Need(i) /\ IsFiniteSet(New(i))
  <2>1. ToCreate(i) = {}
    BY DEF ToCreate
  <2> QED
    BY <1>a, <2>1, FS_EmptySet, NewFinite DEF AccountedFor
<1>5. CASE Cardinality(Succeeded(seen, i)) > target
  <2>1. New(i) = {}
    BY <1>4, <1>5, <1>a, <1>b, FS_EmptySet DEF Need
  <2>2. Kept(i) = MostRecent(Succeeded(seen, i))
    BY <1>5 DEF Kept, Ambivalent, MostRecent
  <2>3. Succeeded(seen, i) # {}
    BY <1>5, <1>a, FS_EmptySet
  <2>4. Cardinality(Kept(i)) = 1
    BY <1>a, <1>1, <2>2, <2>3, OneMostRecent DEF Succeeded, Listed
  <2> QED
    BY <1>3, <1>5, <2>1, <2>4
<1>6. CASE ~(Cardinality(Succeeded(seen, i)) > target)
  <2>1. Kept(i) = Succeeded(seen, i)
    BY <1>6 DEF Kept, Ambivalent
  <2>2. New(i) \cap Kept(i) = {}
    BY DEF New, Kept, Succeeded, Listed
  <2>3. Cardinality(New(i) \cup Kept(i)) = Cardinality(New(i)) + Cardinality(Kept(i))
    <3>1. Cardinality(New(i) \cup Kept(i))
            = Cardinality(New(i)) + Cardinality(Kept(i)) - Cardinality(New(i) \cap Kept(i))
      BY <1>b, <1>4, <2>1, FS_Union
    <3>2. Cardinality(New(i)) \in Nat /\ Cardinality(Kept(i)) \in Nat
      BY <1>b, <2>1, NewFinite
    <3>3. Cardinality(New(i) \cap Kept(i)) = 0
      BY <2>2, FS_EmptySet
    <3> QED
      BY <3>1, <3>2, <3>3
  <2>4. Cardinality(New(i)) = target - Cardinality(Succeeded(seen, i))
    BY <1>4, <1>6, <1>a, <1>b DEF Need
  <2> QED
    BY <1>3, <1>6, <1>a, <1>b, <2>1, <2>3, <2>4
<1> QED
  BY <1>3, <1>5, <1>6

\* Between two runs the service-manager cannot undo what has converged: it
\* finishes only operations of other instances.
LEMMA ConvergesStable ==
    ASSUME TypeOK, Converges, phase = "idle", NEW b \in BindingId,
           CreateCompletes(b) \/ DeleteCompletes(b) \/ OperationFails(b)
    PROVE  Converges'
<1>a. /\ UNCHANGED <<owner, seen, target, scope, phase, outcome>>
      /\ lastOp[b] \in InProgress
      /\ \A d \in BindingId : d # b => lastOp'[d] = lastOp[d]
  BY DEF CreateCompletes, DeleteCompletes, OperationFails, InProgress, run, TypeOK
<1> SUFFICES ASSUME outcome = "ok", NEW i \in scope \cap Usable
             PROVE  /\ NotSucceeded(lastOp, i)' = {}
                    /\ Cardinality(Succeeded(lastOp, i)') =
                         IF Cardinality(Succeeded(seen, i)') > target THEN 1 ELSE target
  BY <1>a DEF Converges
<1>1. /\ NotSucceeded(lastOp, i) = {}
      /\ Cardinality(Succeeded(lastOp, i)) =
           IF Cardinality(Succeeded(seen, i)) > target THEN 1 ELSE target
  BY DEF Converges
<1>2. owner[b] # i
  BY <1>1, <1>a DEF NotSucceeded, Succeeded, Listed, InProgress
<1>3. Listed(lastOp, i)' = Listed(lastOp, i) /\ Listed(seen, i)' = Listed(seen, i)
  BY <1>2, <1>a DEF Listed
<1>4. Succeeded(lastOp, i)' = Succeeded(lastOp, i) /\ Succeeded(seen, i)' = Succeeded(seen, i)
  BY <1>2, <1>3, <1>a DEF Succeeded, Listed
<1>5. NotSucceeded(lastOp, i)' = NotSucceeded(lastOp, i)
  BY <1>3, <1>4 DEF NotSucceeded
<1> QED
  BY <1>1, <1>4, <1>5

LEMMA ConvergesNext ==
    ASSUME ConvergeInv, [Next]_vars
    PROVE  Converges'
<1>a. TypeOK /\ QueueAtRest /\ Converges
  BY DEF ConvergeInv, SurvivalInv
<1>1. ASSUME phase' # "idle" \/ outcome' # "ok" PROVE Converges'
  BY <1>1 DEF Converges
<1>2. CASE Read
  <2>1. CASE waiting' # {}
    BY <1>1, <1>2, <2>1 DEF Read
  <2>2. CASE waiting' = {}
    <3>1. /\ seen' = lastOp /\ UNCHANGED <<lastOp, owner, target, scope>>
          /\ \A i \in scope \cap Usable : Changes(lastOp, i, target) = {}
      BY <1>2, <2>2 DEF Read, svm
    <3> SUFFICES ASSUME NEW i \in scope \cap Usable
                 PROVE  /\ NotSucceeded(lastOp, i)' = {}
                        /\ Cardinality(Succeeded(lastOp, i)') =
                             IF Cardinality(Succeeded(seen, i)') > target' THEN 1 ELSE target'
      BY <3>1 DEF Converges
    <3>2. /\ NotSucceeded(lastOp, i) = {}
          /\ Cardinality(Succeeded(lastOp, i)) = target
      BY <3>1, InstanceAssumption, NothingToChange
    <3>3. /\ NotSucceeded(lastOp, i)' = NotSucceeded(lastOp, i)
          /\ Succeeded(lastOp, i)' = Succeeded(lastOp, i)
          /\ Succeeded(seen, i)' = Succeeded(lastOp, i)
      BY <3>1 DEF NotSucceeded, Succeeded, Listed
    <3>4. target \in Nat
      BY <1>a, TargetAssumption DEF TypeOK
    <3> QED
      BY <3>1, <3>2, <3>3, <3>4
  <2> QED
    BY <2>1, <2>2
<1>3. CASE Finish
  <2>1. CASE rejected
    BY <1>1, <1>3, <2>1 DEF Finish
  <2>2. CASE ~rejected
    <3>1. /\ phase = "changing" /\ waiting = {} /\ polling = {}
          /\ UNCHANGED <<lastOp, owner, target, scope, seen>>
      BY <1>3 DEF Finish, svm
    <3>2. \A i : /\ NotSucceeded(lastOp, i)' = NotSucceeded(lastOp, i)
                 /\ Succeeded(lastOp, i)' = Succeeded(lastOp, i)
                 /\ Succeeded(seen, i)' = Succeeded(seen, i)
      BY <3>1 DEF NotSucceeded, Succeeded, Listed
    <3> QED
      BY <2>2, <3>1, <3>2, AllSettled DEF Converges
  <2> QED
    BY <2>1, <2>2
<1>4. ASSUME NEW b \in BindingId,
             CreateCompletes(b) \/ DeleteCompletes(b) \/ OperationFails(b)
      PROVE  Converges'
  <2>1. phase' = phase
    BY <1>4 DEF CreateCompletes, DeleteCompletes, OperationFails, run
  <2> QED
    BY <1>1, <1>4, <1>a, <2>1, ConvergesStable
<1>5. CASE UNCHANGED vars
  BY <1>5, <1>a DEF vars, Converges, NotSucceeded, Succeeded, Listed
<1>6. ASSUME NEW t \in Target, NEW sc \in Scopes, Start(t, sc) PROVE Converges'
  BY <1>1, <1>6 DEF Start
<1>7. ASSUME NEW c \in waiting,
             \/ RefuseDelete(c) \/ Refuse(c)
             \/ \E b \in BindingId : Submit(c, b) \/ LoseResponse(c, b)
      PROVE  Converges'
  BY <1>1, <1>7 DEF RefuseDelete, Refuse, Submit, LoseResponse, Ready
<1>8. ASSUME NEW b \in polling, Poll(b) \/ PollFails(b) PROVE Converges'
  BY <1>1, <1>8, <1>a DEF Poll, PollFails, QueueAtRest
<1>9. CASE ReadFails \/ Crash
  BY <1>1, <1>9 DEF ReadFails, Crash
<1> QED
  BY <1>2, <1>3, <1>4, <1>5, <1>6, <1>7, <1>8, <1>9 DEF Next, Proceed, Complete, Fault

LEMMA ConvergeInit == Init => ConvergeInv
<1> SUFFICES ASSUME Init PROVE ConvergeInv
  OBVIOUS
<1>1. GoneStays /\ QueueAtRest /\ RunAccounted /\ Converges
  BY DEF Init, GoneStays, QueueAtRest, RunAccounted, Converges
<1> QED
  BY <1>1, SurvivalInit, StampedInit, DatedInit DEF ConvergeInv

LEMMA ConvergeNext == ConvergeInv /\ [Next]_vars => ConvergeInv'
<1> SUFFICES ASSUME ConvergeInv, [Next]_vars PROVE ConvergeInv'
  OBVIOUS
<1>1. TypeOK /\ SurvivalInv /\ Stamped /\ Dated /\ GoneStays /\ QueueAtRest
  BY DEF ConvergeInv, SurvivalInv
<1>2. SurvivalInv' /\ Stamped' /\ Dated' /\ GoneStays' /\ QueueAtRest'
  BY <1>1, SurvivalNext, StampedNext, DatedNext, GoneStaysNext, QueueAtRestNext
<1> QED
  BY <1>2, RunAccountedNext, ConvergesNext DEF ConvergeInv

\* After a successful run every selected usable instance has only succeeded
\* bindings: as many as the target count, or the single most recent one if it
\* had more than that.  Refusals, late answers and killed runs before it make no
\* difference, nor does the state of the bindings it found.
THEOREM RunConverges == Spec => []Converges
<1>1. ConvergeInv => Converges
  BY DEF ConvergeInv
<1> QED
  BY <1>1, ConvergeInit, ConvergeNext, PTL DEF Spec

-----------------------------------------------------------------------------
(* Creations fill up to the target count and no further                    *)

Creating(i) == {b \in BindingId : owner[b] = i /\ lastOp[b] = "creating"}

\* As long as a creation is in the queue or in progress, an instance has no more
\* bindings than the target count, those counted that are yet to come.
Bounded(i) ==
    Creating(i) \cup ToCreate(i) # {} =>
        /\ IsFiniteSet(ToCreate(i))
        /\ Cardinality(Live(i) \cup Creating(i)) + Cardinality(ToCreate(i)) <= target

BoundedInv == late = 0 => \A i \in Instance : Bounded(i)

LEMMA LiveFinite ==
    ASSUME NEW i
    PROVE  /\ IsFiniteSet(Live(i) \cup Creating(i))
           /\ Cardinality(Live(i) \cup Creating(i)) \in Nat
<1>1. IsFiniteSet(BindingId) /\ Live(i) \cup Creating(i) \subseteq BindingId
  BY FS_Interval, BoundAssumption DEF BindingId, Live, Succeeded, Listed, Creating
<1>2. IsFiniteSet(Live(i) \cup Creating(i))
  BY <1>1, FS_Subset
<1> QED
  BY <1>2, FS_CardinalityType

LEMMA LiveFiniteNext ==
    ASSUME NEW i
    PROVE  /\ IsFiniteSet(Live(i)' \cup Creating(i)')
           /\ Cardinality(Live(i)' \cup Creating(i)') \in Nat
<1>1. IsFiniteSet(BindingId) /\ Live(i)' \cup Creating(i)' \subseteq BindingId
  BY FS_Interval, BoundAssumption DEF BindingId, Live, Succeeded, Listed, Creating
<1>2. IsFiniteSet(Live(i)' \cup Creating(i)')
  BY <1>1, FS_Subset
<1> QED
  BY <1>2, FS_CardinalityType

\* Steps that add neither bindings nor creations keep the bound.
LEMMA BoundedStep ==
    ASSUME TypeOK, NEW i, Bounded(i), target' = target,
           ToCreate(i)' = ToCreate(i),
           Creating(i)' \subseteq Creating(i),
           Live(i)' \cup Creating(i)' \subseteq Live(i) \cup Creating(i)
    PROVE  Bounded(i)'
<1> SUFFICES ASSUME Creating(i)' \cup ToCreate(i)' # {}
             PROVE  /\ IsFiniteSet(ToCreate(i)')
                    /\ Cardinality(Live(i)' \cup Creating(i)') + Cardinality(ToCreate(i)')
                         <= target'
  BY DEF Bounded
<1>1. /\ IsFiniteSet(ToCreate(i))
      /\ Cardinality(Live(i) \cup Creating(i)) + Cardinality(ToCreate(i)) <= target
  BY DEF Bounded
<1>2. /\ Cardinality(Live(i)' \cup Creating(i)') \in Nat
      /\ Cardinality(Live(i)' \cup Creating(i)') <= Cardinality(Live(i) \cup Creating(i))
  BY LiveFinite, FS_Subset, FS_CardinalityType
<1>3. /\ Cardinality(ToCreate(i)) \in Nat /\ target \in Nat
      /\ Cardinality(Live(i) \cup Creating(i)) \in Nat
  BY <1>1, LiveFinite, FS_CardinalityType, TargetAssumption DEF TypeOK
<1> QED
  BY <1>1, <1>2, <1>3

LEMMA BoundedNext ==
    ASSUME PoolInv, BoundedInv, [Next]_vars, late = 0, NEW i \in Instance
    PROVE  Bounded(i)' \/ late' # 0
<1>a. /\ TypeOK /\ issued \in Nat /\ Bounded(i) /\ target \in Nat
      /\ lastOp \in [BindingId -> OpState]
      /\ \A b \in BindingId : lastOp[b] \in InProgress => b \in polling
      /\ phase # "changing" => polling = {} /\ waiting = {}
  BY BoundAssumption, TargetAssumption
     DEF PoolInv, SurvivalInv, RestInv, TypeOK, BoundedInv
<1>1. ASSUME UNCHANGED <<lastOp, owner, target>>, ToCreate(i)' = ToCreate(i) PROVE Bounded(i)'
  <2>1. Live(i)' = Live(i) /\ Creating(i)' = Creating(i)
    BY <1>1 DEF Live, Succeeded, Listed, Creating
  <2> QED
    BY <1>1, <1>a, <2>1, BoundedStep
<1>2. ASSUME waiting' = {}, \A b \in BindingId : lastOp'[b] # "creating" PROVE Bounded(i)'
  BY <1>2 DEF Bounded, Creating, ToCreate
<1>3. ASSUME phase # "changing" PROVE waiting = {} /\ \A b \in BindingId : lastOp[b] # "creating"
  BY <1>3, <1>a DEF InProgress
<1>4. ASSUME NEW t \in Target, NEW sc \in Scopes, Start(t, sc) PROVE Bounded(i)'
  BY <1>2, <1>3, <1>4 DEF Start, svm
<1>5. CASE Read
  <2>1. /\ phase = "reading" /\ lastOp' = lastOp /\ owner' = owner /\ target' = target
        /\ waiting' = UNION {Changes(lastOp, j, target) : j \in scope \cap Usable}
    BY <1>5 DEF Read, svm
  <2>2. Creating(i)' = {} /\ Live(i)' = Live(i)
    BY <1>3, <2>1 DEF Creating, Live, Succeeded, Listed
  <2>3. \A c \in ToCreate(i)' : c \in Missing(lastOp, i, target)
    <3> SUFFICES ASSUME NEW c \in ToCreate(i)' PROVE c \in Missing(lastOp, i, target)
      OBVIOUS
    <3>1. PICK j \in scope \cap Usable : c \in Changes(lastOp, j, target)
      BY <2>1 DEF ToCreate
    <3>2. c.inst = j
      BY <1>a, <3>1, ChangesShape, InstanceAssumption
    <3> QED
      BY <3>1, <3>2 DEF ToCreate, Changes, Prune, Cleanup
  <2> SUFFICES ASSUME ToCreate(i)' # {}
               PROVE  /\ IsFiniteSet(ToCreate(i)')
                      /\ Cardinality(Live(i)' \cup Creating(i)') + Cardinality(ToCreate(i)')
                           <= target'
    BY <2>2 DEF Bounded
  <2>4. /\ IsFiniteSet(ToCreate(i)') /\ Cardinality(ToCreate(i)') \in Nat
        /\ Cardinality(ToCreate(i)') <= Cardinality(Missing(lastOp, i, target))
    BY <1>a, <2>3, MissingCount, FS_Subset, FS_CardinalityType
  <2>5. Missing(lastOp, i, target) # {}
    BY <2>3
  <2>6. Cardinality(Missing(lastOp, i, target)) # 0
    BY <1>a, <2>5, MissingCount, FS_EmptySet
  <2>7. /\ Cardinality(Live(i)) \in Nat
        /\ Cardinality(Missing(lastOp, i, target)) = target - Cardinality(Live(i))
    BY <1>a, <2>6, MissingCount, SucceededFinite DEF Live
  <2>8. Cardinality(Live(i)' \cup Creating(i)') = Cardinality(Live(i))
    <3>1. Live(i)' \cup Creating(i)' = Live(i)
      BY <2>2
    <3> QED
      BY <3>1
  <2>9. Cardinality(Live(i)) + Cardinality(ToCreate(i)') <= target
    BY <1>a, <2>4, <2>7
  <2> QED
    BY <2>1, <2>4, <2>8, <2>9
<1>6. ASSUME NEW c \in waiting, NEW b \in BindingId, Submit(c, b) PROVE Bounded(i)'
  <2>1. target' = target /\ waiting' = waiting \ {c}
    BY <1>6 DEF Submit
  <2>2. CASE AcceptCreate(c, b)
    <3>1. /\ lastOp[b] = "none" /\ lastOp'[b] = "creating" /\ owner'[b] = c.inst
          /\ c.kind = "create"
          /\ \A d \in BindingId : d # b => lastOp'[d] = lastOp[d] /\ owner'[d] = owner[d]
      BY <1>a, <2>2 DEF AcceptCreate, PoolInv, SurvivalInv, OnlyIssued, TypeOK
    <3>2. Live(i)' = Live(i)
      BY <3>1 DEF Live, Succeeded, Listed
    <3>3. CASE c.inst # i
      <4>1. Creating(i)' = Creating(i) /\ ToCreate(i)' = ToCreate(i)
        BY <2>1, <3>1, <3>3 DEF Creating, ToCreate
      <4> QED
        BY <1>a, <2>1, <3>2, <4>1, BoundedStep
    <3>4. CASE c.inst = i
      <4>1. /\ Creating(i)' = Creating(i) \cup {b}
            /\ b \notin Live(i) \cup Creating(i)
            /\ ToCreate(i)' = ToCreate(i) \ {c} /\ c \in ToCreate(i)
        BY <2>1, <3>1, <3>4 DEF Creating, ToCreate, Live, Succeeded
      <4>2. /\ IsFiniteSet(ToCreate(i)) /\ Cardinality(ToCreate(i)) \in Nat
            /\ Cardinality(Live(i) \cup Creating(i)) + Cardinality(ToCreate(i)) <= target
        BY <1>a, <4>1, FS_CardinalityType DEF Bounded
      <4>3. /\ IsFiniteSet(ToCreate(i)')
            /\ Cardinality(ToCreate(i)') = Cardinality(ToCreate(i)) - 1
        BY <4>1, <4>2, FS_RemoveElement
      <4>4. Live(i)' \cup Creating(i)' = (Live(i) \cup Creating(i)) \cup {b}
        BY <3>2, <4>1
      <4>5. Cardinality(Live(i)' \cup Creating(i)') = Cardinality(Live(i) \cup Creating(i)) + 1
        BY <4>1, <4>4, LiveFinite, FS_AddElement
      <4>6. Cardinality(Live(i) \cup Creating(i)) \in Nat
        BY LiveFinite
      <4>7. Cardinality(Live(i)' \cup Creating(i)') + Cardinality(ToCreate(i)') <= target'
        BY <1>a, <2>1, <4>2, <4>3, <4>5, <4>6
      <4> QED
        BY <4>3, <4>7 DEF Bounded
    <3> QED
      BY <3>3, <3>4
  <2>3. CASE AcceptDelete(c, b)
    <3>1. /\ lastOp'[b] = "deleting" /\ owner' = owner /\ c.kind # "create"
          /\ \A d \in BindingId : d # b => lastOp'[d] = lastOp[d]
      BY <1>a, <2>3 DEF AcceptDelete
    <3>2. /\ ToCreate(i)' = ToCreate(i) /\ Creating(i)' \subseteq Creating(i)
          /\ Live(i)' \subseteq Live(i)
      BY <2>1, <3>1 DEF ToCreate, Creating, Live, Succeeded, Listed
    <3> QED
      BY <1>a, <2>1, <3>2, BoundedStep
  <2> QED
    BY <1>6, <2>2, <2>3 DEF Submit
<1>7. ASSUME NEW c \in waiting, RefuseDelete(c) PROVE Bounded(i)'
  <2>1. UNCHANGED <<lastOp, owner, target>> /\ waiting' = waiting \ {c} /\ c.kind # "create"
    BY <1>7 DEF RefuseDelete, svm
  <2>2. ToCreate(i)' = ToCreate(i)
    BY <2>1 DEF ToCreate
  <2> QED
    BY <1>1, <2>1, <2>2
<1>8. ASSUME NEW c \in waiting, Refuse(c) PROVE Bounded(i)'
  <2>1. UNCHANGED <<lastOp, owner, target>> /\ waiting' = waiting \ {c}
    BY <1>8 DEF Refuse, svm
  <2>2. Live(i)' = Live(i) /\ Creating(i)' = Creating(i)
    BY <2>1 DEF Live, Succeeded, Listed, Creating
  <2>3. ToCreate(i)' = ToCreate(i) \/ ToCreate(i)' = ToCreate(i) \ {c}
    BY <2>1 DEF ToCreate
  <2> SUFFICES ASSUME Creating(i)' \cup ToCreate(i)' # {}
               PROVE  /\ IsFiniteSet(ToCreate(i)')
                      /\ Cardinality(Live(i)' \cup Creating(i)') + Cardinality(ToCreate(i)')
                           <= target'
    BY DEF Bounded
  <2>4. /\ IsFiniteSet(ToCreate(i)) /\ Cardinality(ToCreate(i)) \in Nat
        /\ Cardinality(Live(i) \cup Creating(i)) + Cardinality(ToCreate(i)) <= target
    BY <1>a, <2>2, <2>3, FS_CardinalityType DEF Bounded
  <2>5. /\ IsFiniteSet(ToCreate(i)') /\ Cardinality(ToCreate(i)') \in Nat
        /\ Cardinality(ToCreate(i)') <= Cardinality(ToCreate(i))
    BY <2>3, <2>4, FS_Subset, FS_CardinalityType
  <2>6. Cardinality(Live(i) \cup Creating(i)) \in Nat
    BY LiveFinite
  <2> QED
    BY <1>a, <2>1, <2>2, <2>4, <2>5, <2>6
<1>9. ASSUME NEW b \in polling, Poll(b) PROVE Bounded(i)'
  BY <1>1, <1>9 DEF Poll, svm, ToCreate
<1>10. CASE ReadFails \/ Finish
  BY <1>1, <1>10 DEF ReadFails, Finish, svm, ToCreate
<1>11. ASSUME NEW b \in BindingId, CreateCompletes(b) PROVE Bounded(i)'
  <2>1. /\ UNCHANGED <<owner, target, waiting>>
        /\ lastOp[b] = "creating" /\ lastOp'[b] = "succeeded"
        /\ \A d \in BindingId : d # b => lastOp'[d] = lastOp[d]
    BY <1>11, <1>a DEF CreateCompletes, run
  <2>2. /\ ToCreate(i)' = ToCreate(i) /\ Creating(i)' \subseteq Creating(i)
        /\ Live(i)' \cup Creating(i)' \subseteq Live(i) \cup Creating(i)
    BY <2>1 DEF ToCreate, Creating, Live, Succeeded, Listed
  <2> QED
    BY <1>a, <2>1, <2>2, BoundedStep
<1>12. ASSUME NEW b \in BindingId, DeleteCompletes(b) \/ OperationFails(b) PROVE Bounded(i)'
  <2>1. /\ UNCHANGED <<owner, target, waiting>>
        /\ lastOp'[b] \notin {"creating", "succeeded"}
        /\ \A d \in BindingId : d # b => lastOp'[d] = lastOp[d]
    BY <1>12, <1>a DEF DeleteCompletes, OperationFails, run
  <2>2. /\ ToCreate(i)' = ToCreate(i) /\ Creating(i)' \subseteq Creating(i)
        /\ Live(i)' \subseteq Live(i)
    BY <2>1 DEF ToCreate, Creating, Live, Succeeded, Listed
  <2> QED
    BY <1>a, <2>1, <2>2, BoundedStep
<1>13. CASE UNCHANGED vars
  BY <1>1, <1>13 DEF vars, ToCreate
<1>14. ASSUME \/ \E c \in waiting, b \in BindingId : LoseResponse(c, b)
              \/ \E b \in polling : PollFails(b)
              \/ Crash
       PROVE  late' # 0
  BY <1>14 DEF LoseResponse, PollFails, Crash
<1> QED
  BY <1>4, <1>5, <1>6, <1>7, <1>8, <1>9, <1>10, <1>11, <1>12, <1>13, <1>14
     DEF Next, Proceed, Complete, Fault

\* Where a single binding is to be created there is none yet.
LEMMA SoleCreation ==
    ASSUME TypeOK, target = 1, NEW i, Bounded(i), NEW b \in Creating(i)
    PROVE  Live(i) = {}
<1>1. /\ IsFiniteSet(ToCreate(i))
      /\ Cardinality(Live(i) \cup Creating(i)) + Cardinality(ToCreate(i)) <= 1
  BY DEF Bounded
<1>2. Cardinality(Live(i) \cup Creating(i)) <= 1
  BY <1>1, LiveFinite, FS_CardinalityType
<1>3. Cardinality((Live(i) \cup Creating(i)) \ {b}) = Cardinality(Live(i) \cup Creating(i)) - 1
  BY LiveFinite, FS_RemoveElement
<1>4. /\ IsFiniteSet((Live(i) \cup Creating(i)) \ {b})
      /\ Cardinality((Live(i) \cup Creating(i)) \ {b}) = 0
  BY <1>2, <1>3, LiveFinite, FS_RemoveElement, FS_CardinalityType
<1>5. (Live(i) \cup Creating(i)) \ {b} = {}
  BY <1>4, FS_EmptySet
<1>6. b \notin Live(i)
  BY DEF Creating, Live, Succeeded
<1> QED
  BY <1>5, <1>6

\* What a run for a single binding does never takes the most recent bindings of
\* an instance away, nor puts another one beside them.
LEMMA NewestKept ==
    ASSUME PoolInv, BoundedInv, [Next]_vars, late = 0, late' = 0, NEW i \in Instance,
           target = 1 \/ ~\E b \in BindingId : CreateCompletes(b)
    PROVE  MostRecent(Live(i)) \subseteq MostRecent(Live(i))'
<1>a. /\ TypeOK /\ lastOp \in [BindingId -> OpState]
      /\ \A j : Live(j) \subseteq BindingId
      /\ \A d \in BindingId : updatedAt[d] \in Nat /\ updatedAt[d] <= clock
      /\ Bounded(i)
  BY DEF PoolInv, SurvivalInv, Stamped, TypeOK, Live, Succeeded, Listed, BoundedInv
<1>1. ASSUME Live(i)' \subseteq Live(i), updatedAt' = updatedAt,
             MostRecent(Live(i)) \subseteq Live(i)'
      PROVE  MostRecent(Live(i)) \subseteq MostRecent(Live(i))'
  BY <1>1 DEF MostRecent
<1>2. ASSUME UNCHANGED svm PROVE MostRecent(Live(i)) \subseteq MostRecent(Live(i))'
  BY <1>2 DEF svm, MostRecent, Live, Succeeded, Listed
<1>3. ASSUME NEW c \in waiting, NEW b \in BindingId, Submit(c, b)
      PROVE  MostRecent(Live(i)) \subseteq MostRecent(Live(i))'
  <2>1. CASE AcceptCreate(c, b)
    <3>1. /\ lastOp[b] = "none" /\ lastOp'[b] = "creating" /\ updatedAt' = updatedAt
          /\ \A d \in BindingId : d # b => lastOp'[d] = lastOp[d] /\ owner'[d] = owner[d]
      BY <1>a, <2>1 DEF AcceptCreate, PoolInv, SurvivalInv, OnlyIssued, TypeOK
    <3>2. Live(i)' = Live(i)
      BY <3>1 DEF Live, Succeeded, Listed
    <3> QED
      BY <1>1, <3>1, <3>2 DEF MostRecent
  <2>2. CASE AcceptDelete(c, b)
    <3>1. /\ lastOp'[b] = "deleting" /\ owner' = owner /\ updatedAt' = updatedAt
          /\ \A d \in BindingId : d # b => lastOp'[d] = lastOp[d]
      BY <1>a, <2>2 DEF AcceptDelete
    <3>2. Live(i)' = Live(i) \ {b}
      BY <3>1 DEF Live, Succeeded, Listed
    <3>3. b \notin MostRecent(Live(i))
      BY <2>2, WithdrawsOlder
    <3> QED
      BY <1>1, <3>1, <3>2, <3>3 DEF MostRecent
  <2> QED
    BY <1>3, <2>1, <2>2 DEF Submit
<1>4. ASSUME NEW b \in BindingId, CreateCompletes(b)
      PROVE  MostRecent(Live(i)) \subseteq MostRecent(Live(i))'
  <2>1. /\ lastOp[b] = "creating" /\ lastOp'[b] = "succeeded" /\ owner' = owner
        /\ \A d \in BindingId : d # b => lastOp'[d] = lastOp[d] /\ updatedAt'[d] = updatedAt[d]
    BY <1>4, <1>a DEF CreateCompletes, TypeOK
  <2>2. target = 1
    BY <1>4
  <2>3. CASE owner[b] # i
    <3>1. Live(i)' = Live(i) /\ b \notin Live(i)
      BY <2>1, <2>3 DEF Live, Succeeded, Listed
    <3> QED
      BY <1>a, <2>1, <3>1 DEF MostRecent
  <2>4. CASE owner[b] = i
    <3>1. b \in Creating(i)
      BY <2>1, <2>4 DEF Creating
    <3>2. Live(i) = {}
      BY <1>a, <2>2, <3>1, SoleCreation
    <3> QED
      BY <3>2 DEF MostRecent
  <2> QED
    BY <2>3, <2>4
<1>5. ASSUME NEW b \in BindingId, DeleteCompletes(b) \/ OperationFails(b)
      PROVE  MostRecent(Live(i)) \subseteq MostRecent(Live(i))'
  <2>1. /\ owner' = owner /\ updatedAt' = updatedAt
        /\ lastOp[b] \in InProgress /\ lastOp'[b] # "succeeded"
        /\ \A d \in BindingId : d # b => lastOp'[d] = lastOp[d]
    BY <1>5, <1>a DEF DeleteCompletes, OperationFails, InProgress
  <2>2. Live(i)' = Live(i)
    BY <2>1 DEF Live, Succeeded, Listed, InProgress
  <2> QED
    BY <1>1, <2>1, <2>2 DEF MostRecent
<1>6. ASSUME NEW c \in waiting, NEW b \in BindingId, LoseResponse(c, b) PROVE FALSE
  BY <1>6 DEF LoseResponse
<1> QED
  BY <1>2, <1>3, <1>4, <1>5, <1>6
     DEF Next, Proceed, Complete, Fault, Start, Read, ReadFails,
         RefuseDelete, Refuse, Poll, PollFails, Finish, Crash, vars, svm

\* A run without anything to prune takes no binding away.
LEMMA LiveKept ==
    ASSUME PoolInv, [Next]_vars, late = 0, late' = 0, NEW i \in Instance,
           \A c \in waiting : c.kind # "prune"
    PROVE  Live(i) \subseteq Live(i)'
<1>a. TypeOK /\ lastOp \in [BindingId -> OpState]
  BY DEF PoolInv, SurvivalInv, TypeOK
<1>1. ASSUME UNCHANGED svm PROVE Live(i) \subseteq Live(i)'
  BY <1>1 DEF svm, Live, Succeeded, Listed
<1>2. ASSUME NEW c \in waiting, NEW b \in BindingId, Submit(c, b)
      PROVE  Live(i) \subseteq Live(i)'
  <2>1. CASE AcceptCreate(c, b)
    <3>1. /\ lastOp[b] = "none"
          /\ \A d \in BindingId : d # b => lastOp'[d] = lastOp[d] /\ owner'[d] = owner[d]
      BY <1>a, <2>1 DEF AcceptCreate, PoolInv, SurvivalInv, OnlyIssued, TypeOK
    <3> QED
      BY <3>1 DEF Live, Succeeded, Listed
  <2>2. CASE AcceptDelete(c, b)
    <3>1. /\ b = c.arg /\ c.kind # "create" /\ owner' = owner /\ c \in Change
          /\ \A d \in BindingId : d # b => lastOp'[d] = lastOp[d]
      BY <1>a, <2>2 DEF AcceptDelete, TypeOK
    <3>2. lastOp[b] # "succeeded"
      BY <3>1 DEF PoolInv, QueueJustified, Change
    <3> QED
      BY <3>1, <3>2 DEF Live, Succeeded, Listed
  <2> QED
    BY <1>2, <2>1, <2>2 DEF Submit
<1>3. ASSUME NEW b \in BindingId,
             CreateCompletes(b) \/ DeleteCompletes(b) \/ OperationFails(b)
      PROVE  Live(i) \subseteq Live(i)'
  <2>1. /\ owner' = owner /\ lastOp[b] \in InProgress
        /\ \A d \in BindingId : d # b => lastOp'[d] = lastOp[d]
    BY <1>3, <1>a DEF CreateCompletes, DeleteCompletes, OperationFails, InProgress
  <2> QED
    BY <2>1 DEF Live, Succeeded, Listed, InProgress
<1>4. ASSUME NEW c \in waiting, NEW b \in BindingId, LoseResponse(c, b) PROVE FALSE
  BY <1>4 DEF LoseResponse
<1> QED
  BY <1>1, <1>2, <1>3, <1>4
     DEF Next, Proceed, Complete, Fault, Start, Read, ReadFails,
         RefuseDelete, Refuse, Poll, PollFails, Finish, Crash, vars, svm

\* No instance has, or had when it was listed, more than n bindings, and nothing
\* is to be pruned.
NoSurplus(n) ==
    /\ \A c \in waiting : c.kind # "prune"
    /\ \A i \in Usable : Cardinality(Live(i) \cup Creating(i)) <= n
    /\ phase = "changing" \/ outcome = "ok" =>
         \A i \in Usable : Cardinality(Succeeded(seen, i)) <= n

\* A run that finds no more bindings than its target count makes no surplus.
LEMMA NoSurplusNext ==
    ASSUME PoolInv, BoundedInv, Proceed \/ Complete \/ Fault, late = 0, late' = 0,
           NoSurplus(target)
    PROVE  NoSurplus(target)'
<1>a. /\ TypeOK /\ lastOp \in [BindingId -> OpState] /\ target \in Nat
      /\ Usable \subseteq Instance /\ [Next]_vars
      /\ phase # "changing" => waiting = {}
  BY InstanceAssumption, TargetAssumption
     DEF PoolInv, SurvivalInv, RestInv, TypeOK, Next
<1>b. target' = target
  BY DEF Proceed, Complete, Fault, Read, ReadFails, Submit, LoseResponse, RefuseDelete,
         Refuse, Poll, PollFails, Finish, Crash, CreateCompletes, DeleteCompletes,
         OperationFails, run
<1>1. ASSUME NEW i \in Usable PROVE Cardinality(Live(i)' \cup Creating(i)') <= target
  <2>1. CASE Creating(i)' # {}
    <3>1. i \in Instance /\ Bounded(i)'
      BY <1>a, BoundedNext
    <3>2. /\ IsFiniteSet(ToCreate(i)')
          /\ Cardinality(Live(i)' \cup Creating(i)') + Cardinality(ToCreate(i)') <= target
      BY <1>b, <2>1, <3>1 DEF Bounded
    <3>3. Cardinality(ToCreate(i)') \in Nat
      BY <3>2, FS_CardinalityType
    <3>4. Cardinality(Live(i)' \cup Creating(i)') \in Nat
      BY LiveFiniteNext
    <3> QED
      BY <1>a, <3>2, <3>3, <3>4
  <2>2. CASE Creating(i)' = {}
    <3>1. Live(i)' \subseteq Live(i) \cup Creating(i)
      <4>1. ASSUME UNCHANGED svm PROVE Live(i)' \subseteq Live(i) \cup Creating(i)
        BY <4>1 DEF svm, Live, Succeeded, Listed
      <4>2. ASSUME NEW c \in waiting, NEW b \in BindingId,
                   AcceptCreate(c, b) \/ AcceptDelete(c, b)
            PROVE  Live(i)' \subseteq Live(i) \cup Creating(i)
        <5>1. /\ lastOp'[b] # "succeeded"
              /\ \A d \in BindingId : d # b => lastOp'[d] = lastOp[d] /\ owner'[d] = owner[d]
          BY <4>2, <1>a DEF AcceptCreate, AcceptDelete, TypeOK
        <5> QED
          BY <5>1 DEF Live, Succeeded, Listed
      <4>3. ASSUME NEW b \in BindingId,
                   CreateCompletes(b) \/ DeleteCompletes(b) \/ OperationFails(b)
            PROVE  Live(i)' \subseteq Live(i) \cup Creating(i)
        <5>1. /\ lastOp'[b] = "succeeded" => lastOp[b] = "creating"
              /\ owner' = owner
              /\ \A d \in BindingId : d # b => lastOp'[d] = lastOp[d]
          BY <4>3, <1>a DEF CreateCompletes, DeleteCompletes, OperationFails
        <5> QED
          BY <5>1 DEF Live, Succeeded, Listed, Creating
      <4> QED
        BY <4>1, <4>2, <4>3
           DEF Proceed, Complete, Fault, Read, ReadFails, Submit, LoseResponse,
               RefuseDelete, Refuse, Poll, PollFails, Finish, Crash, svm
    <3>2. Live(i)' \cup Creating(i)' \subseteq Live(i) \cup Creating(i)
      BY <2>2, <3>1
    <3>3. Cardinality(Live(i)' \cup Creating(i)') <= Cardinality(Live(i) \cup Creating(i))
      BY <3>2, LiveFinite, FS_Subset
    <3>4. /\ Cardinality(Live(i) \cup Creating(i)) \in Nat
          /\ Cardinality(Live(i)' \cup Creating(i)') \in Nat
      BY LiveFinite, LiveFiniteNext
    <3>5. Cardinality(Live(i) \cup Creating(i)) <= target
      BY DEF NoSurplus
    <3> QED
      BY <1>a, <3>3, <3>4, <3>5
  <2> QED
    BY <2>1, <2>2
<1>2. CASE Read
  <2>1. /\ seen' = lastOp /\ owner' = owner
        /\ waiting' = UNION {Changes(lastOp, i, target) : i \in scope \cap Usable}
    BY <1>2 DEF Read, svm
  <2>2. ASSUME NEW i \in Usable PROVE Cardinality(Live(i)) <= target
    <3>1. Cardinality(Live(i)) <= Cardinality(Live(i) \cup Creating(i))
      BY LiveFinite, FS_Subset
    <3>2. Cardinality(Live(i)) \in Nat /\ Cardinality(Live(i) \cup Creating(i)) \in Nat
      BY LiveFinite, SucceededFinite DEF Live
    <3>3. Cardinality(Live(i) \cup Creating(i)) <= target
      BY DEF NoSurplus
    <3> QED
      BY <1>a, <3>1, <3>2, <3>3
  <2>3. \A i : Succeeded(seen, i)' = Live(i)
    BY <2>1 DEF Live, Succeeded, Listed
  <2>4. ASSUME NEW c \in waiting' PROVE c.kind # "prune"
    <3>1. PICK i \in scope \cap Usable : c \in Changes(lastOp, i, target)
      BY <2>1
    <3>2. Cardinality(Succeeded(lastOp, i)) \in Nat
      BY SucceededFinite
    <3>3. Ambivalent(lastOp, i, target) = {}
      BY <1>a, <2>2, <3>2 DEF Ambivalent, Live
    <3> QED
      BY <3>1, <3>3 DEF Changes, Missing, Create, Cleanup
  <2> QED
    BY <1>1, <1>b, <2>2, <2>3, <2>4 DEF NoSurplus
<1>3. ASSUME seen' = seen, waiting' \subseteq waiting,
             phase' = "changing" \/ outcome' = "ok" => phase = "changing" \/ outcome = "ok",
             \A b \in BindingId : seen[b] # "none" => owner'[b] = owner[b]
      PROVE  NoSurplus(target)'
  <2>1. \A i : Succeeded(seen, i)' = Succeeded(seen, i)
    BY <1>3 DEF Succeeded, Listed
  <2> QED
    BY <1>1, <1>3, <1>b, <2>1 DEF NoSurplus
<1>4. ASSUME NEW c \in waiting, NEW b \in BindingId, Submit(c, b) PROVE NoSurplus(target)'
  <2>1. \A d \in BindingId : seen[d] # "none" => owner'[d] = owner[d]
    BY <1>4, <1>a
       DEF Submit, AcceptCreate, AcceptDelete, PoolInv, SurvivalInv, OnlyIssued, TypeOK
  <2> QED
    BY <1>3, <1>4, <2>1 DEF Submit
<1>5. ASSUME NEW b \in BindingId,
             CreateCompletes(b) \/ DeleteCompletes(b) \/ OperationFails(b)
      PROVE  NoSurplus(target)'
  BY <1>3, <1>5 DEF CreateCompletes, DeleteCompletes, OperationFails, run
<1>6. ASSUME UNCHANGED svm, seen' = seen, waiting' \subseteq waiting,
             phase' = "changing" \/ outcome' = "ok" => phase = "changing" \/ outcome = "ok"
      PROVE  NoSurplus(target)'
  BY <1>3, <1>6 DEF svm
<1>7. ASSUME NEW c \in waiting, RefuseDelete(c) \/ Refuse(c) PROVE NoSurplus(target)'
  BY <1>6, <1>7 DEF RefuseDelete, Refuse, svm
<1>8. ASSUME NEW b \in polling, Poll(b) PROVE NoSurplus(target)'
  BY <1>6, <1>8 DEF Poll, svm
<1>9. CASE ReadFails \/ Finish
  BY <1>6, <1>9 DEF ReadFails, Finish, svm
<1>10. ASSUME \/ \E c \in waiting, b \in BindingId : LoseResponse(c, b)
              \/ \E b \in polling : PollFails(b)
              \/ Crash
       PROVE  FALSE
  BY <1>10 DEF LoseResponse, PollFails, Crash
<1> QED
  BY <1>2, <1>4, <1>5, <1>7, <1>8, <1>9, <1>10 DEF Proceed, Complete, Fault

-----------------------------------------------------------------------------
(* Beside other commands                                                   *)

\* Everything that is invariant, for modules that run this one beside others.
RunInv == PoolInv /\ BoundedInv /\ ConvergeInv

LEMMA RunInvInit ==
    ASSUME InitialState \cap InProgress = {}
    PROVE  Init => RunInv
<1> SUFFICES ASSUME Init PROVE RunInv
  OBVIOUS
<1>1. QueueJustified
  BY DEF Init, QueueJustified
<1>2. RestInv
  BY RestInit
<1>3. BoundedInv
  <2>1. polling = {} /\ waiting = {} /\ late = 0
    BY DEF Init
  <2>2. \A b \in BindingId : lastOp[b] # "creating"
    BY <1>2, <2>1 DEF RestInv, InProgress
  <2> QED
    BY <2>1, <2>2 DEF BoundedInv, Bounded, Creating, ToCreate
<1> QED
  BY <1>1, <1>2, <1>3, SurvivalInit, StampedInit, ConvergeInit DEF RunInv, PoolInv

LEMMA RunInvNext == RunInv /\ [Next]_vars => RunInv'
<1> SUFFICES ASSUME RunInv, [Next]_vars PROVE RunInv'
  OBVIOUS
<1>1. PoolInv /\ SurvivalInv /\ TypeOK
  BY DEF RunInv, PoolInv, SurvivalInv
<1>2. PoolInv'
  BY <1>1, SurvivalNext, RestNext, StampedNext, QueueJustifiedNext DEF PoolInv
<1>3. BoundedInv'
  BY <1>1, LateGrows, BoundedNext DEF RunInv, BoundedInv
<1> QED
  BY <1>2, <1>3, ConvergeNext DEF RunInv

\* Between two runs nothing happens to the bindings before the next one starts.
LEMMA NothingAtRest ==
    ASSUME RunInv, late = 0, phase = "idle", Proceed \/ Complete \/ Fault
    PROVE  FALSE
<1>1. /\ polling = {} /\ waiting = {}
      /\ \A b \in BindingId : lastOp[b] \notin InProgress
  BY DEF RunInv, PoolInv, RestInv
<1> QED
  BY <1>1 DEF Proceed, Complete, Fault, Read, ReadFails, Finish, Crash,
              CreateCompletes, DeleteCompletes, OperationFails, InProgress

\* Something else takes a step, which may meet a fault of its own.
LEMMA RunInvBeside ==
    ASSUME RunInv, UNCHANGED <<svm, run>>,
           refusals' \in 0..MaxRefusals, late' \in 0..MaxLate, late' = 0 => late = 0
    PROVE  RunInv'
<1>a. UNCHANGED <<lastOp, owner, updatedAt, issued, clock,
                  phase, target, scope, seen, waiting, polling, rejected, outcome>>
  BY DEF svm, run
<1>b. TypeOK /\ SurvivalInv /\ RestInv /\ Stamped /\ QueueJustified /\ ConvergeInv
  BY DEF RunInv, PoolInv, SurvivalInv
<1>1. TypeOK'
  BY <1>a, <1>b DEF TypeOK
<1>2. SurvivalInv'
  BY <1>1, <1>b, SurvivalQuiet DEF run
<1>3. RestInv'
  BY <1>1, <1>a, <1>b DEF RestInv
<1>4. Stamped' /\ Dated' /\ GoneStays' /\ QueueAtRest'
  BY <1>a, <1>b DEF ConvergeInv, Stamped, Dated, GoneStays, QueueAtRest
<1>5. QueueJustified'
  BY <1>a, <1>b DEF QueueJustified, MostRecent, Succeeded, Listed
<1>6. RunAccounted'
  BY <1>b, AccountedSame
<1>7. Converges'
  BY <1>a, <1>b DEF ConvergeInv, Converges, NotSucceeded, Succeeded, Listed
<1>8. BoundedInv'
  <2> SUFFICES ASSUME late' = 0, NEW i \in Instance PROVE Bounded(i)'
    BY DEF BoundedInv
  <2>1. Bounded(i)
    BY DEF RunInv, BoundedInv
  <2>2. Live(i)' = Live(i) /\ Creating(i)' = Creating(i) /\ ToCreate(i)' = ToCreate(i)
    BY <1>a DEF Live, Succeeded, Listed, Creating, ToCreate
  <2> QED
    BY <1>a, <1>b, <2>1, <2>2, BoundedStep
<1> QED
  BY <1>2, <1>3, <1>4, <1>5, <1>6, <1>7, <1>8 DEF RunInv, PoolInv, ConvergeInv
=============================================================================
