--------------------------- MODULE RequestProofs ---------------------------
(***************************************************************************)
(* Proofs about Request, for any clients, attempts, headers and times.     *)
(***************************************************************************)
EXTENDS Request, FiniteSetTheorems, WellFoundedInduction, TLAPS

-----------------------------------------------------------------------------
(* The inductive invariant                                                 *)

\* The fields of requests; of the times nothing is needed.
Shaped ==
    /\ request = [c \in Client |-> request[c]]
    /\ \A c \in Client :
         request[c] = [state |-> request[c].state, attempt |-> request[c].attempt,
                       slept |-> request[c].slept, acted |-> request[c].acted]

\* While a request may still be sent again the server has not acted, and a good
\* response says that it has.
NotYetActed ==
    \A c \in Client :
        /\ request[c].acted \in {0, 1}
        /\ request[c].state \in {"idle", "sent", "sleeping"} => request[c].acted = 0
        /\ Resolved(c) => request[c].acted = 1

IInv == Shaped /\ NotYetActed

LEMMA InvInit == Init => IInv
  BY DEF Init, IInv, Shaped, NotYetActed, Resolved, Good

LEMMA InvNext == IInv /\ [Next]_request => IInv'
<1> SUFFICES ASSUME IInv, [Next]_request PROVE IInv'
  OBVIOUS
<1> USE DEF IInv, Shaped, NotYetActed, Resolved, Good
<1>1. ASSUME NEW c \in Client, Send(c) PROVE IInv'
  BY <1>1 DEF Send
<1>2. ASSUME NEW c \in Client, NEW status \in Status, NEW acts \in BOOLEAN,
             RespondFinally(c, status, acts)
      PROVE  IInv'
  BY <1>2 DEF RespondFinally, Settled
<1>3. ASSUME NEW c \in Client, NEW status \in Status \ Good, NEW acts \in BOOLEAN,
             NEW value \in HeaderValue, RespondRetry(c, status, acts, value)
      PROVE  IInv'
  <2>1. ~acts /\ request[c].acted = 0
    BY <1>3 DEF RespondRetry, DoStopRetry
  <2> DEFINE slept == request[c].slept + SleepTime(request[c].attempt, value)
             acted == request[c].acted + (IF acts THEN 1 ELSE 0)
  <2>2. request' = [request EXCEPT ![c].state = "sleeping", ![c].slept = slept,
                                   ![c].acted = acted]
    BY <1>3 DEF RespondRetry
  <2>3. acted = 0
    BY <2>1
  <2> HIDE DEF slept, acted
  <2>4. \A b \in Client : b # c => request'[b] = request[b]
    BY <2>2
  <2>5. request'[c] = [state |-> "sleeping", attempt |-> request[c].attempt,
                       slept |-> slept, acted |-> 0]
    <3>1. request'[c] = [request[c] EXCEPT !.state = "sleeping", !.slept = slept,
                                           !.acted = acted]
      BY <2>2
    <3>2. request[c] = [state |-> request[c].state, attempt |-> request[c].attempt,
                        slept |-> request[c].slept, acted |-> request[c].acted]
      OBVIOUS
    <3>3. /\ DOMAIN request'[c] = {"state", "attempt", "slept", "acted"}
          /\ request'[c].state = "sleeping" /\ request'[c].slept = slept
          /\ request'[c].acted = acted /\ request'[c].attempt = request[c].attempt
      BY <3>1, <3>2
    <3> QED
      BY <2>3, <3>1, <3>2, <3>3
  <2>6. request' = [b \in Client |-> request'[b]]
    BY <2>2
  <2> QED
    BY <2>4, <2>5, <2>6
<1>4. ASSUME NEW c \in Client, Wake(c) PROVE IInv'
  <2>1. \A b \in Client : /\ request'[b].acted = request[b].acted
                          /\ b # c => request'[b].state = request[b].state
    BY <1>4 DEF Wake
  <2>2. request[c].state = "sleeping" /\ request'[c].state = "sent"
    BY <1>4 DEF Wake
  <2>3. Shaped'
    BY <1>4 DEF Wake
  <2> QED
    BY <2>1, <2>2, <2>3
<1>5. ASSUME NEW c \in Client, NEW acts \in BOOLEAN, Break(c, acts) PROVE IInv'
  <2>1. request[c].acted = 0
    BY <1>5 DEF Break
  <2>2. \A b \in Client :
            request'[b] = IF b = c
                          THEN [state |-> "rejected", attempt |-> 0, slept |-> 0,
                                acted |-> 0 + (IF acts THEN 1 ELSE 0)]
                          ELSE request[b]
    BY <1>5, <2>1 DEF Break, Settled
  <2>3. request' = [b \in Client |-> request'[b]]
    BY <1>5 DEF Break, Settled
  <2> QED
    BY <2>2, <2>3
<1>6. CASE UNCHANGED request
  BY <1>6
<1> QED
  BY <1>1, <1>2, <1>3, <1>4, <1>5, <1>6 DEF Next, Proceed

\* A request that is retried was not acted upon, and so no server acts twice for
\* one request, however often it is sent and whatever is lost.
THEOREM ActsOnce == Spec => []ActedAtMostOnce
<1>1. IInv => ActedAtMostOnce
  <2> SUFFICES ASSUME IInv, NEW c \in Client PROVE request[c].acted <= 1
    BY DEF ActedAtMostOnce
  <2>1. request[c].acted \in {0, 1}
    BY DEF IInv, NotYetActed
  <2> QED
    BY <2>1
<1> QED
  BY <1>1, InvInit, InvNext, PTL DEF Spec

-----------------------------------------------------------------------------
(* Types                                                                   *)

\* Powers of two are cardinalities of sets of subsets.
LEMMA PowerType == \A n \in Nat : 2^n \in Nat
<1> SUFFICES ASSUME NEW n \in Nat PROVE 2^n \in Nat
  OBVIOUS
<1>1. IsFiniteSet(1..n) /\ Cardinality(1..n) = n
  <2>1. IsFiniteSet(1..n) /\ Cardinality(1..n) = IF 1 > n THEN 0 ELSE n - 1 + 1
    BY FS_Interval
  <2> QED
    BY <2>1
<1>2. /\ IsFiniteSet(SUBSET (1..n))
      /\ Cardinality(SUBSET (1..n)) = 2^Cardinality(1..n)
  BY <1>1, FS_SUBSET
<1>3. Cardinality(SUBSET (1..n)) \in Nat
  BY <1>2, FS_CardinalityType
<1> QED
  BY <1>1, <1>2, <1>3

LEMMA SleepTimeType ==
    ASSUME RetrySleepBase \in Nat, RetryAfterMax \in Nat, Waits \subseteq Int,
           NEW attempt \in Nat, NEW value \in HeaderValue
    PROVE  SleepTime(attempt, value) \in Nat
<1>1. RetryFixedSleepTime(attempt) \in Nat
  BY PowerType DEF RetryFixedSleepTime
<1>2. value[1] = "time" => value[2] \in Int
  BY DEF HeaderValue
<1>3. ParseRetryAfter(value) \subseteq Nat
  BY <1>2 DEF ParseRetryAfter
<1> QED
  BY <1>1, <1>3 DEF SleepTime

\* A request sleeps only if an attempt is left.
AttemptLeft == \A c \in Client :
    request[c].state = "sleeping" => request[c].attempt # RetryMaxAttempts - 1

TypeInv == TypeOK /\ AttemptLeft

LEMMA TypeInit == RetryMaxAttempts \in Nat \ {0} /\ Init => TypeInv
  BY DEF Init, TypeInv, TypeOK, AttemptLeft

LEMMA TypeNext ==
    ASSUME RetryMaxAttempts \in Nat \ {0}, RetrySleepBase \in Nat, RetryAfterMax \in Nat,
           Waits \subseteq Int
    PROVE  TypeInv /\ [Next]_request => TypeInv'
<1> SUFFICES ASSUME TypeInv, [Next]_request PROVE TypeInv'
  OBVIOUS
<1> DEFINE State == {"idle", "sent", "sleeping", "rejected"} \cup Good
           Request == [state : State, attempt : 0..RetryMaxAttempts - 1, slept : Nat, acted : Nat]
<1>a. request \in [Client -> Request] /\ 0 \in 0..RetryMaxAttempts - 1
  BY DEF TypeInv, TypeOK
<1>1. ASSUME NEW c \in Client, NEW r \in Request, request' = [request EXCEPT ![c] = r],
             r.state = "sleeping" => r.attempt # RetryMaxAttempts - 1
      PROVE  TypeInv'
  BY <1>a, <1>1 DEF TypeInv, TypeOK, AttemptLeft
<1>2. ASSUME NEW c \in Client, Send(c) PROVE TypeInv'
  <2>1. [request[c] EXCEPT !.state = "sent"] \in Request
    BY <1>a
  <2>2. request' = [request EXCEPT ![c] = [request[c] EXCEPT !.state = "sent"]]
    BY <1>2 DEF Send
  <2> QED
    BY <1>1, <1>a, <2>1, <2>2
<1>3. ASSUME NEW c \in Client, NEW state \in State, NEW acts \in BOOLEAN,
             state # "sleeping", Settled(c, state, acts)
      PROVE  TypeInv'
  <2> DEFINE acted == request[c].acted + (IF acts THEN 1 ELSE 0)
             r == [state |-> state, attempt |-> 0, slept |-> 0, acted |-> acted]
  <2>1. acted \in Nat
    BY <1>a
  <2>2. request' = [request EXCEPT ![c] = r]
    BY <1>3 DEF Settled
  <2> HIDE DEF acted
  <2>3. r \in Request /\ r.state # "sleeping"
    BY <1>a, <1>3, <2>1
  <2> HIDE DEF r
  <2> QED
    BY <1>1, <2>2, <2>3
<1>4. ASSUME NEW c \in Client, NEW status \in Status, NEW acts \in BOOLEAN,
             RespondFinally(c, status, acts)
      PROVE  TypeInv'
  BY <1>3, <1>4 DEF RespondFinally, Good
<1>5. ASSUME NEW c \in Client, NEW status, NEW acts \in BOOLEAN, NEW value \in HeaderValue,
             RespondRetry(c, status, acts, value)
      PROVE  TypeInv'
  <2> DEFINE slept == request[c].slept + SleepTime(request[c].attempt, value)
             acted == request[c].acted + (IF acts THEN 1 ELSE 0)
             r == [request[c] EXCEPT !.state = "sleeping", !.slept = slept, !.acted = acted]
  <2>1. request[c].attempt \in Nat /\ request[c].slept \in Nat /\ request[c].acted \in Nat
    BY <1>a
  <2>2. SleepTime(request[c].attempt, value) \in Nat
    BY <2>1, SleepTimeType
  <2>3. slept \in Nat /\ acted \in Nat
    BY <2>1, <2>2
  <2>4. request[c].attempt # RetryMaxAttempts - 1
    BY <1>5 DEF RespondRetry, IsLastAttempt
  <2>5. request' = [request EXCEPT ![c].state = "sleeping", ![c].slept = slept,
                                   ![c].acted = acted]
    BY <1>5 DEF RespondRetry
  <2> HIDE DEF slept, acted
  <2>6. request' = [request EXCEPT ![c] = r]
    BY <1>a, <2>5
  <2>7. r \in Request /\ r.state = "sleeping" /\ r.attempt = request[c].attempt
    BY <1>a, <2>3
  <2> HIDE DEF r
  <2> QED
    BY <1>1, <2>4, <2>6, <2>7
<1>6. ASSUME NEW c \in Client, Wake(c) PROVE TypeInv'
  <2> DEFINE r == [request[c] EXCEPT !.state = "sent", !.attempt = @ + 1]
  <2>1. request[c].attempt \in 0..RetryMaxAttempts - 1 /\ request[c].attempt # RetryMaxAttempts - 1
    BY <1>a, <1>6 DEF Wake, TypeInv, AttemptLeft
  <2>2. request[c].attempt + 1 \in 0..RetryMaxAttempts - 1
    BY <2>1
  <2>3. r \in Request /\ r.state # "sleeping"
    BY <1>a, <2>2
  <2>4. request' = [request EXCEPT ![c] = r]
    BY <1>6 DEF Wake
  <2> HIDE DEF r
  <2> QED
    BY <1>1, <2>3, <2>4
<1>7. ASSUME NEW c \in Client, NEW acts \in BOOLEAN, Break(c, acts) PROVE TypeInv'
  BY <1>3, <1>7 DEF Break
<1>8. CASE UNCHANGED request
  BY <1>8 DEF TypeInv, TypeOK, AttemptLeft
<1> QED
  BY <1>2, <1>4, <1>5, <1>6, <1>7, <1>8 DEF Next, Proceed

-----------------------------------------------------------------------------
(* Steps of one request, for modules that take them among their own        *)

LEMMA SendMoves ==
    ASSUME IInv, NEW c \in Client, Send(c)
    PROVE  /\ request[c].state = "idle" /\ request'[c].state = "sent"
           /\ request'[c].acted = request[c].acted
           /\ \A d \in Client \ {c} : request'[d] = request[d]
  BY DEF Send, IInv, Shaped

LEMMA ProceedMoves ==
    ASSUME IInv, NEW c \in Client, Proceed(c)
    PROVE  /\ Pending(c) /\ request[c].acted = 0
           /\ request'[c].state # "idle"
           /\ \A d \in Client \ {c} : request'[d] = request[d]
<1> USE DEF IInv, Shaped, NotYetActed, Pending, Good
<1>1. ASSUME NEW state, NEW acts, Settled(c, state, acts), state # "idle"
      PROVE  /\ request'[c].state # "idle"
             /\ \A d \in Client \ {c} : request'[d] = request[d]
  BY <1>1 DEF Settled
<1>2. ASSUME NEW status, NEW acts, RespondFinally(c, status, acts)
      PROVE  /\ Pending(c) /\ request'[c].state # "idle"
             /\ \A d \in Client \ {c} : request'[d] = request[d]
  BY <1>1, <1>2 DEF RespondFinally
<1>3. ASSUME NEW status, NEW acts, NEW value, RespondRetry(c, status, acts, value)
      PROVE  /\ Pending(c) /\ request'[c].state # "idle"
             /\ \A d \in Client \ {c} : request'[d] = request[d]
  <2> DEFINE slept == request[c].slept + SleepTime(request[c].attempt, value)
             acted == request[c].acted + (IF acts THEN 1 ELSE 0)
  <2>1. /\ request[c].state = "sent"
        /\ request' = [request EXCEPT ![c].state = "sleeping", ![c].slept = slept,
                                      ![c].acted = acted]
    BY <1>3 DEF RespondRetry
  <2> HIDE DEF slept, acted
  <2> QED
    BY <2>1
<1>4. ASSUME Wake(c)
      PROVE  /\ Pending(c) /\ request'[c].state # "idle"
             /\ \A d \in Client \ {c} : request'[d] = request[d]
  BY <1>4 DEF Wake
<1>5. ASSUME NEW acts, Break(c, acts)
      PROVE  /\ Pending(c) /\ request'[c].state # "idle"
             /\ \A d \in Client \ {c} : request'[d] = request[d]
  BY <1>1, <1>5 DEF Break
<1>6. Pending(c) => request[c].acted = 0
  OBVIOUS
<1> QED
  BY <1>2, <1>3, <1>4, <1>5, <1>6 DEF Proceed

\* What is known of a request that is over.
LEMMA OverKnown ==
    ASSUME IInv, TypeInv, NEW c \in Client, ~Pending(c)
    PROVE  /\ request[c].state = "idle" \/ Rejected(c) \/ Resolved(c)
           /\ Resolved(c) => request[c].acted = 1 /\ ~Rejected(c)
           /\ request[c].acted \in {0, 1}
<1>1. request[c].state \in {"idle", "sent", "sleeping", "rejected"} \cup Good
  BY DEF TypeInv, TypeOK
<1> QED
  BY <1>1 DEF IInv, NotYetActed, Pending, Rejected, Resolved, Good

-----------------------------------------------------------------------------
(* The time that a request sleeps                                          *)

\* A set of natural numbers has a least one.
LEMMA LeastNumber ==
    ASSUME NEW S \in SUBSET Nat, S # {}
    PROVE  \E n \in S : \A m \in S : n <= m
<1> DEFINE Less == {ss \in Nat \X Nat : ss[1] < ss[2]}
<1>1. IsWellFoundedOn(Less, Nat)
  BY NatLessThanWellFounded, Zenon DEF OpToRel
<1>2. \A m, n \in Nat : m < n => <<m, n>> \in Less
  OBVIOUS
<1> HIDE DEF Less
<1>3. PICK n \in S : \A m \in S : <<m, n>> \notin Less
  BY <1>1, WFMin
<1>4. \A m \in S : ~(m < n)
  BY <1>2, <1>3
<1> QED
  BY <1>4

\* The longest sleep after an attempt, and all moments of those before the n-th.
LongestAfter(attempt) ==
    IF RetryFixedSleepTime(attempt) < RetryAfterMax
    THEN RetryAfterMax ELSE RetryFixedSleepTime(attempt)

Moments(n) == {p \in Nat \X Nat : p[1] < n /\ 1 <= p[2] /\ p[2] <= LongestAfter(p[1])}

LEMMA LongestAfterType ==
    ASSUME RetrySleepBase \in Nat, RetryAfterMax \in Nat, NEW attempt \in Nat
    PROVE  LongestAfter(attempt) \in Nat
  BY PowerType DEF LongestAfter, RetryFixedSleepTime

LEMMA LongestSleepAdds ==
    ASSUME RetrySleepBase \in Nat, RetryAfterMax \in Nat
    PROVE  /\ LongestSleep[0] = 0
           /\ \A n \in Nat : /\ LongestSleep[n] \in Nat
                             /\ LongestSleep[n + 1] = LongestSleep[n] + LongestAfter(n)
<1>1. ASSUME NEW n \in Nat
      PROVE  /\ Moments(n + 1) = Moments(n) \cup ({n} \X (1..LongestAfter(n)))
             /\ Moments(n) \cap ({n} \X (1..LongestAfter(n))) = {}
             /\ IsFiniteSet({n} \X (1..LongestAfter(n)))
             /\ Cardinality({n} \X (1..LongestAfter(n))) = LongestAfter(n)
             /\ LongestAfter(n) \in Nat
  <2>1. LongestAfter(n) \in Nat
    BY LongestAfterType
  <2>2. IsFiniteSet(1..LongestAfter(n)) /\ Cardinality(1..LongestAfter(n)) = LongestAfter(n)
    BY <2>1, FS_Interval
  <2>3. IsFiniteSet({n}) /\ Cardinality({n}) = 1
    BY FS_Singleton
  <2>4. /\ IsFiniteSet({n} \X (1..LongestAfter(n)))
        /\ Cardinality({n} \X (1..LongestAfter(n))) = LongestAfter(n)
    BY <2>1, <2>2, <2>3, FS_Product
  <2>5. ASSUME NEW p \in Moments(n + 1) PROVE p \in Moments(n) \cup ({n} \X (1..LongestAfter(n)))
    BY <2>1 DEF Moments
  <2>6. ASSUME NEW p \in Moments(n) PROVE p \in Moments(n + 1)
    BY DEF Moments
  <2>7. ASSUME NEW p \in {n} \X (1..LongestAfter(n))
        PROVE  p \in Moments(n + 1) /\ p \notin Moments(n)
    BY <2>1 DEF Moments
  <2> QED
    BY <2>1, <2>4, <2>5, <2>6, <2>7
<1>2. Moments(0) = {}
  BY DEF Moments
<1>3. \A n \in Nat : IsFiniteSet(Moments(n))
  <2> DEFINE S == {n \in Nat : ~IsFiniteSet(Moments(n))}
  <2> SUFFICES ASSUME S # {} PROVE FALSE
    OBVIOUS
  <2>1. PICK m \in S : \A k \in S : m <= k
    BY LeastNumber
  <2>2. m # 0
    BY <1>2, <2>1, FS_EmptySet
  <2>3. m - 1 \in Nat /\ m - 1 \notin S /\ (m - 1) + 1 = m
    BY <2>1, <2>2
  <2>4. IsFiniteSet(Moments(m - 1))
    BY <2>3
  <2> DEFINE Last == {m - 1} \X (1..LongestAfter(m - 1))
  <2>a. Moments((m - 1) + 1) = Moments(m - 1) \cup Last /\ IsFiniteSet(Last)
    BY <1>1, <2>3
  <2> HIDE DEF Last
  <2>b. IsFiniteSet(Moments(m - 1) \cup Last)
    BY <2>4, <2>a, FS_Union
  <2>5. IsFiniteSet(Moments((m - 1) + 1))
    BY <2>a, <2>b
  <2> QED
    BY <2>1, <2>3, <2>5
<1> DEFINE G == [n \in Nat |-> Cardinality(Moments(n))]
<1>4. G[0] = 0
  BY <1>2, FS_EmptySet
<1>5. ASSUME NEW n \in Nat PROVE G[n] \in Nat /\ G[n + 1] = G[n] + LongestAfter(n)
  <2>1. Cardinality(Moments(n)) \in Nat
    BY <1>3, FS_CardinalityType
  <2> DEFINE Last == {n} \X (1..LongestAfter(n))
  <2>2. /\ Moments(n + 1) = Moments(n) \cup Last /\ Moments(n) \cap Last = {}
        /\ IsFiniteSet(Last) /\ Cardinality(Last) = LongestAfter(n) /\ LongestAfter(n) \in Nat
    BY <1>1
  <2>3. IsFiniteSet(Moments(n))
    BY <1>3
  <2> HIDE DEF Last
  <2>4. Cardinality(Moments(n) \cup Last)
          = Cardinality(Moments(n)) + Cardinality(Last) - Cardinality(Moments(n) \cap Last)
    BY <2>2, <2>3, FS_Union
  <2>5. Cardinality(Moments(n) \cap Last) = 0
    BY <2>2, FS_EmptySet
  <2>a. Cardinality(Moments(n + 1)) = Cardinality(Moments(n) \cup Last)
    BY <2>2, Zenon
  <2>b. Cardinality(Moments(n) \cup Last) = Cardinality(Moments(n)) + LongestAfter(n) - 0
    BY <2>2, <2>4, <2>5, Zenon
  <2>6. Cardinality(Moments(n + 1)) = Cardinality(Moments(n)) + LongestAfter(n)
    BY <2>1, <2>2, <2>a, <2>b
  <2>7. G[n] = Cardinality(Moments(n)) /\ G[n + 1] = Cardinality(Moments(n + 1))
    OBVIOUS
  <2> HIDE DEF G
  <2> QED
    BY <2>1, <2>6, <2>7
<1>6. G = [n \in Nat |-> IF n = 0 THEN 0 ELSE G[n - 1] + LongestAfter(n - 1)]
  <2>1. \A n \in Nat : G[n] = IF n = 0 THEN 0 ELSE G[n - 1] + LongestAfter(n - 1)
    <3> SUFFICES ASSUME NEW n \in Nat, n # 0 PROVE G[n] = G[n - 1] + LongestAfter(n - 1)
      BY <1>4
    <3>1. n - 1 \in Nat /\ (n - 1) + 1 = n
      OBVIOUS
    <3> HIDE DEF G
    <3> QED
      BY <1>5, <3>1
  <2> QED
    BY <2>1
<1> HIDE DEF G
<1>7. LongestSleep = [n \in Nat |-> IF n = 0 THEN 0
                                    ELSE LongestSleep[n - 1] + LongestAfter(n - 1)]
  BY <1>6 DEF LongestSleep, LongestAfter
<1>8. LongestSleep[0] = 0
  BY <1>7
<1>9. ASSUME NEW n \in Nat PROVE LongestSleep[n + 1] = LongestSleep[n] + LongestAfter(n)
  <2>1. n + 1 \in Nat /\ n + 1 # 0 /\ (n + 1) - 1 = n
    OBVIOUS
  <2> QED
    BY <1>7, <2>1
<1>10. \A n \in Nat : LongestSleep[n] \in Nat
  <2> DEFINE S == {n \in Nat : LongestSleep[n] \notin Nat}
  <2> SUFFICES ASSUME S # {} PROVE FALSE
    OBVIOUS
  <2>1. PICK m \in S : \A k \in S : m <= k
    BY LeastNumber
  <2>2. m # 0
    BY <1>8, <2>1
  <2>3. m - 1 \in Nat /\ m - 1 \notin S /\ (m - 1) + 1 = m
    BY <2>1, <2>2
  <2>4. LongestSleep[m - 1] \in Nat /\ LongestAfter(m - 1) \in Nat
    BY <1>1, <2>3
  <2>5. LongestSleep[m] = LongestSleep[m - 1] + LongestAfter(m - 1)
    BY <1>9, <2>3
  <2> QED
    BY <2>1, <2>4, <2>5
<1> QED
  BY <1>8, <1>9, <1>10

LEMMA LongestSleepGrows ==
    ASSUME RetrySleepBase \in Nat, RetryAfterMax \in Nat, NEW n \in Nat, NEW m \in Nat, m <= n
    PROVE  LongestSleep[m] <= LongestSleep[n]
<1> DEFINE S == {k \in Nat : m <= k /\ ~(LongestSleep[m] <= LongestSleep[k])}
<1> SUFFICES ASSUME S # {} PROVE FALSE
  OBVIOUS
<1>1. PICK k \in S : \A l \in S : k <= l
  BY LeastNumber
<1>2. LongestSleep[m] \in Nat /\ LongestSleep[k] \in Nat
  BY <1>1, LongestSleepAdds
<1>3. k # m
  BY <1>1, <1>2
<1>4. k - 1 \in Nat /\ m <= k - 1 /\ k - 1 \notin S /\ (k - 1) + 1 = k
  BY <1>1, <1>3
<1>5. LongestSleep[m] <= LongestSleep[k - 1]
  BY <1>4
<1>6. /\ LongestSleep[k] = LongestSleep[k - 1] + LongestAfter(k - 1)
      /\ LongestSleep[k - 1] \in Nat /\ LongestAfter(k - 1) \in Nat
  BY <1>4, LongestSleepAdds, LongestAfterType
<1> QED
  BY <1>1, <1>2, <1>5, <1>6

LEMMA SleepTimeBounded ==
    ASSUME RetrySleepBase \in Nat, RetryAfterMax \in Nat, Waits \subseteq Int,
           NEW attempt \in Nat, NEW value \in HeaderValue
    PROVE  SleepTime(attempt, value) <= LongestAfter(attempt)
<1>1. RetryFixedSleepTime(attempt) \in Nat
  BY PowerType DEF RetryFixedSleepTime
<1>2. /\ RetryFixedSleepTime(attempt) <= LongestAfter(attempt)
      /\ RetryAfterMax <= LongestAfter(attempt)
  BY <1>1 DEF LongestAfter
<1>3. value[1] = "time" => value[2] \in Int
  BY DEF HeaderValue
<1>4. \A wait \in ParseRetryAfter(value) : wait <= RetryAfterMax /\ wait \in Nat
  BY <1>3 DEF ParseRetryAfter
<1>5. LongestAfter(attempt) \in Nat
  BY LongestAfterType
<1>6. CASE ParseRetryAfter(value) = {}
  BY <1>2, <1>6 DEF SleepTime
<1>7. CASE ParseRetryAfter(value) # {}
  <2>1. SleepTime(attempt, value) \in ParseRetryAfter(value)
    BY <1>7 DEF SleepTime
  <2> QED
    BY <1>2, <1>4, <1>5, <2>1
<1> QED
  BY <1>6, <1>7

\* What a request has slept is within the sum of the longest sleeps up to its attempt.
Slept ==
    \A c \in Client :
        /\ request[c].state = "sent" => request[c].slept <= LongestSleep[request[c].attempt]
        /\ request[c].state = "sleeping" =>
              request[c].slept <= LongestSleep[request[c].attempt + 1]
        /\ request[c].state \notin {"sent", "sleeping"} =>
              request[c].slept = 0 /\ request[c].attempt = 0

LEMMA SleptInit == Init => Slept
<1> SUFFICES ASSUME Init PROVE Slept
  OBVIOUS
<1>1. \A c \in Client :
        request[c].state = "idle" /\ request[c].slept = 0 /\ request[c].attempt = 0
  BY DEF Init
<1> QED
  BY <1>1 DEF Slept

LEMMA SleptNext ==
    ASSUME RetryMaxAttempts \in Nat \ {0}, RetrySleepBase \in Nat, RetryAfterMax \in Nat,
           Waits \subseteq Int
    PROVE  IInv /\ TypeInv /\ Slept /\ [Next]_request => Slept'
<1> SUFFICES ASSUME IInv, TypeInv, Slept, [Next]_request PROVE Slept'
  OBVIOUS
<1> DEFINE Fits(r) ==
        /\ r.state = "sent" => r.slept <= LongestSleep[r.attempt]
        /\ r.state = "sleeping" => r.slept <= LongestSleep[r.attempt + 1]
        /\ r.state \notin {"sent", "sleeping"} => r.slept = 0 /\ r.attempt = 0
<1>a. request = [c \in Client |-> request[c]]
  BY DEF IInv, Shaped
<1>b. \A c \in Client : request[c].attempt \in Nat /\ request[c].slept \in Nat
  BY DEF TypeInv, TypeOK
<1>c. \A c \in Client :
        request[c] = [state |-> request[c].state, attempt |-> request[c].attempt,
                      slept |-> request[c].slept, acted |-> request[c].acted]
  BY DEF IInv, Shaped
<1>d. \A n \in Nat : /\ LongestSleep[n] \in Nat
                     /\ LongestSleep[n + 1] = LongestSleep[n] + LongestAfter(n)
  BY LongestSleepAdds
<1>e. \A c \in Client : Fits(request[c])
  BY DEF Slept
<1>1. ASSUME NEW c \in Client, NEW r, request' = [request EXCEPT ![c] = r], Fits(r)
      PROVE  Slept'
  <2>1. \A d \in Client : request'[d] = IF d = c THEN r ELSE request[d]
    BY <1>a, <1>1
  <2> HIDE DEF Fits
  <2>2. \A d \in Client : Fits(request'[d])
    BY <1>1, <1>e, <2>1
  <2> QED
    BY <2>2 DEF Fits, Slept
<1>2. ASSUME NEW c \in Client, Send(c) PROVE Slept'
  <2> DEFINE r == [request[c] EXCEPT !.state = "sent"]
  <2>1. request[c].slept = 0 /\ request[c].attempt = 0
    BY <1>2, <1>e DEF Send
  <2>2. r.state = "sent" /\ r.slept = 0 /\ r.attempt = 0
    BY <1>c, <2>1
  <2>3. request' = [request EXCEPT ![c] = r]
    BY <1>2 DEF Send
  <2>4. LongestSleep[0] = 0
    BY LongestSleepAdds
  <2> HIDE DEF r
  <2>5. Fits(r)
    BY <2>2, <2>4
  <2> HIDE DEF Fits
  <2> QED
    BY <1>1, <2>3, <2>5
<1>3. ASSUME NEW c \in Client, NEW state, NEW acts, state \notin {"sent", "sleeping"},
             Settled(c, state, acts)
      PROVE  Slept'
  <2> DEFINE acted == request[c].acted + (IF acts THEN 1 ELSE 0)
             r == [state |-> state, attempt |-> 0, slept |-> 0, acted |-> acted]
  <2>1. request' = [request EXCEPT ![c] = r]
    BY <1>a, <1>3 DEF Settled
  <2> HIDE DEF acted
  <2>2. Fits(r)
    BY <1>3
  <2> HIDE DEF r, Fits
  <2> QED
    BY <1>1, <2>1, <2>2
<1>4. ASSUME NEW c \in Client, NEW status \in Status, NEW acts \in BOOLEAN,
             RespondFinally(c, status, acts)
      PROVE  Slept'
  BY <1>3, <1>4 DEF RespondFinally, Good
<1>5. ASSUME NEW c \in Client, NEW status, NEW acts, NEW value \in HeaderValue,
             RespondRetry(c, status, acts, value)
      PROVE  Slept'
  <2> DEFINE slept == request[c].slept + SleepTime(request[c].attempt, value)
             acted == request[c].acted + (IF acts THEN 1 ELSE 0)
             r == [request[c] EXCEPT !.state = "sleeping", !.slept = slept, !.acted = acted]
  <2>1. request[c].slept <= LongestSleep[request[c].attempt]
    BY <1>5, <1>e DEF RespondRetry
  <2>2. /\ SleepTime(request[c].attempt, value) \in Nat
        /\ SleepTime(request[c].attempt, value) <= LongestAfter(request[c].attempt)
        /\ LongestAfter(request[c].attempt) \in Nat
    BY <1>b, SleepTimeType, SleepTimeBounded, LongestAfterType
  <2>3. slept <= LongestSleep[request[c].attempt + 1]
    BY <1>b, <1>d, <2>1, <2>2
  <2>4. request' = [request EXCEPT ![c].state = "sleeping", ![c].slept = slept,
                                   ![c].acted = acted]
    BY <1>5 DEF RespondRetry
  <2> HIDE DEF slept, acted
  <2>5. request' = [request EXCEPT ![c] = r]
    BY <1>a, <2>4
  <2>6. r.state = "sleeping" /\ r.slept = slept /\ r.attempt = request[c].attempt
    BY <1>c
  <2> HIDE DEF r
  <2>7. Fits(r)
    BY <2>3, <2>6
  <2> HIDE DEF Fits
  <2> QED
    BY <1>1, <2>5, <2>7
<1>6. ASSUME NEW c \in Client, Wake(c) PROVE Slept'
  <2> DEFINE r == [request[c] EXCEPT !.state = "sent", !.attempt = @ + 1]
  <2>1. request[c].slept <= LongestSleep[request[c].attempt + 1]
    BY <1>6, <1>e DEF Wake
  <2>2. r.state = "sent" /\ r.slept = request[c].slept /\ r.attempt = request[c].attempt + 1
    BY <1>c
  <2>3. request' = [request EXCEPT ![c] = r]
    BY <1>6 DEF Wake
  <2> HIDE DEF r
  <2>4. Fits(r)
    BY <2>1, <2>2
  <2> HIDE DEF Fits
  <2> QED
    BY <1>1, <2>3, <2>4
<1>7. ASSUME NEW c \in Client, NEW acts, Break(c, acts) PROVE Slept'
  BY <1>3, <1>7 DEF Break
<1>8. CASE UNCHANGED request
  BY <1>8 DEF Slept
<1> QED
  BY <1>2, <1>4, <1>5, <1>6, <1>7, <1>8 DEF Next, Proceed

LEMMA SleptSafe ==
    ASSUME RetryMaxAttempts \in Nat \ {0}, RetrySleepBase \in Nat, RetryAfterMax \in Nat
    PROVE  TypeInv /\ Slept => BoundedSleep
<1> SUFFICES ASSUME TypeInv, Slept, NEW c \in Client
             PROVE  request[c].slept <= LongestSleep[RetryMaxAttempts - 1]
  BY DEF BoundedSleep
<1> DEFINE attempt == request[c].attempt
           last == RetryMaxAttempts - 1
<1>1. /\ attempt \in 0..last /\ request[c].slept \in Nat
      /\ request[c].state = "sleeping" => attempt # last
      /\ last \in Nat
  BY DEF TypeInv, TypeOK, AttemptLeft
<1>2. /\ LongestSleep[last] \in Nat /\ LongestSleep[attempt] \in Nat
      /\ LongestSleep[attempt + 1] \in Nat
  BY <1>1, LongestSleepAdds
<1>3. LongestSleep[attempt] <= LongestSleep[last]
  BY <1>1, LongestSleepGrows
<1>4. attempt # last => LongestSleep[attempt + 1] <= LongestSleep[last]
  BY <1>1, LongestSleepGrows
<1>5. /\ request[c].state = "sent" => request[c].slept <= LongestSleep[attempt]
      /\ request[c].state = "sleeping" => request[c].slept <= LongestSleep[attempt + 1]
      /\ request[c].state \notin {"sent", "sleeping"} => request[c].slept = 0
  BY DEF Slept
<1> HIDE DEF attempt, last
<1> QED
  BY <1>1, <1>2, <1>3, <1>4, <1>5 DEF last
=============================================================================
