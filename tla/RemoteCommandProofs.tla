------------------------ MODULE RemoteCommandProofs ------------------------
(***************************************************************************)
(* Proofs about RemoteCommand and the commands that it consists of, for    *)
(* any subscriptions, tenants, instances and bindings.                     *)
(***************************************************************************)
EXTENDS RemoteCommand, FiniteSetTheorems, TLAPS

RegP == INSTANCE RequestProofs WITH Client <- Subscription, request <- regRequest,
                                    RetryMaxAttempts <- RegMaxAttempts, Waits <- {}
CdsP == INSTANCE RequestProofs WITH Client <- Cds!Unit, request <- cdsRequest,
                                    RetryMaxAttempts <- CdsMaxAttempts, Waits <- {}
HttpP == INSTANCE RequestProofs WITH Client <- Caller

-----------------------------------------------------------------------------
(* Requests in the modules of the commands and in the one with their proofs *)

LEMMA RegistryRequests ==
    /\ Registry!R!Init => RegP!Init
    /\ \A c : Registry!R!Send(c) => RegP!Send(c)
    /\ \A c : Registry!R!Proceed(c) => RegP!Proceed(c)
    /\ \A c : /\ Registry!R!Pending(c) <=> RegP!Pending(c)
              /\ Registry!R!Resolved(c) <=> RegP!Resolved(c)
              /\ Registry!R!Rejected(c) <=> RegP!Rejected(c)
    /\ Registry!R!TypeOK <=> RegP!TypeOK
    /\ Registry!R!ActedAtMostOnce <=> RegP!ActedAtMostOnce
<1> USE DEF Registry!R!Good, RegP!Good, Registry!R!Status, RegP!Status
<1>1. Registry!R!Init => RegP!Init
  BY DEF Registry!R!Init, RegP!Init
<1>2. \A c : Registry!R!Send(c) => RegP!Send(c)
  BY DEF Registry!R!Send, RegP!Send
<1>3. \A c : /\ Registry!R!Pending(c) <=> RegP!Pending(c)
             /\ Registry!R!Resolved(c) <=> RegP!Resolved(c)
             /\ Registry!R!Rejected(c) <=> RegP!Rejected(c)
  BY DEF Registry!R!Pending, RegP!Pending, Registry!R!Resolved, RegP!Resolved,
         Registry!R!Rejected, RegP!Rejected
<1>4. Registry!R!TypeOK <=> RegP!TypeOK
  BY DEF Registry!R!TypeOK, RegP!TypeOK
<1>5. Registry!R!ActedAtMostOnce <=> RegP!ActedAtMostOnce
  BY DEF Registry!R!ActedAtMostOnce, RegP!ActedAtMostOnce
<1>6. \A c, status, acts :
        Registry!R!RespondFinally(c, status, acts) => RegP!RespondFinally(c, status, acts)
  BY DEF Registry!R!RespondFinally, RegP!RespondFinally, Registry!R!Settled, RegP!Settled,
         Registry!R!DoStopRetry, RegP!DoStopRetry, Registry!R!IsLastAttempt,
         RegP!IsLastAttempt
<1>7. \A attempt, value :
        Registry!R!SleepTime(attempt, value) = RegP!SleepTime(attempt, value)
  BY DEF Registry!R!SleepTime, RegP!SleepTime, Registry!R!ParseRetryAfter,
         RegP!ParseRetryAfter, Registry!R!RetryFixedSleepTime, RegP!RetryFixedSleepTime
<1>8. ASSUME NEW c, NEW status, NEW acts, NEW value,
             Registry!R!RespondRetry(c, status, acts, value)
      PROVE  RegP!RespondRetry(c, status, acts, value)
  <2>1. Registry!R!SleepTime(regRequest[c].attempt, value)
          = RegP!SleepTime(regRequest[c].attempt, value)
    BY <1>7
  <2> QED
    BY <1>8, <2>1, Zenon
       DEF Registry!R!RespondRetry, RegP!RespondRetry, Registry!R!DoStopRetry,
           RegP!DoStopRetry, Registry!R!IsLastAttempt, RegP!IsLastAttempt
<1>9. \A c : /\ Registry!R!Wake(c) => RegP!Wake(c)
             /\ \A acts : Registry!R!Break(c, acts) => RegP!Break(c, acts)
  BY DEF Registry!R!Wake, RegP!Wake, Registry!R!Break, RegP!Break, Registry!R!Settled,
         RegP!Settled
<1>10. \A c : Registry!R!Proceed(c) => RegP!Proceed(c)
  BY <1>6, <1>8, <1>9 DEF Registry!R!Proceed, RegP!Proceed, Registry!R!HeaderValue,
                          RegP!HeaderValue
<1> QED
  BY <1>1, <1>2, <1>3, <1>4, <1>5, <1>10

LEMMA CdsRequests ==
    /\ Cds!R!Init => CdsP!Init
    /\ \A c : Cds!R!Send(c) => CdsP!Send(c)
    /\ \A c : Cds!R!Proceed(c) => CdsP!Proceed(c)
    /\ \A c : /\ Cds!R!Pending(c) <=> CdsP!Pending(c)
              /\ Cds!R!Resolved(c) <=> CdsP!Resolved(c)
              /\ Cds!R!Rejected(c) <=> CdsP!Rejected(c)
    /\ Cds!R!TypeOK <=> CdsP!TypeOK
    /\ Cds!R!ActedAtMostOnce <=> CdsP!ActedAtMostOnce
<1> USE DEF Cds!R!Good, CdsP!Good, Cds!R!Status, CdsP!Status
<1>1. Cds!R!Init => CdsP!Init
  BY DEF Cds!R!Init, CdsP!Init
<1>2. \A c : Cds!R!Send(c) => CdsP!Send(c)
  BY DEF Cds!R!Send, CdsP!Send
<1>3. \A c : /\ Cds!R!Pending(c) <=> CdsP!Pending(c)
             /\ Cds!R!Resolved(c) <=> CdsP!Resolved(c)
             /\ Cds!R!Rejected(c) <=> CdsP!Rejected(c)
  BY DEF Cds!R!Pending, CdsP!Pending, Cds!R!Resolved, CdsP!Resolved,
         Cds!R!Rejected, CdsP!Rejected
<1>4. Cds!R!TypeOK <=> CdsP!TypeOK
  BY DEF Cds!R!TypeOK, CdsP!TypeOK
<1>5. Cds!R!ActedAtMostOnce <=> CdsP!ActedAtMostOnce
  BY DEF Cds!R!ActedAtMostOnce, CdsP!ActedAtMostOnce
<1>6. \A c, status, acts :
        Cds!R!RespondFinally(c, status, acts) => CdsP!RespondFinally(c, status, acts)
  BY DEF Cds!R!RespondFinally, CdsP!RespondFinally, Cds!R!Settled, CdsP!Settled,
         Cds!R!DoStopRetry, CdsP!DoStopRetry, Cds!R!IsLastAttempt,
         CdsP!IsLastAttempt
<1>7. \A attempt, value :
        Cds!R!SleepTime(attempt, value) = CdsP!SleepTime(attempt, value)
  BY DEF Cds!R!SleepTime, CdsP!SleepTime, Cds!R!ParseRetryAfter,
         CdsP!ParseRetryAfter, Cds!R!RetryFixedSleepTime, CdsP!RetryFixedSleepTime
<1>8. ASSUME NEW c, NEW status, NEW acts, NEW value,
             Cds!R!RespondRetry(c, status, acts, value)
      PROVE  CdsP!RespondRetry(c, status, acts, value)
  <2>1. Cds!R!SleepTime(cdsRequest[c].attempt, value)
          = CdsP!SleepTime(cdsRequest[c].attempt, value)
    BY <1>7
  <2> QED
    BY <1>8, <2>1, Zenon
       DEF Cds!R!RespondRetry, CdsP!RespondRetry, Cds!R!DoStopRetry,
           CdsP!DoStopRetry, Cds!R!IsLastAttempt, CdsP!IsLastAttempt
<1>9. \A c : /\ Cds!R!Wake(c) => CdsP!Wake(c)
             /\ \A acts : Cds!R!Break(c, acts) => CdsP!Break(c, acts)
  BY DEF Cds!R!Wake, CdsP!Wake, Cds!R!Break, CdsP!Break, Cds!R!Settled,
         CdsP!Settled
<1>10. \A c : Cds!R!Proceed(c) => CdsP!Proceed(c)
  BY <1>6, <1>8, <1>9 DEF Cds!R!Proceed, CdsP!Proceed, Cds!R!HeaderValue,
                          CdsP!HeaderValue
<1> QED
  BY <1>1, <1>2, <1>3, <1>4, <1>5, <1>10

LEMMA HttpRequests ==
    /\ Http!Init => HttpP!Init
    /\ \A c : Http!Send(c) => HttpP!Send(c)
    /\ \A c : Http!Proceed(c) => HttpP!Proceed(c)
    /\ \A c : /\ Http!Pending(c) <=> HttpP!Pending(c)
              /\ Http!Resolved(c) <=> HttpP!Resolved(c)
              /\ Http!Rejected(c) <=> HttpP!Rejected(c)
    /\ Http!TypeOK <=> HttpP!TypeOK
    /\ Http!ActedAtMostOnce <=> HttpP!ActedAtMostOnce
<1> USE DEF Http!Good, HttpP!Good, Http!Status, HttpP!Status
<1>1. Http!Init => HttpP!Init
  BY DEF Http!Init, HttpP!Init
<1>2. \A c : Http!Send(c) => HttpP!Send(c)
  BY DEF Http!Send, HttpP!Send
<1>3. \A c : /\ Http!Pending(c) <=> HttpP!Pending(c)
             /\ Http!Resolved(c) <=> HttpP!Resolved(c)
             /\ Http!Rejected(c) <=> HttpP!Rejected(c)
  BY DEF Http!Pending, HttpP!Pending, Http!Resolved, HttpP!Resolved,
         Http!Rejected, HttpP!Rejected
<1>4. Http!TypeOK <=> HttpP!TypeOK
  BY DEF Http!TypeOK, HttpP!TypeOK
<1>5. Http!ActedAtMostOnce <=> HttpP!ActedAtMostOnce
  BY DEF Http!ActedAtMostOnce, HttpP!ActedAtMostOnce
<1>6. \A c, status, acts :
        Http!RespondFinally(c, status, acts) => HttpP!RespondFinally(c, status, acts)
  BY DEF Http!RespondFinally, HttpP!RespondFinally, Http!Settled, HttpP!Settled,
         Http!DoStopRetry, HttpP!DoStopRetry, Http!IsLastAttempt,
         HttpP!IsLastAttempt
<1>7. \A attempt, value :
        Http!SleepTime(attempt, value) = HttpP!SleepTime(attempt, value)
  BY DEF Http!SleepTime, HttpP!SleepTime, Http!ParseRetryAfter,
         HttpP!ParseRetryAfter, Http!RetryFixedSleepTime, HttpP!RetryFixedSleepTime
<1>8. ASSUME NEW c, NEW status, NEW acts, NEW value,
             Http!RespondRetry(c, status, acts, value)
      PROVE  HttpP!RespondRetry(c, status, acts, value)
  <2>1. Http!SleepTime(request[c].attempt, value)
          = HttpP!SleepTime(request[c].attempt, value)
    BY <1>7
  <2> QED
    BY <1>8, <2>1, Zenon
       DEF Http!RespondRetry, HttpP!RespondRetry, Http!DoStopRetry,
           HttpP!DoStopRetry, Http!IsLastAttempt, HttpP!IsLastAttempt
<1>9. \A c : /\ Http!Wake(c) => HttpP!Wake(c)
             /\ \A acts : Http!Break(c, acts) => HttpP!Break(c, acts)
  BY DEF Http!Wake, HttpP!Wake, Http!Break, HttpP!Break, Http!Settled,
         HttpP!Settled
<1>10. \A c : Http!Proceed(c) => HttpP!Proceed(c)
  BY <1>6, <1>8, <1>9 DEF Http!Proceed, HttpP!Proceed, Http!HeaderValue,
                          HttpP!HeaderValue
<1> QED
  BY <1>1, <1>2, <1>3, <1>4, <1>5, <1>10

-----------------------------------------------------------------------------
(* The commands of the tenant registry                                     *)

\* A request is pending only while its subscription is called.
CallsPend ==
    \A s \in Subscription :
        /\ Registry!R!Pending(s) => mark[s] = "calling"
        /\ mark[s] = "calling" => regRequest[s].state # "idle"

\* Nothing is marked before the selection, and at the end all marks are final.
MarksOfPhase ==
    /\ regPhase = "listing" => \A s \in Subscription : mark[s] = "none"
    /\ regPhase = "ended" =>
         \A s \in Subscription : mark[s] \in {"none", "success", "failure"}

\* A service acts only for what was selected, and has a job for it then.  A request
\* that is not polled is done with it.
JobOfRequest ==
    \A s \in Subscription :
        /\ mark[s] \in {"none", "queued"} => regRequest[s].acted = 0
        /\ regRequest[s].acted = 0 <=> regJob[s] = "none"
        /\ regJob[s] = "running" => Registry!IsPoll

\* A success is one in the service, too.
Successes ==
    /\ \A s \in Subscription :
         /\ mark[s] = "polling" => regRequest[s].acted = 1 /\ Registry!IsPoll
         /\ mark[s] = "success" => regRequest[s].acted = 1 /\ regJob[s] = "succeeded"
         /\ regRequest[s].acted = 1 /\ ~Registry!IsPoll => regJob[s] = "succeeded"
    /\ regOutcome = "ok" =>
         regPhase = "ended" /\ \A s \in Subscription : mark[s] # "failure"

Calls == CallsPend /\ MarksOfPhase /\ JobOfRequest /\ Successes

RegRequests == RegP!IInv /\ RegP!TypeInv

LEMMA RegRequestsInit == Registry!R!Init => RegRequests
  BY RegistryRequests, RegP!InvInit, RegP!TypeInit, RegistryAssumption DEF RegRequests

LEMMA RegRequestsNext ==
    ASSUME RegRequests, NEW s \in Subscription,
           Registry!R!Send(s) \/ Registry!R!Proceed(s)
    PROVE  RegRequests'
<1>1. RegP!Next
  BY RegistryRequests DEF RegP!Next
<1>2. RegP!IInv'
  BY <1>1, RegP!InvNext DEF RegRequests
<1>3. RegP!TypeInv'
  <2>1. /\ RegMaxAttempts \in Nat \ {0} /\ RetrySleepBase \in Nat /\ RetryAfterMax \in Nat
        /\ {} \subseteq Int
    BY RegistryAssumption, RequestAssumption
  <2> QED
    BY <1>1, <2>1, RegP!TypeNext DEF RegRequests
<1> QED
  BY <1>2, <1>3 DEF RegRequests

LEMMA RegRequestsSame == RegRequests /\ UNCHANGED regRequest => RegRequests'
  BY DEF RegRequests, RegP!IInv, RegP!Shaped, RegP!NotYetActed, RegP!TypeInv, RegP!TypeOK,
         RegP!AttemptLeft, RegP!Resolved

\* The state that the calls change.
RegTyped ==
    /\ Registry!TypeOK
    /\ RegRequests

LEMMA RegTypedInit == Registry!Init \/ Registry!Idle => RegTyped
<1> SUFFICES ASSUME Registry!Init \/ Registry!Idle PROVE RegTyped
  OBVIOUS
<1>1. RegRequests /\ Registry!R!TypeOK
  <2>1. Registry!R!Init
    BY DEF Registry!Init, Registry!Idle, Registry!Begin
  <2> QED
    BY <2>1, RegRequestsInit, RegistryRequests DEF RegRequests, RegP!TypeInv
<1>2. /\ existing \in [Subscription -> Registry!State \cup {"absent"}]
      /\ configured \subseteq {Registry!Sms, Registry!Reg}
  BY DEF Registry!Init, Registry!Idle
<1>3. regCommand \in Registry!Command
  <2>1. [name |-> "updateAll", tenant |-> {}, isUUID |-> FALSE, onlyFailed |-> FALSE,
         onlyStale |-> FALSE] \in Registry!Command
    BY DEF Registry!Command, Registry!SelectsAmongAll
  <2>2. \E c \in Registry!Command : c.name = "updateAll"
    BY <2>1
  <2> QED
    BY <2>2 DEF Registry!Init, Registry!Idle
<1> QED
  BY <1>1, <1>2, <1>3 DEF Registry!Init, Registry!Idle, Registry!Begin, Registry!TypeOK,
                          Registry!Marks, RegTyped

LEMMA RegTypedNext == RegTyped /\ CallsPend /\ Registry!Next => RegTyped'
<1> SUFFICES ASSUME RegTyped, CallsPend, Registry!Next PROVE RegTyped'
  OBVIOUS
<1>1. CASE \E s \in Subscription : Registry!Call(s) \/ Registry!CallProceeds(s)
  <2>1. PICK s \in Subscription : Registry!Call(s) \/ Registry!CallProceeds(s)
    BY <1>1
  <2>2. RegRequests'
    BY <2>1, RegRequestsNext DEF RegTyped, Registry!Call, Registry!CallProceeds
  <2>3. Registry!R!TypeOK'
    BY <2>2, RegistryRequests, PTL DEF RegRequests, RegP!TypeInv
  <2> QED
    BY <2>1, <2>2, <2>3 DEF RegTyped, Registry!TypeOK, Registry!Call, Registry!CallProceeds,
       Registry!setting, Registry!Marks
<1>2. CASE /\ UNCHANGED <<regRequest, Registry!setting>>
           /\ regPhase' \in {"listing", "working", "ended"} /\ reading' \subseteq reading
           /\ regListed' \subseteq Subscription
           /\ mark' \in [Subscription -> Registry!Marks]
           /\ regJob' \in [Subscription -> {"none", "running", "succeeded", "failed"}]
           /\ regOutcome' \in {"none", "ok", "failed"}
  <2>1. RegRequests'
    BY <1>2, RegRequestsSame DEF RegTyped
  <2> QED
    BY <1>2, <2>1 DEF RegTyped, Registry!TypeOK, Registry!R!TypeOK, Registry!setting
<1>a. /\ mark \in [Subscription -> Registry!Marks]
      /\ regJob \in [Subscription -> {"none", "running", "succeeded", "failed"}]
      /\ regPhase \in {"listing", "working", "ended"} /\ regListed \subseteq Subscription
      /\ regOutcome \in {"none", "ok", "failed"}
  BY DEF RegTyped, Registry!TypeOK
<1>3. CASE Registry!List
  BY <1>2, <1>3, <1>a
     DEF Registry!List, Registry!Refuse, Registry!ListPage, Registry!ListFails,
         Registry!Select, Registry!Fail, Registry!Marks, Registry!Queried
<1>4. CASE Registry!Return
  BY <1>2, <1>4, <1>a DEF Registry!Return
<1>5. ASSUME NEW s \in Subscription, NEW hasLocation \in BOOLEAN,
             Registry!CallReturns(s, hasLocation)
      PROVE  RegTyped'
  <2>1. mark' \in [Subscription -> Registry!Marks]
    <3>1. ~RegP!Pending(s) /\ regRequest[s].state # "idle"
      BY <1>5, RegistryRequests DEF Registry!CallReturns, CallsPend
    <3>2. RegP!Rejected(s) \/ RegP!Resolved(s)
      BY <3>1, RegP!OverKnown DEF RegTyped, RegRequests
    <3>3. Registry!R!Rejected(s) \/ Registry!R!Resolved(s)
      BY <3>2, RegistryRequests
    <3> QED
      BY <1>5, <1>a, <3>3 DEF Registry!CallReturns, Registry!Marks
  <2> QED
    BY <1>2, <1>5, <1>a, <2>1 DEF Registry!CallReturns
<1>6. ASSUME NEW s \in Subscription, Registry!Poll(s) \/ Registry!PollFails(s)
      PROVE  RegTyped'
  <2>1. Registry!PollMark(s) \in {"success", "polling", "failure"}
    BY DEF Registry!PollMark
  <2>2. mark' \in [Subscription -> Registry!Marks]
    BY <1>6, <1>a, <2>1 DEF Registry!Poll, Registry!PollFails, Registry!Marks
  <2> QED
    BY <1>2, <1>6, <1>a, <2>2 DEF Registry!Poll, Registry!PollFails
<1>7. ASSUME NEW s \in Subscription, Registry!Finish(s) PROVE RegTyped'
  BY <1>2, <1>7, <1>a DEF Registry!Finish, Registry!JobEnds
<1> QED
  BY <1>1, <1>3, <1>4, <1>5, <1>6, <1>7 DEF Registry!Next, Registry!GoesOn, Registry!Submit

LEMMA CallsInit == Registry!Init \/ Registry!Idle => Calls
<1> SUFFICES ASSUME Registry!Init \/ Registry!Idle PROVE Calls
  OBVIOUS
<1>1. Registry!R!Init /\ mark = [s \in Subscription |-> "none"]
      /\ regJob = [s \in Subscription |-> "none"] /\ regOutcome = "none"
  BY DEF Registry!Init, Registry!Idle, Registry!Begin
<1>2. \A s \in Subscription : regRequest[s].state = "idle" /\ regRequest[s].acted = 0
  BY <1>1 DEF Registry!R!Init
<1> QED
  BY <1>1, <1>2 DEF Calls, CallsPend, MarksOfPhase, JobOfRequest, Successes, Registry!R!Pending

LEMMA CallsNext == RegTyped /\ Calls /\ Registry!Next => Calls'
<1> SUFFICES ASSUME RegTyped, Calls, Registry!Next PROVE Calls'
  OBVIOUS
<1>a. /\ mark \in [Subscription -> Registry!Marks]
      /\ regJob \in [Subscription -> {"none", "running", "succeeded", "failed"}]
      /\ RegP!IInv /\ RegP!TypeInv
      /\ \A s \in Subscription : regRequest[s].acted \in {0, 1}
  BY DEF RegTyped, Registry!TypeOK, RegRequests, RegP!IInv, RegP!NotYetActed
<1>b. /\ CallsPend /\ MarksOfPhase /\ JobOfRequest /\ Successes
      /\ regPhase \in {"listing", "working", "ended"}
  BY DEF Calls, RegTyped, Registry!TypeOK
<1>1. CASE Registry!List
  <2>1. /\ regPhase = "listing" /\ UNCHANGED <<regRequest, regJob, regCommand>>
        /\ \/ mark' = mark /\ regPhase' \in {"listing", "ended"}
           \/ regPhase' = "working" /\ \A s \in Subscription : mark'[s] \in {"none", "queued"}
        /\ regOutcome' \in {regOutcome, "failed"}
    BY <1>1 DEF Registry!List, Registry!Refuse, Registry!ListPage, Registry!ListFails,
       Registry!Select, Registry!Fail, Registry!setting
  <2>2. \A s \in Subscription : mark[s] = "none" /\ ~Registry!R!Pending(s)
    BY <1>b, <2>1 DEF MarksOfPhase, CallsPend
  <2>3. \A s \in Subscription : mark'[s] \in {"none", "queued"} /\ ~Registry!R!Pending(s)'
    BY <2>1, <2>2 DEF Registry!R!Pending
  <2>4. CallsPend'
    BY <2>3 DEF CallsPend
  <2>5. MarksOfPhase'
    BY <2>1, <2>2 DEF MarksOfPhase
  <2>6. JobOfRequest'
    BY <1>b, <2>1, <2>2, <2>3 DEF JobOfRequest, Registry!IsPoll
  <2>7. Successes'
    BY <1>b, <2>1, <2>3 DEF Successes, Registry!IsPoll
  <2> QED
    BY <2>4, <2>5, <2>6, <2>7 DEF Calls
<1>2. CASE Registry!Return
  BY <1>2, <1>b DEF Registry!Return, Registry!setting, Calls, CallsPend, MarksOfPhase,
     JobOfRequest, Successes, Registry!IsPoll, Registry!R!Pending
<1>3. ASSUME NEW s \in Subscription, Registry!Call(s) PROVE Calls'
  <2>1. /\ UNCHANGED <<regPhase, regJob, regCommand, regOutcome>>
        /\ regPhase = "working" /\ mark[s] = "queued"
        /\ mark' = [mark EXCEPT ![s] = "calling"]
    BY <1>3 DEF Registry!Call, Registry!setting
  <2>2. /\ regRequest[s].state = "idle" /\ regRequest'[s].state = "sent"
        /\ regRequest'[s].acted = regRequest[s].acted
        /\ \A d \in Subscription \ {s} : regRequest'[d] = regRequest[d]
    BY <1>3, <1>a, RegistryRequests, RegP!SendMoves DEF Registry!Call
  <2>3. CallsPend'
    BY <1>a, <1>b, <2>1, <2>2 DEF CallsPend, Registry!R!Pending
  <2>4. MarksOfPhase'
    BY <2>1 DEF MarksOfPhase
  <2>5. JobOfRequest'
    BY <1>a, <1>b, <2>1, <2>2 DEF JobOfRequest, Registry!IsPoll
  <2>6. Successes'
    BY <1>a, <1>b, <2>1, <2>2 DEF Successes, Registry!IsPoll
  <2> QED
    BY <2>3, <2>4, <2>5, <2>6 DEF Calls
<1>4. ASSUME NEW s \in Subscription, Registry!CallProceeds(s) PROVE Calls'
  <2>1. /\ UNCHANGED <<regPhase, mark, regCommand, regOutcome>>
        /\ regJob' = [regJob EXCEPT ![s] =
             IF regRequest'[s].acted = regRequest[s].acted THEN @
             ELSE IF Registry!IsPoll THEN "running" ELSE "succeeded"]
    BY <1>4 DEF Registry!CallProceeds, Registry!setting
  <2>2. /\ RegP!Pending(s) /\ regRequest[s].acted = 0
        /\ regRequest'[s].state # "idle"
        /\ \A d \in Subscription \ {s} : regRequest'[d] = regRequest[d]
    BY <1>4, <1>a, RegistryRequests, RegP!ProceedMoves DEF Registry!CallProceeds
  <2>3. regRequest'[s].acted \in {0, 1}
    <3>1. RegRequests'
      BY <1>4, RegRequestsNext DEF RegTyped, Registry!CallProceeds
    <3> QED
      BY <3>1 DEF RegRequests, RegP!IInv, RegP!NotYetActed
  <2>4. mark[s] = "calling" /\ regPhase = "working"
    BY <1>b, <2>2, RegistryRequests DEF CallsPend, MarksOfPhase
  <2>5. CallsPend'
    BY <1>b, <2>1, <2>2, <2>4 DEF CallsPend, Registry!R!Pending
  <2>6. MarksOfPhase'
    BY <1>b, <2>1 DEF MarksOfPhase
  <2>7. JobOfRequest'
    BY <1>a, <1>b, <2>1, <2>2, <2>3, <2>4 DEF JobOfRequest, Registry!IsPoll
  <2>8. Successes'
    BY <1>a, <1>b, <2>1, <2>2, <2>3, <2>4 DEF Successes, JobOfRequest, Registry!IsPoll
  <2> QED
    BY <2>5, <2>6, <2>7, <2>8 DEF Calls
<1>5. ASSUME NEW s \in Subscription, mark[s] \in {"calling", "polling"},
             UNCHANGED <<regPhase, regRequest, regJob, regCommand, regOutcome>>,
             mark[s] = "calling" => ~Registry!R!Pending(s),
             NEW m \in {"polling", "success", "failure"}, mark' = [mark EXCEPT ![s] = m],
             m = "polling" => regRequest[s].acted = 1 /\ Registry!IsPoll,
             m = "success" => regRequest[s].acted = 1 /\ regJob[s] = "succeeded"
      PROVE  Calls'
  <2>1. regPhase = "working"
    BY <1>5, <1>b DEF MarksOfPhase
  <2>2. CallsPend'
    BY <1>5, <1>a, <1>b DEF CallsPend, Registry!R!Pending
  <2>3. MarksOfPhase'
    BY <1>5, <2>1 DEF MarksOfPhase
  <2>4. JobOfRequest'
    BY <1>5, <1>a, <1>b DEF JobOfRequest, Registry!IsPoll
  <2>5. regOutcome # "ok"
    BY <1>b, <2>1 DEF Successes
  <2>6. Successes'
    BY <1>5, <1>a, <1>b, <2>5 DEF Successes, Registry!IsPoll
  <2> QED
    BY <2>2, <2>3, <2>4, <2>6 DEF Calls
<1>6. ASSUME NEW s \in Subscription, NEW hasLocation \in BOOLEAN,
             Registry!CallReturns(s, hasLocation)
      PROVE  Calls'
  <2> DEFINE m == CASE Registry!R!Rejected(s) -> "failure"
                    [] Registry!R!Resolved(s) /\ ~Registry!IsPoll -> "success"
                    [] Registry!R!Resolved(s) /\ Registry!IsPoll ->
                         IF regRequest[s].state = "accepted" /\ hasLocation
                         THEN "polling" ELSE "failure"
  <2>1. /\ mark[s] = "calling" /\ ~Registry!R!Pending(s) /\ mark' = [mark EXCEPT ![s] = m]
        /\ UNCHANGED <<regPhase, regRequest, regJob, regCommand, regOutcome>>
    BY <1>6 DEF Registry!CallReturns, Registry!setting
  <2>2. /\ Registry!R!Rejected(s) \/ Registry!R!Resolved(s)
        /\ Registry!R!Resolved(s) => regRequest[s].acted = 1 /\ ~Registry!R!Rejected(s)
    <3>1. ~RegP!Pending(s) /\ regRequest[s].state # "idle"
      BY <1>b, <2>1, RegistryRequests DEF CallsPend
    <3> QED
      BY <1>a, <3>1, RegP!OverKnown, RegistryRequests
  <2>3. /\ m \in {"polling", "success", "failure"}
        /\ m = "polling" => Registry!R!Resolved(s) /\ Registry!IsPoll
        /\ m = "success" => Registry!R!Resolved(s) /\ ~Registry!IsPoll
    BY <2>2
  <2> HIDE DEF m
  <2>4. m = "success" => regRequest[s].acted = 1 /\ regJob[s] = "succeeded"
    BY <1>b, <2>2, <2>3 DEF Successes
  <2> QED
    BY <1>5, <2>1, <2>2, <2>3, <2>4
<1>7. ASSUME NEW s \in Subscription, Registry!Poll(s) \/ Registry!PollFails(s) PROVE Calls'
  <2>1. /\ mark[s] = "polling"
        /\ \/ mark' = [mark EXCEPT ![s] = Registry!PollMark(s)]
           \/ mark' = [mark EXCEPT ![s] = "failure"]
        /\ UNCHANGED <<regPhase, regRequest, regJob, regCommand, regOutcome>>
    BY <1>7 DEF Registry!Poll, Registry!PollFails, Registry!setting
  <2>2. regRequest[s].acted = 1 /\ Registry!IsPoll
    BY <1>b, <2>1 DEF Successes
  <2>3. Registry!PollMark(s) = "success" => regJob[s] = "succeeded"
    <3>1. regJob[s] \in {"running", "succeeded", "failed"}
      BY <1>a, <1>b, <2>2 DEF JobOfRequest
    <3> QED
      BY <3>1 DEF Registry!PollMark, Registry!PollState
  <2>4. Registry!PollMark(s) \in {"success", "polling", "failure"}
    BY DEF Registry!PollMark
  <2> QED
    BY <1>5, <2>1, <2>2, <2>3, <2>4
<1>8. ASSUME NEW s \in Subscription, Registry!Finish(s) PROVE Calls'
  <2>1. PICK result \in {"succeeded", "failed"} : Registry!JobEnds(s, result)
    BY <1>8 DEF Registry!Finish
  <2>2. /\ regJob[s] = "running" /\ regJob' = [regJob EXCEPT ![s] = result]
        /\ UNCHANGED <<regPhase, mark, regRequest, regCommand, regOutcome>>
    BY <2>1 DEF Registry!JobEnds, Registry!setting
  <2>3. CallsPend' /\ MarksOfPhase'
    BY <1>b, <2>2 DEF CallsPend, MarksOfPhase, Registry!R!Pending
  <2>4. JobOfRequest' /\ Successes'
    BY <1>a, <1>b, <2>2 DEF JobOfRequest, Successes, Registry!IsPoll
  <2> QED
    BY <2>3, <2>4 DEF Calls
<1> QED
  BY <1>1, <1>2, <1>3, <1>4, <1>6, <1>7, <1>8
     DEF Registry!Next, Registry!GoesOn, Registry!Submit

\* What a source has of the tenant is listed when its last page has been read.
Listed ==
    \A s \in Subscription :
        /\ existing[s] # "absent"
        /\ SourceOf[s] \in configured \ reading
        /\ regCommand.isUUID => TenantOf[s] \in regCommand.tenant
        => s \in regListed

\* What is marked, or done, was selected from all that is listed.
Selected ==
    regPhase = "working" \/ regOutcome = "ok" \/ (\E s \in Subscription : mark[s] # "none") =>
        /\ reading = {} /\ Registry!Admissible
        /\ Registry!Callable(Registry!Filtered(regListed))
        /\ \A s \in Subscription : mark[s] # "none" <=> s \in Registry!Filtered(regListed)

RegistryInv == RegTyped /\ Calls /\ Listed /\ Selected

LEMMA ListingInit == Registry!Init \/ Registry!Idle => Listed /\ Selected
  BY DEF Registry!Init, Registry!Idle, Registry!Begin, Listed, Selected

LEMMA SelectedSame ==
    ASSUME RegTyped, Calls, Selected,
           UNCHANGED <<Registry!setting, reading, regListed>>,
           regPhase = "working", regPhase' \in {"working", "ended"},
           \A s \in Subscription : mark[s] = "none" <=> mark'[s] = "none"
    PROVE  Selected'
  BY DEF Selected, Registry!setting, Registry!Admissible, Registry!Callable,
     Registry!Filtered, Registry!Unique

LEMMA ListingNext == RegTyped /\ Calls /\ Listed /\ Selected /\ Registry!Next
                         => Listed' /\ Selected'
<1> SUFFICES ASSUME RegTyped, Calls, Listed, Selected, Registry!Next
             PROVE  Listed' /\ Selected'
  OBVIOUS
<1>a. /\ mark \in [Subscription -> Registry!Marks] /\ regListed \subseteq Subscription
      /\ CallsPend /\ MarksOfPhase /\ JobOfRequest /\ Successes
  BY DEF RegTyped, Registry!TypeOK, Calls
<1>1. CASE UNCHANGED <<Registry!setting, reading, regListed>> /\ regPhase = "working"
           /\ regPhase' \in {"working", "ended"}
           /\ \A s \in Subscription : mark[s] = "none" <=> mark'[s] = "none"
  <2>1. Selected'
    BY <1>1, SelectedSame
  <2>2. Listed'
    BY <1>1 DEF Listed, Registry!setting
  <2> QED
    BY <2>1, <2>2
<1>2. CASE Registry!Refuse \/ Registry!ListFails
  <2>1. /\ regPhase = "listing" /\ regPhase' = "ended" /\ regOutcome' = "failed"
        /\ UNCHANGED <<Registry!setting, reading, regListed, mark>>
    BY <1>2 DEF Registry!Refuse, Registry!ListFails, Registry!Fail
  <2>2. \A s \in Subscription : mark'[s] = "none"
    BY <1>a, <2>1 DEF MarksOfPhase
  <2> QED
    BY <2>1, <2>2 DEF Listed, Selected, Registry!setting
<1>3. ASSUME NEW source \in {Registry!Sms, Registry!Reg}, Registry!ListPage(source)
      PROVE  Listed' /\ Selected'
  <2>1. /\ regPhase = "listing" /\ UNCHANGED <<Registry!setting, regPhase, mark, regOutcome>>
        /\ regListed \subseteq regListed' /\ reading' \subseteq reading
        /\ reading \subseteq reading' \cup {source}
        /\ source \notin reading' => Registry!Queried(source) \subseteq regListed'
    BY <1>3 DEF Registry!ListPage
  <2>2. Listed'
    BY <2>1 DEF Listed, Registry!Queried, Registry!setting
  <2>3. \A s \in Subscription : mark'[s] = "none"
    BY <1>a, <2>1 DEF MarksOfPhase
  <2>4. regOutcome' # "ok" /\ regPhase' # "working"
    BY <1>a, <2>1 DEF Successes
  <2> QED
    BY <2>2, <2>3, <2>4 DEF Selected
<1>4. CASE Registry!Select
  <2>1. /\ regPhase = "listing" /\ reading = {} /\ Registry!Admissible
        /\ UNCHANGED <<Registry!setting, reading, regListed>>
    BY <1>4 DEF Registry!Select
  <2>2. Listed'
    BY <2>1 DEF Listed, Registry!setting
  <2>3. CASE Registry!Callable(Registry!Filtered(regListed))
    <3>1. mark' = [s \in Subscription |->
                      IF s \in Registry!Filtered(regListed) THEN "queued" ELSE "none"]
      BY <1>4, <2>3 DEF Registry!Select
    <3>2. Registry!Filtered(regListed)' = Registry!Filtered(regListed)
      BY <2>1 DEF Registry!Filtered, Registry!setting
    <3>3. Registry!Callable(Registry!Filtered(regListed))'
      BY <2>1, <2>3, <3>2 DEF Registry!Callable, Registry!setting
    <3>4. Registry!Admissible'
      BY <2>1 DEF Registry!Admissible, Registry!setting
    <3>5. \A s \in Subscription :
            mark'[s] # "none" <=> s \in Registry!Filtered(regListed)'
      BY <3>1, <3>2
    <3>6. reading' = {}
      BY <2>1
    <3> QED
      BY <2>2, <3>3, <3>4, <3>5, <3>6, Zenon DEF Selected
  <2>4. CASE ~Registry!Callable(Registry!Filtered(regListed))
    <3>1. /\ regPhase' = "ended" /\ regOutcome' = "failed" /\ mark' = mark
      BY <1>4, <2>4 DEF Registry!Select, Registry!Fail
    <3>2. \A s \in Subscription : mark'[s] = "none"
      BY <1>a, <2>1, <3>1 DEF MarksOfPhase
    <3> QED
      BY <2>2, <3>1, <3>2 DEF Selected
  <2> QED
    BY <2>3, <2>4
<1>5. CASE Registry!Return
  BY <1>1, <1>5 DEF Registry!Return
<1>6. ASSUME NEW s \in Subscription, Registry!Call(s) PROVE Listed' /\ Selected'
  BY <1>1, <1>6, <1>a DEF Registry!Call
<1>7. ASSUME NEW s \in Subscription, Registry!CallProceeds(s) PROVE Listed' /\ Selected'
  <2>1. RegP!Pending(s)
    BY <1>7, <1>a, RegistryRequests, RegP!ProceedMoves
       DEF RegTyped, RegRequests, Registry!CallProceeds
  <2>2. regPhase = "working"
    <3>1. mark[s] = "calling"
      BY <1>a, <2>1, RegistryRequests DEF CallsPend
    <3> QED
      BY <1>a, <3>1 DEF MarksOfPhase, RegTyped, Registry!TypeOK
  <2> QED
    BY <1>1, <1>7, <2>2 DEF Registry!CallProceeds
<1>8. ASSUME NEW s \in Subscription, NEW m, m # "none", mark[s] \in {"calling", "polling"},
             mark' = [mark EXCEPT ![s] = m],
             UNCHANGED <<Registry!setting, reading, regListed, regPhase>>
      PROVE  Listed' /\ Selected'
  <2>1. regPhase = "working"
    BY <1>8, <1>a DEF MarksOfPhase, RegTyped, Registry!TypeOK
  <2> QED
    BY <1>1, <1>8, <1>a, <2>1
<1>9. ASSUME NEW s \in Subscription, NEW hasLocation \in BOOLEAN,
             Registry!CallReturns(s, hasLocation)
      PROVE  Listed' /\ Selected'
  <2> DEFINE m == CASE Registry!R!Rejected(s) -> "failure"
                    [] Registry!R!Resolved(s) /\ ~Registry!IsPoll -> "success"
                    [] Registry!R!Resolved(s) /\ Registry!IsPoll ->
                         IF regRequest[s].state = "accepted" /\ hasLocation
                         THEN "polling" ELSE "failure"
  <2>1. Registry!R!Rejected(s) \/ Registry!R!Resolved(s)
    <3>1. ~RegP!Pending(s) /\ regRequest[s].state # "idle"
      BY <1>9, <1>a, RegistryRequests DEF CallsPend, Registry!CallReturns
    <3> QED
      BY <3>1, RegP!OverKnown, RegistryRequests DEF RegTyped, RegRequests
  <2>2. m # "none"
    BY <2>1
  <2>3. mark[s] = "calling" /\ mark' = [mark EXCEPT ![s] = m]
        /\ UNCHANGED <<Registry!setting, reading, regListed, regPhase>>
    BY <1>9 DEF Registry!CallReturns
  <2> HIDE DEF m
  <2> QED
    BY <1>8, <2>2, <2>3
<1>10. ASSUME NEW s \in Subscription, Registry!Poll(s) \/ Registry!PollFails(s)
       PROVE  Listed' /\ Selected'
  <2>1. Registry!PollMark(s) # "none"
    BY DEF Registry!PollMark
  <2>2. /\ mark[s] = "polling"
        /\ \/ mark' = [mark EXCEPT ![s] = Registry!PollMark(s)]
           \/ mark' = [mark EXCEPT ![s] = "failure"]
        /\ UNCHANGED <<Registry!setting, reading, regListed, regPhase>>
    BY <1>10 DEF Registry!Poll, Registry!PollFails
  <2> QED
    BY <1>8, <2>1, <2>2
<1>11. ASSUME NEW s \in Subscription, Registry!Finish(s) PROVE Listed' /\ Selected'
  BY <1>11 DEF Registry!Finish, Registry!JobEnds, Listed, Selected, Registry!setting,
     Registry!Admissible, Registry!Callable, Registry!Filtered, Registry!Unique
<1> QED
  BY <1>2, <1>3, <1>4, <1>5, <1>6, <1>7, <1>9, <1>10, <1>11
     DEF Registry!Next, Registry!GoesOn, Registry!Submit, Registry!List

LEMMA RegistryInvInit == Registry!Init \/ Registry!Idle => RegistryInv
  BY RegTypedInit, CallsInit, ListingInit DEF RegistryInv

LEMMA RegistryInvNext == RegistryInv /\ Registry!Next => RegistryInv'
  BY RegTypedNext, CallsNext, ListingNext DEF RegistryInv, Calls

\* The properties of the commands.
LEMMA RegistrySafe ==
    RegistryInv => /\ Registry!TypeOK /\ Registry!R!ActedAtMostOnce
                   /\ Registry!OkMeansDone /\ Registry!NothingAbandoned
                   /\ Registry!OnlySubscription
<1> SUFFICES ASSUME RegistryInv
             PROVE  /\ Registry!TypeOK /\ Registry!R!ActedAtMostOnce
                    /\ Registry!OkMeansDone /\ Registry!NothingAbandoned
                    /\ Registry!OnlySubscription
  OBVIOUS
<1>a. /\ RegTyped /\ CallsPend /\ MarksOfPhase /\ JobOfRequest /\ Successes
      /\ Listed /\ Selected /\ Registry!TypeOK
      /\ mark \in [Subscription -> Registry!Marks] /\ regListed \subseteq Subscription
  BY DEF RegistryInv, Calls, RegTyped, Registry!TypeOK
<1>b. /\ regCommand.isUUID => regCommand.tenant # {}
      /\ regCommand.name \in Registry!TenantCommands =>
           /\ \E t : regCommand.tenant = {t}
           /\ ~regCommand.onlyFailed /\ ~regCommand.onlyStale
  BY <1>a DEF Registry!TypeOK, Registry!Command, Registry!NamesTenant,
     Registry!SelectsAmongAll, Registry!TenantCommands
<1>1. Registry!R!ActedAtMostOnce
  <2>1. \A s \in Subscription : regRequest[s].acted \in {0, 1}
    BY <1>a DEF RegTyped, RegRequests, RegP!IInv, RegP!NotYetActed
  <2> QED
    BY <2>1 DEF Registry!R!ActedAtMostOnce
<1>2. Registry!NothingAbandoned
  BY <1>a DEF Registry!NothingAbandoned, CallsPend, MarksOfPhase
<1>c. ASSUME NEW s \in Subscription, existing[s] # "absent", SourceOf[s] \in configured,
             reading = {}, regCommand.isUUID => TenantOf[s] \in regCommand.tenant
      PROVE  s \in regListed
  BY <1>a, <1>c DEF Listed
<1>3. Registry!OkMeansDone
  <2> SUFFICES ASSUME regOutcome = "ok", NEW s \in Subscription,
                      s \in Registry!Filtered({x \in Subscription :
                            existing[x] # "absent" /\ SourceOf[x] \in configured})
               PROVE  regRequest[s].acted = 1 /\ regJob[s] = "succeeded"
    BY DEF Registry!OkMeansDone, Registry!Filtered
  <2>1. /\ reading = {}
        /\ \A x \in Subscription : mark[x] # "none" <=> x \in Registry!Filtered(regListed)
    BY <1>a DEF Selected
  <2>2. s \in regListed
    BY <1>b, <1>c, <2>1 DEF Registry!Filtered
  <2>3. s \in Registry!Filtered(regListed)
    BY <2>2 DEF Registry!Filtered
  <2>4. mark[s] = "success"
    BY <1>a, <2>1, <2>3 DEF MarksOfPhase, Successes
  <2> QED
    BY <1>a, <2>4 DEF Successes
<1>4. Registry!OnlySubscription
  <2> SUFFICES ASSUME regCommand.name \in Registry!TenantCommands,
                      NEW s \in Subscription, regRequest[s].acted > 0
               PROVE  /\ TenantOf[s] \in regCommand.tenant
                      /\ \A other \in Subscription :
                           /\ existing[other] # "absent" /\ SourceOf[other] \in configured
                           /\ TenantOf[other] = TenantOf[s]
                           => other = s
    BY DEF Registry!OnlySubscription
  <2> DEFINE F == Registry!Filtered(regListed)
  <2>1. mark[s] # "none"
    BY <1>a DEF JobOfRequest
  <2>2. /\ reading = {} /\ Registry!Admissible /\ Registry!Callable(F) /\ s \in F
    BY <1>a, <2>1 DEF Selected
  <2>3. Registry!Cardinality(F) = 1
    BY <2>2 DEF Registry!Callable, Registry!Unique
  <2>4. regCommand.isUUID
    BY <2>2 DEF Registry!Admissible
  <2>5. TenantOf[s] \in regCommand.tenant
    BY <1>b, <2>2, <2>4 DEF Registry!Filtered
  <2>6. ASSUME NEW other \in Subscription, existing[other] # "absent",
               SourceOf[other] \in configured, TenantOf[other] = TenantOf[s]
        PROVE  other \in F
    BY <1>b, <1>c, <2>2, <2>4, <2>5, <2>6 DEF Registry!Filtered
  <2>7. IsFiniteSet(F)
    BY RegistryAssumption, <1>a, FS_Subset DEF Registry!Filtered
  <2>8. Registry!Cardinality(F) = Cardinality(F)
    BY Zenon DEF Cardinality, Registry!Cardinality
  <2>9. \E x : F = {x}
    <3> HIDE DEF F
    <3> QED
      BY <2>3, <2>7, <2>8, FS_Singleton
  <2> QED
    BY <2>2, <2>5, <2>6, <2>9
<1> QED
  BY <1>1, <1>2, <1>3, <1>4, <1>a

-----------------------------------------------------------------------------
(* The commands of the service-manager                                     *)

\* What is listed, and then what is queued of it, is what the command is about.
SingledOut ==
    /\ \A i \in svmListed \cap Instance :
         TenantOfInstance[i] \in filter.tenants /\ PlanOf[i] \in filter.plans
    /\ \A x \in Svm!Item : deletion[x] # "none" =>
         x \in Svm!FilteredBindings \/ x \in svmListed \cap Instance

\* The order of the phases: first the bindings, then the instances.
DeletionsOfPhase ==
    /\ svmPhase = "listing" => \A x \in Svm!Item : deletion[x] = "none"
    /\ svmPhase = "ended" => Svm!AllOver
    /\ svmPhase = "bindings" => \A i \in Instance : deletion[i] = "none"
    /\ svmPhase \in {"bindings", "instances"} \/ svmOutcome = "ok" =>
         \A b \in Svm!FilteredBindings : deletion[b] # "none"
    /\ svmPhase = "instances" \/ (\E i \in Instance : deletion[i] # "none") =>
         \A b \in Svm!FilteredBindings : deletion[b] = "done"
    /\ svmPhase = "instances" \/ (svmOutcome = "ok" /\ filter.doDeleteInstances) =>
         \A i \in svmListed \cap Instance : deletion[i] # "none"
    /\ svmOutcome = "ok" => svmPhase = "ended" /\ ~Svm!AnyFailed

\* What the tool takes for deleted is gone, and does not come back.
Deletions ==
    \A x \in Svm!Item :
        /\ deletion[x] \in {"none", "queued"} => operation[x] = "none"
        /\ deletion[x] = "done" => operation[x] = "succeeded"
        /\ operation[x] = "succeeded" => x \notin alive

ServiceManagerInv == Svm!TypeOK /\ SingledOut /\ DeletionsOfPhase /\ Deletions

LEMMA SvmInit == Svm!Init \/ Svm!Idle => ServiceManagerInv
<1> SUFFICES ASSUME Svm!Init \/ Svm!Idle PROVE ServiceManagerInv
  OBVIOUS
<1>1. /\ operation = [x \in Svm!Item |-> "none"] /\ deletion = [x \in Svm!Item |-> "none"]
      /\ svmPhase \in {"listing", "ended"} /\ unlisted = {"instances", "bindings"}
      /\ svmListed = {} /\ created = 0 /\ svmOutcome = "none"
  BY DEF Svm!Init, Svm!Idle, Svm!Begin
<1>2. alive \subseteq Svm!Item
  BY DEF Svm!Init, Svm!Idle
<1>3. filter \in [tenants : SUBSET Svm!Tenants, plans : SUBSET Svm!Plans,
                  doDeleteInstances : BOOLEAN]
  <2>1. CASE Svm!Init
    <3>1. /\ filter \in [tenants : {{t} : t \in Svm!Tenants} \cup {Svm!Tenants},
                         plans : {{p} : p \in Svm!Plans} \cup {Svm!Plans},
                         doDeleteInstances : BOOLEAN]
      BY <2>1 DEF Svm!Init
    <3>2. /\ {{t} : t \in Svm!Tenants} \cup {Svm!Tenants} \subseteq SUBSET Svm!Tenants
          /\ {{p} : p \in Svm!Plans} \cup {Svm!Plans} \subseteq SUBSET Svm!Plans
      OBVIOUS
    <3> QED
      BY <3>1, <3>2
  <2>2. CASE Svm!Idle
    <3>1. filter = [tenants |-> {}, plans |-> {}, doDeleteInstances |-> FALSE]
      BY <2>2 DEF Svm!Idle
    <3>2. {} \in SUBSET Svm!Tenants /\ {} \in SUBSET Svm!Plans
      OBVIOUS
    <3> QED
      BY <3>1, <3>2
  <2> QED
    BY <2>1, <2>2
<1>4. Svm!TypeOK
  BY <1>1, <1>2, <1>3, SvmAssumption DEF Svm!TypeOK, Svm!Over
<1>5. SingledOut
  BY <1>1 DEF SingledOut
<1>6. DeletionsOfPhase
  BY <1>1 DEF DeletionsOfPhase, Svm!AllOver, Svm!FilteredBindings, Svm!Item
<1>7. Deletions
  BY <1>1 DEF Deletions
<1> QED
  BY <1>4, <1>5, <1>6, <1>7 DEF ServiceManagerInv

LEMMA SvmNext == ServiceManagerInv /\ Svm!Next => ServiceManagerInv'
<1> SUFFICES ASSUME ServiceManagerInv, Svm!Next PROVE ServiceManagerInv'
  OBVIOUS
<1>a. /\ Svm!TypeOK /\ SingledOut /\ DeletionsOfPhase /\ Deletions
      /\ Svm!Item = Instance \cup Binding
      /\ svmListed \subseteq Svm!Item /\ alive \subseteq Svm!Item
      /\ deletion \in [Svm!Item -> {"none", "queued", "polling", "done", "failed"}]
      /\ operation \in [Svm!Item -> {"none", "running", "succeeded", "failed"}]
      /\ svmPhase \in {"listing", "bindings", "instances", "ended"}
      /\ Svm!FilteredBindings \subseteq Svm!Item
      /\ \A b \in Svm!FilteredBindings : b \in Binding /\ b \notin Instance
  BY SvmAssumption DEF ServiceManagerInv, Svm!TypeOK, Svm!Item, Svm!Over, Svm!FilteredBindings
<1>1. ASSUME NEW kind, NEW items, Svm!List(kind, items), items \subseteq Svm!Item,
             \A i \in items \cap Instance :
                TenantOfInstance[i] \in filter.tenants /\ PlanOf[i] \in filter.plans
      PROVE  ServiceManagerInv'
  <2>1. /\ svmPhase = "listing" /\ svmListed' = svmListed \cup items
        /\ unlisted' \subseteq unlisted
        /\ UNCHANGED <<alive, operation, filter, svmPhase, deletion, created, svmOutcome>>
    BY <1>1 DEF Svm!List
  <2>2. \A x \in Svm!Item : deletion'[x] = "none"
    BY <1>a, <2>1 DEF DeletionsOfPhase
  <2>3. Svm!TypeOK'
    BY <1>1, <1>a, <2>1 DEF Svm!TypeOK
  <2>4. SingledOut'
    BY <1>1, <1>a, <2>1, <2>2 DEF SingledOut
  <2>5. DeletionsOfPhase'
    <3>1. svmOutcome # "ok"
      BY <1>a, <2>1 DEF DeletionsOfPhase
    <3> QED
      BY <1>a, <2>1, <2>2, <3>1 DEF DeletionsOfPhase
  <2>6. Deletions'
    BY <1>a, <2>1 DEF Deletions
  <2> QED
    BY <2>3, <2>4, <2>5, <2>6 DEF ServiceManagerInv
<1>2. CASE Svm!StartBindings
  <2>1. /\ svmPhase = "listing" /\ svmPhase' = "bindings"
        /\ deletion' = [x \in Svm!Item |->
                           IF x \in Svm!FilteredBindings THEN "queued" ELSE deletion[x]]
        /\ UNCHANGED <<alive, operation, filter, unlisted, svmListed, created, svmOutcome>>
    BY <1>2 DEF Svm!StartBindings, Svm!Queue
  <2>2. \A x \in Svm!Item :
          /\ deletion[x] = "none" /\ operation[x] = "none"
          /\ deletion'[x] = IF x \in Svm!FilteredBindings THEN "queued" ELSE "none"
    BY <1>a, <2>1 DEF DeletionsOfPhase, Deletions
  <2>3. Svm!FilteredBindings' = Svm!FilteredBindings
    BY <2>1 DEF Svm!FilteredBindings
  <2>4. Svm!TypeOK'
    BY <1>a, <2>1, <2>2 DEF Svm!TypeOK, Svm!Over
  <2>5. SingledOut'
    BY <1>a, <2>1, <2>2, <2>3 DEF SingledOut
  <2>6. DeletionsOfPhase'
    <3>1. svmOutcome # "ok"
      BY <1>a, <2>1 DEF DeletionsOfPhase
    <3> QED
      BY <1>a, <2>1, <2>2, <2>3, <3>1 DEF DeletionsOfPhase
  <2>7. Deletions'
    BY <1>a, <2>1, <2>2 DEF Deletions
  <2> QED
    BY <2>4, <2>5, <2>6, <2>7 DEF ServiceManagerInv
<1>3. CASE Svm!StartInstances
  <2>1. /\ svmPhase = "bindings" /\ svmPhase' = "instances" /\ Svm!AllOver /\ ~Svm!AnyFailed
        /\ deletion' = [x \in Svm!Item |->
                           IF x \in svmListed \cap Instance THEN "queued" ELSE deletion[x]]
        /\ UNCHANGED <<alive, operation, filter, unlisted, svmListed, created, svmOutcome>>
    BY <1>3 DEF Svm!StartInstances, Svm!Queue
  <2>2. Svm!FilteredBindings' = Svm!FilteredBindings
    BY <2>1 DEF Svm!FilteredBindings
  <2>3. /\ \A b \in Svm!FilteredBindings : deletion[b] = "done" /\ deletion'[b] = "done"
        /\ svmOutcome # "ok"
    BY <1>a, <2>1 DEF DeletionsOfPhase, Svm!AllOver, Svm!AnyFailed, Svm!Over
  <2>4. ASSUME NEW i \in Instance PROVE deletion[i] = "none" /\ operation[i] = "none"
    BY <1>a, <2>1 DEF DeletionsOfPhase, Deletions
  <2>5. Svm!TypeOK'
    BY <1>a, <2>1 DEF Svm!TypeOK, Svm!Over
  <2>6. SingledOut'
    BY <1>a, <2>1, <2>2 DEF SingledOut
  <2>7. DeletionsOfPhase'
    BY <1>a, <2>1, <2>2, <2>3 DEF DeletionsOfPhase
  <2>8. Deletions'
    BY <1>a, <2>1, <2>4 DEF Deletions
  <2> QED
    BY <2>5, <2>6, <2>7, <2>8 DEF ServiceManagerInv
<1>4. CASE Svm!Return \/ Svm!ListFails
  <2>1. /\ svmPhase # "ended" /\ svmPhase' = "ended"
        /\ UNCHANGED <<alive, operation, filter, unlisted, svmListed, deletion, created>>
    BY <1>4 DEF Svm!Return, Svm!ListFails
  <2>2. Svm!AllOver'
    BY <1>4, <1>a, <2>1 DEF Svm!Return, Svm!ListFails, DeletionsOfPhase, Svm!AllOver, Svm!Over
  <2>3. /\ svmOutcome' \in {"failed", "ok"}
        /\ svmOutcome' = "ok" =>
             /\ svmPhase \in {"bindings", "instances"} /\ ~Svm!AnyFailed
             /\ filter.doDeleteInstances => svmPhase = "instances"
    BY <1>4 DEF Svm!Return, Svm!ListFails
  <2>4. Svm!FilteredBindings' = Svm!FilteredBindings /\ Svm!AnyFailed' = Svm!AnyFailed
    BY <2>1 DEF Svm!FilteredBindings, Svm!AnyFailed
  <2>5. Svm!TypeOK'
    BY <1>a, <2>1, <2>3 DEF Svm!TypeOK
  <2>6. SingledOut'
    BY <1>a, <2>1, <2>4 DEF SingledOut
  <2>7. DeletionsOfPhase'
    BY <1>a, <2>1, <2>2, <2>3, <2>4 DEF DeletionsOfPhase
  <2>8. Deletions'
    BY <1>a, <2>1 DEF Deletions
  <2> QED
    BY <2>5, <2>6, <2>7, <2>8 DEF ServiceManagerInv
\* The deletion of one item goes on, or its operation does.
<1>5. ASSUME NEW x \in Svm!Item, deletion[x] \in {"queued", "polling"},
             NEW d \in {"polling", "done", "failed"}, deletion' = [deletion EXCEPT ![x] = d],
             NEW o \in {"none", "running", "succeeded", "failed"},
             operation' = [operation EXCEPT ![x] = o],
             o = operation[x] \/ (operation[x] = "none" /\ o = "running"),
             d = "done" => operation[x] = "succeeded",
             UNCHANGED <<alive, filter, svmPhase, unlisted, svmListed, created, svmOutcome>>
      PROVE  ServiceManagerInv'
  <2>1. Svm!FilteredBindings' = Svm!FilteredBindings
    BY <1>5 DEF Svm!FilteredBindings
  <2>2. svmPhase \in {"bindings", "instances"} /\ svmOutcome # "ok"
    BY <1>5, <1>a DEF DeletionsOfPhase, Svm!AllOver, Svm!Over
  <2>3. Svm!TypeOK'
    BY <1>5, <1>a DEF Svm!TypeOK, Svm!Over
  <2>4. SingledOut'
    BY <1>5, <1>a, <2>1 DEF SingledOut
  <2>5. DeletionsOfPhase'
    <3>1. x \in Svm!FilteredBindings =>
            svmPhase = "bindings" /\ \A i \in Instance : deletion'[i] = "none"
      BY <1>5, <1>a, <2>2 DEF DeletionsOfPhase
    <3>2. \A i \in Instance : deletion'[i] # "none" <=> deletion[i] # "none"
      BY <1>5, <1>a
    <3>3. \A b \in Svm!FilteredBindings : deletion[b] # "none" => deletion'[b] # "none"
      BY <1>5, <1>a
    <3>4. svmPhase = "instances" \/ (\E i \in Instance : deletion'[i] # "none") =>
             \A b \in Svm!FilteredBindings : deletion'[b] = "done"
      BY <1>5, <1>a, <3>1, <3>2 DEF DeletionsOfPhase
    <3>5. svmPhase = "instances" => \A i \in svmListed \cap Instance : deletion'[i] # "none"
      BY <1>a, <3>2 DEF DeletionsOfPhase
    <3> QED
      BY <1>5, <1>a, <2>1, <2>2, <3>3, <3>4, <3>5 DEF DeletionsOfPhase
  <2>6. Deletions'
    BY <1>5, <1>a DEF Deletions
  <2> QED
    BY <2>3, <2>4, <2>5, <2>6 DEF ServiceManagerInv
<1>6. ASSUME NEW x \in Svm!Item, NEW accepted \in BOOLEAN, NEW answered \in BOOLEAN,
             Svm!Delete(x, accepted, answered)
      PROVE  ServiceManagerInv'
  <2> DEFINE d == IF accepted /\ answered THEN "polling" ELSE "failed"
             o == IF accepted THEN "running" ELSE operation[x]
  <2>1. /\ deletion[x] = "queued" /\ deletion' = [deletion EXCEPT ![x] = d]
        /\ operation' = [operation EXCEPT ![x] = o]
        /\ UNCHANGED <<alive, filter, svmPhase, unlisted, svmListed, created, svmOutcome>>
    BY <1>6 DEF Svm!Delete
  <2>2. operation[x] = "none"
    BY <1>a, <2>1 DEF Deletions
  <2>3. /\ d \in {"polling", "done", "failed"} /\ d # "done"
        /\ o \in {"none", "running", "succeeded", "failed"}
        /\ o = operation[x] \/ (operation[x] = "none" /\ o = "running")
    BY <2>2
  <2> HIDE DEF d, o
  <2> QED
    BY <1>5, <2>1, <2>3
<1>7. ASSUME NEW x \in Svm!Item, Svm!PollEnds(x) \/ Svm!PollFails(x)
      PROVE  ServiceManagerInv'
  <2> DEFINE d == deletion'[x]
             o == operation[x]
  <2>1. /\ deletion[x] = "polling" /\ operation' = operation
        /\ \/ deletion' = [deletion EXCEPT ![x] = "failed"]
           \/ /\ operation[x] = "succeeded"
              /\ deletion' = [deletion EXCEPT ![x] = "done"]
        /\ UNCHANGED <<alive, filter, svmPhase, unlisted, svmListed, created, svmOutcome>>
    BY <1>7 DEF Svm!PollEnds, Svm!PollFails
  <2>2. /\ d \in {"polling", "done", "failed"} /\ deletion' = [deletion EXCEPT ![x] = d]
        /\ d = "done" => operation[x] = "succeeded"
        /\ o \in {"none", "running", "succeeded", "failed"}
        /\ operation' = [operation EXCEPT ![x] = o]
    BY <1>a, <2>1
  <2>3. o = operation[x]
    OBVIOUS
  <2> HIDE DEF d, o
  <2> QED
    BY <1>5, <2>1, <2>2, <2>3
<1>8. ASSUME NEW x \in Svm!Item, NEW result \in {"succeeded", "failed"},
             Svm!OperationEnds(x, result)
      PROVE  ServiceManagerInv'
  <2>1. /\ operation[x] = "running" /\ operation' = [operation EXCEPT ![x] = result]
        /\ alive' = IF result = "succeeded" THEN alive \ {x} ELSE alive
        /\ UNCHANGED <<filter, svmPhase, unlisted, svmListed, deletion, created, svmOutcome>>
    BY <1>8 DEF Svm!OperationEnds
  <2>2. Svm!TypeOK'
    BY <1>a, <2>1 DEF Svm!TypeOK
  <2>3. SingledOut'
    BY <1>a, <2>1 DEF SingledOut, Svm!FilteredBindings
  <2>4. DeletionsOfPhase'
    BY <1>a, <2>1 DEF DeletionsOfPhase, Svm!FilteredBindings, Svm!AllOver, Svm!AnyFailed
  <2>5. Deletions'
    BY <1>a, <2>1 DEF Deletions
  <2> QED
    BY <2>2, <2>3, <2>4, <2>5 DEF ServiceManagerInv
<1>9. ASSUME NEW b \in Binding, Svm!Create(b) PROVE ServiceManagerInv'
  <2>1. /\ created < MaxCreated /\ created' = created + 1
        /\ operation[b] = "none" /\ alive' = alive \cup {b} /\ b \in Svm!Item
        /\ UNCHANGED <<operation, filter, svmPhase, unlisted, svmListed, deletion, svmOutcome>>
    BY <1>9, <1>a DEF Svm!Create
  <2>2. Svm!TypeOK'
    <3>1. created' \in 0..MaxCreated
      BY <1>a, <2>1, SvmAssumption DEF Svm!TypeOK
    <3> QED
      BY <1>a, <2>1, <3>1 DEF Svm!TypeOK
  <2>3. SingledOut'
    BY <1>a, <2>1 DEF SingledOut, Svm!FilteredBindings
  <2>4. DeletionsOfPhase'
    BY <1>a, <2>1 DEF DeletionsOfPhase, Svm!FilteredBindings, Svm!AllOver, Svm!AnyFailed
  <2>5. Deletions'
    BY <1>a, <2>1 DEF Deletions
  <2> QED
    BY <2>2, <2>3, <2>4, <2>5 DEF ServiceManagerInv
<1>10. CASE Svm!Start
  <2>1. CASE Svm!List("instances", Svm!GetInstances)
    BY <1>1, <2>1 DEF Svm!GetInstances, Svm!Item
  <2>2. CASE Svm!List("bindings", Svm!GetBindings)
    BY <1>1, <2>2, SvmAssumption DEF Svm!GetBindings, Svm!Item
  <2> QED
    BY <1>10, <1>2, <1>3, <1>4, <2>1, <2>2 DEF Svm!Start
<1> QED
  BY <1>4, <1>6, <1>7, <1>8, <1>9, <1>10 DEF Svm!Next, Svm!GoesOn, Svm!Submit, Svm!End

\* The properties of the commands.
LEMMA SvmSafe ==
    ServiceManagerInv => /\ Svm!TypeOK /\ Svm!OkMeansDone /\ Svm!NothingAbandoned
                         /\ Svm!DeletesInOrder
<1> SUFFICES ASSUME ServiceManagerInv
             PROVE  /\ Svm!TypeOK /\ Svm!OkMeansDone /\ Svm!NothingAbandoned
                    /\ Svm!DeletesInOrder
  OBVIOUS
<1>a. /\ Svm!TypeOK /\ SingledOut /\ DeletionsOfPhase /\ Deletions
      /\ Svm!Item = Instance \cup Binding
      /\ Svm!FilteredBindings \subseteq Svm!Item
  BY DEF ServiceManagerInv, Svm!Item, Svm!FilteredBindings
<1>1. Svm!NothingAbandoned
  BY <1>a DEF Svm!NothingAbandoned, DeletionsOfPhase
<1>2. Svm!OkMeansDone
  <2> SUFFICES ASSUME svmOutcome = "ok",
                      NEW x \in Svm!Item,
                      \/ x \in Svm!FilteredBindings
                      \/ filter.doDeleteInstances /\ x \in svmListed \cap Instance
               PROVE  x \notin alive
    BY <1>a DEF Svm!OkMeansDone
  <2>1. deletion[x] = "done"
    BY <1>a DEF DeletionsOfPhase, Svm!AllOver, Svm!AnyFailed, Svm!Over
  <2> QED
    BY <1>a, <2>1 DEF Deletions
<1>3. Svm!DeletesInOrder
  <2> SUFFICES ASSUME NEW x \in Svm!Item, operation[x] # "none",
                      NEW i, i = IF x \in Instance THEN x ELSE InstanceOf[x]
               PROVE  /\ TenantOfInstance[i] \in filter.tenants /\ PlanOf[i] \in filter.plans
                      /\ x \in Instance =>
                           \A b \in svmListed \cap Binding : InstanceOf[b] = i => b \notin alive
    BY DEF Svm!DeletesInOrder
  <2>1. deletion[x] # "none"
    BY <1>a DEF Deletions
  <2>2. i \in svmListed \cap Instance
    BY <1>a, <2>1, SvmAssumption DEF SingledOut, Svm!FilteredBindings
  <2>3. ASSUME x \in Instance, NEW b \in svmListed \cap Binding, InstanceOf[b] = i
        PROVE  b \notin alive
    <3>1. b \in Svm!FilteredBindings
      BY <2>2, <2>3 DEF Svm!FilteredBindings
    <3>2. deletion[b] = "done"
      BY <1>a, <2>1, <2>3, <3>1 DEF DeletionsOfPhase
    <3> QED
      BY <1>a, <3>1, <3>2 DEF Deletions
  <2> QED
    BY <1>a, <2>2, <2>3 DEF SingledOut
<1> QED
  BY <1>1, <1>2, <1>3, <1>a

-----------------------------------------------------------------------------
(* The commands of CAP multitenancy                                        *)

\* Division of natural numbers.
LEMMA Division ==
    ASSUME NEW a \in Nat, NEW b \in Nat \ {0}
    PROVE  a \div b \in Nat /\ (a \div b) * b <= a /\ a < (a \div b) * b + b
  OBVIOUS

LEMMA Product ==
    ASSUME NEW a \in Nat, NEW b \in Nat, NEW c \in Nat, a <= b
    PROVE  a * c <= b * c
  OBVIOUS
LEMMA Distribute ==
    ASSUME NEW a \in Int, NEW b \in Int
    PROVE  (a - 1) * b = a * b - b /\ (a + 1) * b = a * b + b /\ a * b = b * a
  OBVIOUS

\* With any number of instances, the parts of balancedSplit are parts of the
\* tenants, every tenant is in the part of some instance, and in no other.
THEOREM SplitIsPartition ==
    ASSUME NEW n \in 0..MaxTenants, NEW k \in 1..MaxInstances
    PROVE  /\ \A u \in Cds!Unit : Cds!BalancedSplit(n, k)[u] \subseteq 1..n
           /\ \A t \in 1..n : \E u \in 1..k :
                u \in Cds!Unit /\ t \in Cds!BalancedSplit(n, k)[u]
           /\ \A t \in 1..n : \A u, v \in Cds!Unit :
                t \in Cds!BalancedSplit(n, k)[u] /\ t \in Cds!BalancedSplit(n, k)[v] => u = v
<1> DEFINE l == (n + k - 1) \div k
<1>1. n \in Nat /\ k \in Nat \ {0} /\ n + k - 1 \in Nat
  BY CdsAssumption
<1>2. l \in Nat /\ l * k <= n + k - 1 /\ n + k - 1 < l * k + k
  BY <1>1, Division
<1>3. Cds!Unit \subseteq Nat \ {0} /\ 1..k \subseteq Cds!Unit
  BY CdsAssumption DEF Cds!Unit
<1>4. ASSUME NEW u \in Cds!Unit
      PROVE  Cds!BalancedSplit(n, k)[u] = IF u > k THEN {}
                                      ELSE {t \in 1..n : (u - 1) * l < t /\ t <= u * l}
  BY DEF Cds!BalancedSplit
<1> HIDE DEF l
<1>5. ASSUME NEW u \in Cds!Unit PROVE Cds!BalancedSplit(n, k)[u] \subseteq 1..n
  BY <1>4
<1>6. ASSUME NEW t \in 1..n
      PROVE  \E u \in 1..k : u \in Cds!Unit /\ t \in Cds!BalancedSplit(n, k)[u]
  <2>1. t \in Nat \ {0} /\ t - 1 \in Nat /\ t <= n /\ n >= 1
    BY <1>1
  <2>2. l \in Nat \ {0}
    <3> SUFFICES ASSUME l = 0 PROVE FALSE
      BY <1>2
    <3>1. l * k = 0
      BY <1>1
    <3> QED
      BY <1>1, <1>2, <2>1, <3>1
  <2> DEFINE q == (t - 1) \div l
  <2>3. q \in Nat /\ q * l <= t - 1 /\ t - 1 < q * l + l
    BY <2>1, <2>2, Division
  <2> HIDE DEF q
  <2>4. q * l \in Nat /\ (q + 1) * l = q * l + l /\ l * k \in Nat
    BY <1>1, <2>2, <2>3, Distribute
  <2>5. q < k
    <3> SUFFICES ASSUME k <= q PROVE FALSE
      BY <1>1, <2>3
    <3>1. k * l <= q * l
      BY <1>1, <1>2, <2>3, Product
    <3>2. k * l = l * k
      BY <1>1, <1>2, Distribute
    <3> QED
      BY <1>1, <1>2, <2>1, <2>3, <2>4, <3>1, <3>2
  <2>6. q + 1 \in 1..k /\ q + 1 \in Cds!Unit /\ ~(q + 1 > k)
    BY <1>1, <1>3, <2>3, <2>5
  <2>7. ((q + 1) - 1) * l < t /\ t <= (q + 1) * l
    <3>1. (q + 1) - 1 = q
      BY <2>3
    <3> QED
      BY <2>1, <2>2, <2>3, <2>4, <3>1
  <2>8. t \in Cds!BalancedSplit(n, k)[q + 1]
    BY <1>4, <2>6, <2>7
  <2> QED
    BY <2>6, <2>8
<1>7. ASSUME NEW t \in 1..n, NEW u \in Cds!Unit, NEW v \in Cds!Unit,
             t \in Cds!BalancedSplit(n, k)[u], t \in Cds!BalancedSplit(n, k)[v], u < v
      PROVE  FALSE
  <2>1. t <= u * l /\ (v - 1) * l < t
    BY <1>4, <1>7
  <2>2. u \in Nat /\ v - 1 \in Nat /\ u <= v - 1
    <3>1. u \in Nat \ {0} /\ v \in Nat \ {0}
      BY <1>3
    <3> QED
      BY <1>7, <3>1
  <2>3. u * l <= (v - 1) * l
    BY <1>2, <2>2, Product
  <2>4. u * l \in Nat /\ (v - 1) * l \in Nat
    BY <1>2, <2>2
  <2> QED
    BY <2>1, <2>3, <2>4
<1>8. ASSUME NEW t \in 1..n, NEW u \in Cds!Unit, NEW v \in Cds!Unit,
             t \in Cds!BalancedSplit(n, k)[u], t \in Cds!BalancedSplit(n, k)[v]
      PROVE  u = v
  BY <1>3, <1>7, <1>8
<1> QED
  BY <1>5, <1>6, <1>8

\* What is asked for is in exactly one unit of work, on an instance that exists.
LEMMA PartsPartition ==
    ASSUME tenants \in {1..n : n \in 0..MaxTenants}, instances \in 0..MaxInstances
    PROVE  /\ Cds!Parts \in [Cds!Unit -> SUBSET Cds!Tenant]
           /\ \A u, v \in Cds!Unit : \A t : t \in Cds!Parts[u] /\ t \in Cds!Parts[v] => u = v
           /\ \A t \in Cds!Asked : \E u \in Cds!Unit :
                t \in Cds!Parts[u] /\ (Cds!IsSplit => u <= instances)
<1>1. PICK n \in 0..MaxTenants : tenants = 1..n
  OBVIOUS
<1>2. /\ n \in Nat /\ n <= MaxTenants /\ MaxTenants \in Nat \ {0} /\ MaxInstances \in Nat
      /\ instances \in Nat /\ instances <= MaxInstances
  BY CdsAssumption
<1>3. tenants \subseteq Cds!Tenant /\ Cds!Tenant \subseteq Cds!Unit /\ 1 \in Cds!Tenant
  BY <1>1, <1>2 DEF Cds!Tenant, Cds!Unit
<1>4. Cds!Cardinality(tenants) = n
  <2>1. Cardinality(1..n) = n
    BY <1>2, FS_Interval
  <2>2. Cds!Cardinality(tenants) = Cardinality(tenants)
    BY Zenon DEF Cardinality, Cds!Cardinality
  <2> QED
    BY <1>1, <2>1, <2>2
<1>5. CASE cdsCommand.name \in Cds!Single
  <2>1. Cds!Parts = [u \in Cds!Unit |-> IF u = 1 THEN {1} ELSE {}] /\ Cds!Asked = {1}
    BY <1>5 DEF Cds!Parts, Cds!Asked, Cds!Single, Cds!IsSplit
  <2>2. ~Cds!IsSplit
    BY <1>5 DEF Cds!IsSplit, Cds!Single
  <2> QED
    BY <1>3, <2>1, <2>2
<1>6. CASE cdsCommand.name \notin Cds!Single /\ cdsCommand.name = "offboardAll"
  <2>1. /\ Cds!Parts = [u \in Cds!Unit |-> IF u \in tenants THEN {u} ELSE {}]
        /\ Cds!Asked = tenants
    BY <1>6 DEF Cds!Parts, Cds!Asked, Cds!Single, Cds!IsSplit
  <2>2. ~Cds!IsSplit
    BY <1>6 DEF Cds!IsSplit
  <2> QED
    BY <1>3, <2>1, <2>2
<1>7. CASE cdsCommand.name \notin Cds!Single /\ cdsCommand.name # "offboardAll" /\ Cds!IsSplit
  <2>1. Cds!Parts = Cds!BalancedSplit(n, instances) /\ Cds!Asked = tenants
    BY <1>4, <1>7 DEF Cds!Parts, Cds!Asked
  <2>2. instances \in 1..MaxInstances
    BY <1>2, <1>7 DEF Cds!IsSplit
  <2>3. Cds!BalancedSplit(n, instances) = [u \in Cds!Unit |-> Cds!BalancedSplit(n, instances)[u]]
    BY DEF Cds!BalancedSplit
  <2>4. /\ \A u \in Cds!Unit : Cds!BalancedSplit(n, instances)[u] \subseteq 1..n
        /\ \A t \in 1..n : \E u \in 1..instances :
             u \in Cds!Unit /\ t \in Cds!BalancedSplit(n, instances)[u]
        /\ \A t \in 1..n : \A u, v \in Cds!Unit :
             /\ t \in Cds!BalancedSplit(n, instances)[u]
             /\ t \in Cds!BalancedSplit(n, instances)[v]
             => u = v
    BY <2>2, SplitIsPartition
  <2> DEFINE B == Cds!BalancedSplit(n, instances)
  <2>5. B \in [Cds!Unit -> SUBSET Cds!Tenant]
    <3>1. \A u \in Cds!Unit : B[u] \in SUBSET Cds!Tenant
      BY <1>1, <1>3, <2>4
    <3>2. B = [u \in Cds!Unit |-> B[u]]
      BY <2>3
    <3> HIDE DEF B
    <3> QED
      BY <3>1, <3>2
  <2>6. \A u, v \in Cds!Unit : \A t : t \in B[u] /\ t \in B[v] => u = v
    BY <2>4
  <2>7. \A t \in tenants : \E u \in Cds!Unit : t \in B[u] /\ u <= instances
    BY <1>1, <1>2, <2>4
  <2> QED
    BY <2>1, <2>5, <2>6, <2>7
<1>8. CASE cdsCommand.name \notin Cds!Single /\ cdsCommand.name # "offboardAll" /\ ~Cds!IsSplit
  <2>1. /\ Cds!Parts = [u \in Cds!Unit |-> IF u = 1 THEN tenants ELSE {}]
        /\ Cds!Asked = tenants
    BY <1>8 DEF Cds!Parts, Cds!Asked
  <2> QED
    BY <1>3, <1>8, <2>1
<1> QED
  BY <1>5, <1>6, <1>7, <1>8

\* Every unit of work has its part of the tenants from the start on.
Units ==
    /\ tenants \in {1..n : n \in 0..MaxTenants} /\ instances \in 0..MaxInstances
    /\ cdsPhase = "working" =>
         part = Cds!Parts /\ \A u \in Cds!Unit : stage[u] # "none"
    /\ cdsPhase # "working" =>
         \/ part = [u \in Cds!Unit |-> {}] /\ \A u \in Cds!Unit : stage[u] = "none"
         \/ cdsPhase = "ended" /\ part = Cds!Parts /\ \A u \in Cds!Unit : stage[u] \in Cds!Over
    /\ cdsPhase = "starting" => part = [u \in Cds!Unit |-> {}]
    /\ cdsOutcome = "ok" =>
         cdsPhase = "ended" /\ part = Cds!Parts /\ \A u \in Cds!Unit : stage[u] = "ok"

\* A request is pending only while its unit of work is posted, and an upgrade that
\* goes on with polling has its job.
Posted ==
    \A u \in Cds!Unit :
        /\ Cds!R!Pending(u) => stage[u] = "posting"
        /\ stage[u] = "posting" => cdsRequest[u].state # "idle"
        /\ stage[u] \in {"none", "queued"} => cdsRequest[u].acted = 0
        /\ stage[u] \in {"polling", "summary"} =>
             cdsRequest[u].acted = 1 /\ cdsCommand.name \in Cds!Upgrades
        /\ stage[u] = "ok" /\ Cds!Needed(u) => cdsRequest[u].acted = 1
        /\ cdsRequest[u].acted = 0 => cdsJob[u] = "none"
        /\ cdsRequest[u].acted = 1 /\ cdsCommand.name \in Cds!Upgrades => cdsJob[u] # "none"

\* A job finishes with its tasks; what the last poll of a unit saw of them holds on.
Seen ==
    \A u \in Cds!Unit :
        /\ cdsJob[u] = "FINISHED" =>
             \A t \in part[u] : task[t] \in {"FAILED", "FINISHED"}
        /\ stage[u] \in {"none", "queued", "posting"} =>
             seen[u].job = "none" /\ \A t \in Cds!Tenant : seen[u].task[t] = "none"
        /\ stage[u] = "summary" => seen[u].job # "none"
        /\ seen[u].job = "FINISHED" =>
             \A t \in part[u] : seen[u].task[t] \in {"FAILED", "FINISHED"}
        /\ \A t \in part[u] : seen[u].task[t] = "FINISHED" => task[t] = "FINISHED"
        /\ stage[u] = "ok" /\ Cds!Needed(u) /\ cdsCommand.name \in Cds!Upgrades =>
             ~Cds!HasError(u) /\ seen[u].job \notin {"none", "RUNNING"}

\* How far the tasks of a summary are: every task that goes on adds one.
Weight(counts) == counts[2] + 2 * counts[3] + 2 * counts[4]

\* A polling loop that has not seen a change for a while has seen all there were.
Watched ==
    \A u \in Cds!Unit :
        /\ stage[u] \notin {"polling", "summary"} =>
             summary[u] = <<>> /\ unchanged[u] = 0 /\ stalled[u] = 0
        /\ stage[u] = "polling" => unchanged[u] < ChangeTimeout
        /\ stage[u] = "polling" /\ summary[u] # <<>> =>
             /\ Weight(summary[u]) <= Weight(Cds!TaskSummary(u))
             /\ \/ stalled[u] > unchanged[u]
                \/ Weight(summary[u]) < Weight(Cds!TaskSummary(u))
        /\ unchanged[u] >= ChangeTimeout => stalled[u] > ChangeTimeout

UnitRequests == CdsP!IInv /\ CdsP!TypeInv

CdsTyped ==
    /\ Cds!TypeOK
    /\ seen \in [Cds!Unit -> [job : Cds!JobStatus \cup {"none"}, task : Cds!Tasks]]
    /\ UnitRequests

CdsInv == CdsTyped /\ Units /\ Posted /\ Seen /\ Watched

LEMMA UnitRequestsInit == Cds!R!Init => UnitRequests
  BY CdsRequests, CdsP!InvInit, CdsP!TypeInit, CdsAssumption DEF UnitRequests

LEMMA UnitRequestsNext ==
    ASSUME UnitRequests, NEW u \in Cds!Unit, Cds!R!Send(u) \/ Cds!R!Proceed(u)
    PROVE  UnitRequests'
<1>1. CdsP!Next
  BY CdsRequests DEF CdsP!Next
<1>2. CdsP!IInv'
  BY <1>1, CdsP!InvNext DEF UnitRequests
<1>3. CdsP!TypeInv'
  <2>1. /\ CdsMaxAttempts \in Nat \ {0} /\ RetrySleepBase \in Nat /\ RetryAfterMax \in Nat
        /\ {} \subseteq Int
    BY CdsAssumption, RequestAssumption
  <2> QED
    BY <1>1, <2>1, CdsP!TypeNext DEF UnitRequests
<1> QED
  BY <1>2, <1>3 DEF UnitRequests

LEMMA UnitRequestsSame == UnitRequests /\ UNCHANGED cdsRequest => UnitRequests'
  BY DEF UnitRequests, CdsP!IInv, CdsP!Shaped, CdsP!NotYetActed, CdsP!TypeInv, CdsP!TypeOK,
         CdsP!AttemptLeft, CdsP!Resolved

LEMMA UnitType ==
    /\ Cds!Unit \subseteq Nat \ {0} /\ 1 \in Cds!Unit
    /\ Cds!Tenant \subseteq Cds!Unit /\ 1 \in Cds!Tenant /\ IsFiniteSet(Cds!Tenant)
<1>1. IsFiniteSet(Cds!Tenant)
  BY CdsAssumption, FS_Interval DEF Cds!Tenant
<1> QED
  BY <1>1, CdsAssumption DEF Cds!Unit, Cds!Tenant

\* The split depends on the command and the application only.
LEMMA SameParts ==
    UNCHANGED Cds!setting =>
        Cds!Parts' = Cds!Parts /\ \A u : Cds!Needed(u)' <=> Cds!Needed(u)
  BY DEF Cds!setting, Cds!Parts, Cds!IsSplit, Cds!Needed

\* No tenant is in two units of work.
LEMMA PartsDisjoint ==
    Units => \A u, v \in Cds!Unit : \A t : t \in part[u] /\ t \in part[v] => u = v
  BY PartsPartition DEF Units

\* A unit of work that is underway has its part.
LEMMA UnderWay ==
    ASSUME CdsTyped, Units, NEW u \in Cds!Unit
    PROVE  /\ stage[u] \notin {"none", "ok", "error"} =>
                cdsPhase = "working" /\ cdsOutcome # "ok"
           /\ stage[u] # "none" => part = Cds!Parts
  BY DEF Units, CdsTyped, Cds!TypeOK, Cds!Over

\* The counts of a summary.
Count(u, status) == Cardinality({t \in part[u] : task[t] = status})

LEMMA SummaryIsCounts ==
    /\ \A u : Cds!TaskSummary(u)
                = <<Count(u, "QUEUED"), Count(u, "RUNNING"), Count(u, "FAILED"),
                    Count(u, "FINISHED")>>
    /\ \A u : Cds!TaskSummary(u)'
                = <<Count(u, "QUEUED")', Count(u, "RUNNING")', Count(u, "FAILED")',
                    Count(u, "FINISHED")'>>
<1>1. \A S : Cds!Cardinality(S) = Cardinality(S)
  BY Zenon DEF Cardinality, Cds!Cardinality
<1> QED
  BY <1>1 DEF Cds!TaskSummary, Count

LEMMA SummaryType ==
    ASSUME part \in [Cds!Unit -> SUBSET Cds!Tenant], NEW u \in Cds!Unit
    PROVE  /\ \A status : Count(u, status) \in Nat
           /\ Cds!TaskSummary(u) \in Nat \X Nat \X Nat \X Nat
           /\ Cds!TaskSummary(u) # <<>>
           /\ Weight(Cds!TaskSummary(u)) \in Nat
<1>1. ASSUME NEW status PROVE Count(u, status) \in Nat
  <2>1. {t \in part[u] : task[t] = status} \in SUBSET Cds!Tenant
    OBVIOUS
  <2>2. IsFiniteSet({t \in part[u] : task[t] = status})
    BY <2>1, UnitType, FS_Subset
  <2> QED
    BY <2>2, FS_CardinalityType DEF Count
<1> QED
  BY <1>1, SummaryIsCounts DEF Weight

\* A task that goes on makes the summary heavier by one.
LEMMA TaskAddsOne ==
    ASSUME part \in [Cds!Unit -> SUBSET Cds!Tenant],
           task \in [Cds!Tenant -> Cds!JobStatus \cup {"none"}],
           NEW u \in Cds!Unit, NEW t \in part[u], NEW status, part' = part,
           <<task[t], status>> \in {<<"QUEUED", "RUNNING">>, <<"RUNNING", "FINISHED">>,
                                    <<"RUNNING", "FAILED">>},
           task' = [task EXCEPT ![t] = status]
    PROVE  Weight(Cds!TaskSummary(u))' = Weight(Cds!TaskSummary(u)) + 1
<1> DEFINE With(s) == {x \in part[u] : task[x] = s}
           After(s) == {x \in part[u] : task'[x] = s}
<1>1. \A s : Count(u, s) = Cardinality(With(s)) /\ Count(u, s)' = Cardinality(After(s))
  BY DEF Count
<1>2. \A s : IsFiniteSet(With(s)) /\ Cardinality(With(s)) \in Nat
  <2>1. \A s : With(s) \in SUBSET Cds!Tenant
    OBVIOUS
  <2>2. \A s : IsFiniteSet(With(s))
    BY <2>1, UnitType, FS_Subset
  <2> HIDE DEF With
  <2> QED
    BY <2>2, FS_CardinalityType
<1>3. task[t] # status /\ t \in Cds!Tenant
  OBVIOUS
<1>4. Cardinality(After(task[t])) = Cardinality(With(task[t])) - 1
  <2>1. After(task[t]) = With(task[t]) \ {t} /\ t \in With(task[t])
    BY <1>3
  <2> HIDE DEF After, With
  <2>2. IsFiniteSet(With(task[t]))
    BY <1>2
  <2>3. Cardinality(With(task[t]) \ {t}) = Cardinality(With(task[t])) - 1
    BY <2>1, <2>2, FS_RemoveElement
  <2> QED
    BY <2>1, <2>3
<1>5. Cardinality(After(status)) = Cardinality(With(status)) + 1
  <2>1. After(status) = With(status) \cup {t} /\ t \notin With(status)
    BY <1>3
  <2> HIDE DEF After, With
  <2> QED
    BY <1>2, <2>1, FS_AddElement
<1>6. ASSUME NEW s, s # status, s # task[t]
      PROVE  After(s) = With(s)
  BY <1>3, <1>6
<1> HIDE DEF With, After
<1>7. \A s : Cardinality(With(s)) \in Nat
  BY <1>2
<1>8. /\ Weight(Cds!TaskSummary(u)) = Cardinality(With("RUNNING"))
           + 2 * Cardinality(With("FAILED")) + 2 * Cardinality(With("FINISHED"))
      /\ Weight(Cds!TaskSummary(u))' = Cardinality(After("RUNNING"))
           + 2 * Cardinality(After("FAILED")) + 2 * Cardinality(After("FINISHED"))
  <2>1. /\ Cds!TaskSummary(u)[2] = Cardinality(With("RUNNING"))
        /\ Cds!TaskSummary(u)[3] = Cardinality(With("FAILED"))
        /\ Cds!TaskSummary(u)[4] = Cardinality(With("FINISHED"))
        /\ Cds!TaskSummary(u)'[2] = Cardinality(After("RUNNING"))
        /\ Cds!TaskSummary(u)'[3] = Cardinality(After("FAILED"))
        /\ Cds!TaskSummary(u)'[4] = Cardinality(After("FINISHED"))
    BY <1>1, SummaryIsCounts
  <2> QED
    BY <2>1 DEF Weight
<1>9. CASE task[t] = "QUEUED" /\ status = "RUNNING"
  BY <1>4, <1>5, <1>6, <1>7, <1>8, <1>9
<1>10. CASE task[t] = "RUNNING" /\ status = "FINISHED"
  BY <1>4, <1>5, <1>6, <1>7, <1>8, <1>10
<1>11. CASE task[t] = "RUNNING" /\ status = "FAILED"
  BY <1>4, <1>5, <1>6, <1>7, <1>8, <1>11
<1> QED
  BY <1>9, <1>10, <1>11

\* The summary of a unit whose part and tasks are the same is the same.
LEMMA SameSummary ==
    ASSUME NEW u, part'[u] = part[u], \A t \in part[u] : task'[t] = task[t]
    PROVE  Cds!TaskSummary(u)' = Cds!TaskSummary(u)
<1>1. \A s : {t \in part[u] : task[t] = s}' = {t \in part[u] : task[t] = s}
  OBVIOUS
<1>2. \A s : Count(u, s)' = Count(u, s)
  BY <1>1 DEF Count
<1> QED
  BY <1>2, SummaryIsCounts

LEMMA CdsInit == Cds!Init \/ Cds!Idle => CdsInv
<1> SUFFICES ASSUME Cds!Init \/ Cds!Idle PROVE CdsInv
  OBVIOUS
<1>1. /\ cdsPhase \in {"starting", "ended"} /\ part = [u \in Cds!Unit |-> {}]
      /\ stage = [u \in Cds!Unit |-> "none"] /\ cdsJob = [u \in Cds!Unit |-> "none"]
      /\ task = [t \in Cds!Tenant |-> "none"] /\ summary = [u \in Cds!Unit |-> <<>>]
      /\ unchanged = [u \in Cds!Unit |-> 0] /\ stalled = [u \in Cds!Unit |-> 0]
      /\ seen = [u \in Cds!Unit |-> [job |-> "none", task |-> [t \in Cds!Tenant |-> "none"]]]
      /\ Cds!R!Init /\ cdsOutcome = "none"
  BY DEF Cds!Init, Cds!Idle, Cds!Begin, Cds!NoTask
<1>2. tenants \in {1..n : n \in 0..MaxTenants} /\ instances \in 0..MaxInstances
  <2>1. CASE Cds!Init
    BY <2>1 DEF Cds!Init
  <2>2. CASE Cds!Idle
    <3>1. 0 \in 0..MaxTenants /\ 1..0 = {} /\ 0 \in 0..MaxInstances
      BY CdsAssumption
    <3> QED
      BY <2>2, <3>1 DEF Cds!Idle
  <2> QED
    BY <2>1, <2>2
<1>3. tenants \subseteq Cds!Tenant
  BY <1>2, CdsAssumption DEF Cds!Tenant
<1>4. cdsCommand.name \in Cds!Upgrades \cup Cds!Single \cup {"offboardAll"}
  <2>1. CASE Cds!Init
    <3>1. \/ cdsCommand \in [name : Cds!Single, isUUID : BOOLEAN]
          \/ cdsCommand \in [name : {"upgradeAll", "upgradeAllFirst", "offboardAll"},
                             isUUID : {TRUE}]
      BY <2>1 DEF Cds!Init
    <3>2. cdsCommand.name \in Cds!Single \cup {"upgradeAll", "upgradeAllFirst", "offboardAll"}
      BY <3>1
    <3> QED
      BY <3>2 DEF Cds!Upgrades
  <2>2. CASE Cds!Idle
    <3>1. cdsCommand.name = "upgradeAll"
      BY <2>2 DEF Cds!Idle
    <3> QED
      BY <3>1 DEF Cds!Upgrades
  <2> QED
    BY <2>1, <2>2
<1>5. UnitRequests /\ Cds!R!TypeOK
  BY <1>1, UnitRequestsInit, CdsRequests DEF UnitRequests, CdsP!TypeInv
<1>6. CdsTyped
  <2>1. task \in Cds!Tasks
    BY <1>1 DEF Cds!Tasks
  <2>2. seen \in [Cds!Unit -> [job : Cds!JobStatus \cup {"none"}, task : Cds!Tasks]]
    BY <1>1 DEF Cds!Tasks
  <2>3. /\ unchanged \in [Cds!Unit -> 0..ChangeTimeout]
        /\ stalled \in [Cds!Unit -> 0..ChangeTimeout + 1]
    BY <1>1, CdsAssumption
  <2> QED
    BY <1>1, <1>2, <1>3, <1>4, <1>5, <2>1, <2>2, <2>3 DEF CdsTyped, Cds!TypeOK
<1>7. Units
  BY <1>1, <1>2 DEF Units
<1>8. Posted
  <2>1. \A u \in Cds!Unit : cdsRequest[u].state = "idle" /\ cdsRequest[u].acted = 0
    BY <1>1 DEF Cds!R!Init
  <2> QED
    BY <1>1, <2>1 DEF Posted, Cds!R!Pending
<1>9. Seen
  BY <1>1 DEF Seen
<1>10. Watched
  <2>1. ~(0 >= ChangeTimeout)
    BY CdsAssumption
  <2> QED
    BY <1>1, <2>1 DEF Watched
<1> QED
  BY <1>6, <1>7, <1>8, <1>9, <1>10 DEF CdsInv

LEMMA CdsTypedNext == CdsInv /\ Cds!Next => CdsTyped'
<1> SUFFICES ASSUME CdsInv, Cds!Next PROVE CdsTyped'
  OBVIOUS
<1>a. /\ tenants \subseteq Cds!Tenant
      /\ instances \in 0..MaxInstances
      /\ cdsPhase \in {"starting", "working", "ended"}
      /\ part \in [Cds!Unit -> SUBSET Cds!Tenant]
      /\ stage \in [Cds!Unit -> {"none", "queued", "posting", "polling", "summary"} \cup Cds!Over]
      /\ cdsJob \in [Cds!Unit -> Cds!JobStatus \cup {"none"}]
      /\ task \in [Cds!Tenant -> Cds!JobStatus \cup {"none"}]
      /\ summary \in [Cds!Unit -> {<<>>} \cup (Nat \X Nat \X Nat \X Nat)]
      /\ unchanged \in [Cds!Unit -> 0..ChangeTimeout]
      /\ stalled \in [Cds!Unit -> 0..ChangeTimeout + 1]
      /\ seen \in [Cds!Unit -> [job : Cds!JobStatus \cup {"none"}, task : Cds!Tasks]]
      /\ cdsOutcome \in {"none", "ok", "failed"}
      /\ CdsTyped /\ UnitRequests /\ Units /\ Posted /\ Watched
      /\ ChangeTimeout \in Nat \ {0}
  BY CdsAssumption DEF CdsInv, CdsTyped, Cds!TypeOK, Cds!Tasks
<1>1. ASSUME UnitRequests', UNCHANGED Cds!setting,
             cdsPhase' \in {"starting", "working", "ended"},
             part' \in [Cds!Unit -> SUBSET Cds!Tenant],
             stage' \in [Cds!Unit -> {"none", "queued", "posting", "polling", "summary"}
                                       \cup Cds!Over],
             cdsJob' \in [Cds!Unit -> Cds!JobStatus \cup {"none"}],
             task' \in [Cds!Tenant -> Cds!JobStatus \cup {"none"}],
             summary' \in [Cds!Unit -> {<<>>} \cup (Nat \X Nat \X Nat \X Nat)],
             unchanged' \in [Cds!Unit -> 0..ChangeTimeout],
             stalled' \in [Cds!Unit -> 0..ChangeTimeout + 1],
             seen' \in [Cds!Unit -> [job : Cds!JobStatus \cup {"none"}, task : Cds!Tasks]],
             cdsOutcome' \in {"none", "ok", "failed"}
      PROVE  CdsTyped'
  <2>1. Cds!R!TypeOK'
    BY <1>1, CdsRequests, PTL DEF UnitRequests, CdsP!TypeInv
  <2>2. \A u \in Cds!Unit :
          seen'[u].job \in Cds!JobStatus \cup {"none"} /\ seen'[u].task \in Cds!Tasks
    BY <1>1
  <2>3. /\ tenants' \subseteq Cds!Tenant /\ instances' \in 0..MaxInstances
        /\ cdsCommand'.name \in Cds!Upgrades \cup Cds!Single \cup {"offboardAll"}
    BY <1>1, <1>a DEF CdsTyped, Cds!TypeOK, Cds!setting
  <2> QED
    BY <1>1, <2>1, <2>2, <2>3 DEF CdsTyped, Cds!TypeOK, Cds!Tasks
<1>b. UNCHANGED cdsRequest => UnitRequests'
  BY <1>a, UnitRequestsSame
<1>2. CASE Cds!Start
  <2>1. Cds!Parts \in [Cds!Unit -> SUBSET Cds!Tenant]
    BY <1>a, PartsPartition DEF Units
  <2>2. stage' \in [Cds!Unit -> {"none", "queued", "posting", "polling", "summary"} \cup Cds!Over]
    BY <1>2 DEF Cds!Start, Cds!Over
  <2> QED
    BY <1>1, <1>2, <1>a, <1>b, <2>1, <2>2 DEF Cds!Start, Cds!server, Cds!watch
<1>3. CASE Cds!StartFails \/ Cds!Return
  BY <1>1, <1>3, <1>a, <1>b DEF Cds!StartFails, Cds!Return, Cds!server, Cds!watch
<1>4. ASSUME NEW u \in Cds!Unit, Cds!Post(u) PROVE CdsTyped'
  <2>1. UnitRequests'
    BY <1>4, <1>a, UnitRequestsNext DEF Cds!Post
  <2> QED
    BY <1>1, <1>4, <1>a, <2>1 DEF Cds!Post, Cds!server, Cds!watch
<1>5. ASSUME NEW u \in Cds!Unit, Cds!PostProceeds(u) PROVE CdsTyped'
  <2>1. UnitRequests'
    BY <1>5, <1>a, UnitRequestsNext DEF Cds!PostProceeds
  <2>2. /\ cdsJob' \in [Cds!Unit -> Cds!JobStatus \cup {"none"}]
        /\ task' \in [Cds!Tenant -> Cds!JobStatus \cup {"none"}]
    BY <1>5, <1>a DEF Cds!PostProceeds, Cds!server, Cds!JobStatus
  <2> QED
    BY <1>1, <1>5, <1>a, <2>1, <2>2 DEF Cds!PostProceeds, Cds!watch
<1>6. ASSUME NEW u \in Cds!Unit, NEW readable \in BOOLEAN, Cds!PostReturns(u, readable)
      PROVE  CdsTyped'
  <2>1. Cds!R!Rejected(u) \/ Cds!R!Resolved(u)
    <3>1. ~CdsP!Pending(u) /\ cdsRequest[u].state # "idle"
      BY <1>6, <1>a, CdsRequests DEF Cds!PostReturns, Posted
    <3> QED
      BY <1>a, <3>1, CdsRequests, CdsP!OverKnown DEF UnitRequests
  <2>2. stage' \in [Cds!Unit -> {"none", "queued", "posting", "polling", "summary"} \cup Cds!Over]
    BY <1>6, <1>a, <2>1 DEF Cds!PostReturns, Cds!Over
  <2> QED
    BY <1>1, <1>6, <1>a, <1>b, <2>2 DEF Cds!PostReturns, Cds!server, Cds!watch
<1>c. \A u \in Cds!Unit :
        Cds!SeenNow(u) \in [job : Cds!JobStatus \cup {"none"}, task : Cds!Tasks]
  BY <1>a DEF Cds!SeenNow, Cds!Tasks
<1>7. ASSUME NEW u \in Cds!Unit, Cds!PollEnds(u) PROVE CdsTyped'
  <2>1. seen' \in [Cds!Unit -> [job : Cds!JobStatus \cup {"none"}, task : Cds!Tasks]]
    BY <1>7, <1>a, <1>c DEF Cds!PollEnds
  <2> QED
    BY <1>1, <1>7, <1>a, <1>b, <2>1 DEF Cds!PollEnds, Cds!server
<1>8. ASSUME NEW u \in Cds!Unit, Cds!PollRunning(u) PROVE CdsTyped'
  <2> DEFINE age == IF summary[u] # Cds!TaskSummary(u) THEN 0 ELSE unchanged[u] + 1
  <2>1. /\ stage[u] = "polling" /\ unchanged' = [unchanged EXCEPT ![u] = age]
        /\ \/ stage' = [stage EXCEPT ![u] = "summary"]
              /\ seen' = [seen EXCEPT ![u] = Cds!SeenNow(u)]
           \/ UNCHANGED <<stage, seen>>
        /\ summary' = [summary EXCEPT ![u] = Cds!TaskSummary(u)]
        /\ stalled' = [stalled EXCEPT ![u] = IF @ > ChangeTimeout THEN @ ELSE @ + 1]
        /\ UNCHANGED <<Cds!setting, cdsPhase, part, cdsJob, task, cdsRequest, cdsOutcome>>
    BY <1>8 DEF Cds!PollRunning, Cds!server
  <2>2. age \in 0..ChangeTimeout
    <3>1. unchanged[u] < ChangeTimeout /\ unchanged[u] \in Nat
      BY <1>a, <2>1 DEF Watched
    <3> QED
      BY <1>a, <3>1
  <2>3. Cds!TaskSummary(u) \in Nat \X Nat \X Nat \X Nat
    BY <1>a, SummaryType
  <2>4. seen' \in [Cds!Unit -> [job : Cds!JobStatus \cup {"none"}, task : Cds!Tasks]]
    BY <1>a, <1>c, <2>1
  <2>5. stalled' \in [Cds!Unit -> 0..ChangeTimeout + 1]
    <3>1. stalled[u] \in 0..ChangeTimeout + 1
      BY <1>a
    <3>2. (IF stalled[u] > ChangeTimeout THEN stalled[u] ELSE stalled[u] + 1)
             \in 0..ChangeTimeout + 1
      BY <1>a, <3>1
    <3> QED
      BY <1>a, <2>1, <3>2
  <2>6. stage' \in [Cds!Unit -> {"none", "queued", "posting", "polling", "summary"} \cup Cds!Over]
    BY <1>a, <2>1
  <2>7. summary' \in [Cds!Unit -> {<<>>} \cup (Nat \X Nat \X Nat \X Nat)]
    BY <1>a, <2>1, <2>3
  <2>8. unchanged' \in [Cds!Unit -> 0..ChangeTimeout]
    BY <1>a, <2>1, <2>2
  <2> HIDE DEF age
  <2> QED
    BY <1>1, <1>a, <1>b, <2>1, <2>4, <2>5, <2>6, <2>7, <2>8
<1>d. ASSUME NEW u \in Cds!Unit, Cds!LeaveLoop(u)
      PROVE  /\ summary' \in [Cds!Unit -> {<<>>} \cup (Nat \X Nat \X Nat \X Nat)]
             /\ unchanged' \in [Cds!Unit -> 0..ChangeTimeout]
             /\ stalled' \in [Cds!Unit -> 0..ChangeTimeout + 1]
  BY <1>d, <1>a DEF Cds!LeaveLoop
<1>9. ASSUME NEW u \in Cds!Unit, Cds!PollFails(u) \/ Cds!Summarize(u) PROVE CdsTyped'
  <2>1. stage' \in [Cds!Unit -> {"none", "queued", "posting", "polling", "summary"} \cup Cds!Over]
    BY <1>9, <1>a DEF Cds!PollFails, Cds!Summarize, Cds!Over
  <2> QED
    BY <1>1, <1>9, <1>a, <1>b, <1>d, <2>1 DEF Cds!PollFails, Cds!Summarize, Cds!server
<1>10. ASSUME NEW u \in Cds!Unit, Cds!JobStarts(u) \/ Cds!JobEnds(u) \/ Cds!JobFails(u)
       PROVE  CdsTyped'
  <2>1. cdsJob' \in [Cds!Unit -> Cds!JobStatus \cup {"none"}]
    BY <1>10, <1>a DEF Cds!JobStarts, Cds!JobEnds, Cds!JobFails, Cds!JobStatus
  <2> QED
    BY <1>1, <1>10, <1>a, <1>b, <2>1 DEF Cds!JobStarts, Cds!JobEnds, Cds!JobFails, Cds!watch
<1>11. ASSUME NEW u \in Cds!Unit, NEW t \in Cds!Tenant, NEW status \in Cds!JobStatus,
              Cds!TaskGoesOn(u, t, status)
       PROVE  CdsTyped'
  <2>1. stalled' \in [Cds!Unit -> 0..ChangeTimeout + 1]
    BY <1>11, <1>a DEF Cds!TaskGoesOn, Cds!Progress
  <2> QED
    BY <1>1, <1>11, <1>a, <1>b, <2>1 DEF Cds!TaskGoesOn
<1> QED
  BY <1>2, <1>3, <1>4, <1>5, <1>6, <1>7, <1>8, <1>9, <1>10, <1>11
     DEF Cds!Next, Cds!GoesOn, Cds!Submit, Cds!Poll, Cds!Application

LEMMA UnitsNext == CdsInv /\ Cds!Next => Units'
<1> SUFFICES ASSUME CdsInv, Cds!Next PROVE Units'
  OBVIOUS
<1>a. /\ CdsTyped /\ Units /\ Posted
      /\ cdsPhase \in {"starting", "working", "ended"}
      /\ stage \in [Cds!Unit -> {"none", "queued", "posting", "polling", "summary"} \cup Cds!Over]
      /\ UNCHANGED Cds!setting =>
           Cds!Parts' = Cds!Parts /\ \A u : Cds!Needed(u)' <=> Cds!Needed(u)
  BY SameParts DEF CdsInv, CdsTyped, Cds!TypeOK
<1>1. CASE Cds!Start
  <2>1. /\ part' = Cds!Parts' /\ cdsPhase' = "working" /\ cdsOutcome' = cdsOutcome
        /\ \A u \in Cds!Unit : stage'[u] # "none"
        /\ cdsPhase = "starting" /\ UNCHANGED Cds!setting
    BY <1>1, <1>a DEF Cds!Start
  <2> QED
    BY <1>a, <2>1 DEF Units, Cds!setting
<1>2. CASE Cds!StartFails
  BY <1>2, <1>a DEF Cds!StartFails, Units, Cds!setting
<1>3. CASE Cds!Return
  <2>1. /\ cdsPhase = "working" /\ cdsPhase' = "ended" /\ part' = Cds!Parts' /\ stage' = stage
        /\ \A u \in Cds!Unit : stage[u] \in {"ok", "error"}
        /\ cdsOutcome' = "ok" => \A u \in Cds!Unit : stage[u] # "error"
        /\ UNCHANGED Cds!setting
    BY <1>3, <1>a DEF Cds!Return, Units, Cds!Over
  <2> QED
    BY <1>a, <2>1 DEF Units, Cds!Over, Cds!setting
\* All else happens to a unit that is underway.
<1>4. ASSUME NEW u \in Cds!Unit, stage[u] \notin {"none", "ok", "error"},
             NEW s, s # "none", stage' = [stage EXCEPT ![u] = s],
             UNCHANGED <<Cds!setting, cdsPhase, part, cdsOutcome>>
      PROVE  Units'
  <2>1. cdsPhase = "working" /\ cdsOutcome # "ok"
    BY <1>4, <1>a, UnderWay
  <2>2. \A v \in Cds!Unit : stage'[v] # "none"
    BY <1>4, <1>a, <2>1 DEF Units
  <2> QED
    BY <1>4, <1>a, <2>1, <2>2 DEF Units, Cds!setting
<1>5. CASE UNCHANGED <<Cds!setting, cdsPhase, part, stage, cdsOutcome>>
  BY <1>5, <1>a DEF Units, Cds!setting
<1>6. ASSUME NEW u \in Cds!Unit, Cds!Post(u) PROVE Units'
  BY <1>4, <1>6 DEF Cds!Post
<1>7. ASSUME NEW u \in Cds!Unit, NEW readable \in BOOLEAN, Cds!PostReturns(u, readable)
      PROVE  Units'
  <2> DEFINE s == CASE Cds!R!Rejected(u) -> "error"
                    [] Cds!R!Resolved(u) /\ cdsCommand.name \notin Cds!Upgrades -> "ok"
                    [] Cds!R!Resolved(u) /\ cdsCommand.name \in Cds!Upgrades ->
                         IF readable THEN "polling" ELSE "error"
  <2>1. Cds!R!Rejected(u) \/ Cds!R!Resolved(u)
    <3>1. ~CdsP!Pending(u) /\ cdsRequest[u].state # "idle"
      BY <1>7, <1>a, CdsRequests DEF Cds!PostReturns, Posted
    <3> QED
      BY <1>a, <3>1, CdsRequests, CdsP!OverKnown DEF UnitRequests, CdsTyped
  <2>2. s # "none"
    BY <2>1
  <2>3. /\ stage[u] = "posting" /\ stage' = [stage EXCEPT ![u] = s]
        /\ UNCHANGED <<Cds!setting, cdsPhase, part, cdsOutcome>>
    BY <1>7 DEF Cds!PostReturns
  <2> HIDE DEF s
  <2> QED
    BY <1>4, <2>2, <2>3
<1>8. ASSUME NEW u \in Cds!Unit,
             Cds!PollEnds(u) \/ Cds!PollRunning(u) \/ Cds!PollFails(u) \/ Cds!Summarize(u)
      PROVE  Units'
  <2>1. /\ stage[u] \in {"polling", "summary"}
        /\ \/ stage' = stage
           \/ \E s \in {"summary", "error", "ok"} : stage' = [stage EXCEPT ![u] = s]
        /\ UNCHANGED <<Cds!setting, cdsPhase, part, cdsOutcome>>
    BY <1>8 DEF Cds!PollEnds, Cds!PollRunning, Cds!PollFails, Cds!Summarize
  <2> QED
    BY <1>4, <1>5, <2>1
<1>9. ASSUME NEW u \in Cds!Unit, Cds!PostProceeds(u) \/ Cds!Application(u) PROVE Units'
  BY <1>5, <1>9 DEF Cds!PostProceeds, Cds!Application, Cds!JobStarts, Cds!JobEnds,
     Cds!JobFails, Cds!TaskGoesOn
<1> QED
  BY <1>1, <1>2, <1>3, <1>6, <1>7, <1>8, <1>9
     DEF Cds!Next, Cds!GoesOn, Cds!Submit, Cds!Poll

LEMMA PostedNext == CdsInv /\ Cds!Next => Posted'
<1> SUFFICES ASSUME CdsInv, Cds!Next PROVE Posted'
  OBVIOUS
<1>a. /\ CdsTyped /\ UnitRequests /\ CdsP!IInv /\ CdsP!TypeInv /\ Units /\ Posted
      /\ stage \in [Cds!Unit -> {"none", "queued", "posting", "polling", "summary"} \cup Cds!Over]
      /\ cdsJob \in [Cds!Unit -> Cds!JobStatus \cup {"none"}]
      /\ \A u \in Cds!Unit : cdsRequest[u].acted \in {0, 1}
  BY DEF CdsInv, CdsTyped, Cds!TypeOK, UnitRequests, CdsP!IInv, CdsP!NotYetActed
<1>b. UNCHANGED Cds!setting =>
        /\ \A u : Cds!Needed(u)' <=> Cds!Needed(u)
        /\ cdsCommand' = cdsCommand
  BY SameParts DEF Cds!setting
<1> DEFINE P(u) ==
      /\ Cds!R!Pending(u) => stage[u] = "posting"
      /\ stage[u] = "posting" => cdsRequest[u].state # "idle"
      /\ stage[u] \in {"none", "queued"} => cdsRequest[u].acted = 0
      /\ stage[u] \in {"polling", "summary"} =>
           cdsRequest[u].acted = 1 /\ cdsCommand.name \in Cds!Upgrades
      /\ stage[u] = "ok" /\ Cds!Needed(u) => cdsRequest[u].acted = 1
      /\ cdsRequest[u].acted = 0 => cdsJob[u] = "none"
      /\ cdsRequest[u].acted = 1 /\ cdsCommand.name \in Cds!Upgrades => cdsJob[u] # "none"
<1>c. Posted <=> \A u \in Cds!Unit : P(u)
  BY DEF Posted
<1>d. (\A u \in Cds!Unit : P(u)') => Posted'
  BY DEF Posted
\* A unit that nothing happens to.
<1>e. ASSUME NEW u \in Cds!Unit, UNCHANGED Cds!setting, stage'[u] = stage[u],
             cdsRequest'[u] = cdsRequest[u], cdsJob'[u] = cdsJob[u]
      PROVE  P(u)'
  BY <1>a, <1>b, <1>c, <1>e DEF Cds!R!Pending
<1> HIDE DEF P
<1>1. CASE Cds!Start
  <2> SUFFICES ASSUME NEW u \in Cds!Unit PROVE P(u)'
    BY <1>d
  <2>1. /\ stage'[u] = IF Cds!Needed(u) THEN "queued" ELSE "ok"
        /\ UNCHANGED <<Cds!setting, cdsRequest, cdsJob>>
        /\ stage[u] = "none"
    BY <1>1, <1>a DEF Cds!Start, Cds!server, Units
  <2>2. /\ cdsRequest[u].acted = 0 /\ cdsJob[u] = "none" /\ ~Cds!R!Pending(u)
    BY <1>a, <2>1 DEF Posted
  <2> QED
    BY <1>b, <2>1, <2>2 DEF P, Cds!R!Pending
<1>2. CASE Cds!StartFails \/ Cds!Return
  BY <1>2, <1>d, <1>e DEF Cds!StartFails, Cds!Return, Cds!server
<1>3. ASSUME NEW u \in Cds!Unit, Cds!Post(u) PROVE Posted'
  <2>1. /\ stage[u] = "queued" /\ stage' = [stage EXCEPT ![u] = "posting"]
        /\ UNCHANGED <<Cds!setting, cdsJob>>
    BY <1>3 DEF Cds!Post, Cds!server
  <2>2. /\ cdsRequest'[u].state = "sent" /\ cdsRequest'[u].acted = cdsRequest[u].acted
        /\ \A d \in Cds!Unit \ {u} : cdsRequest'[d] = cdsRequest[d]
    BY <1>3, <1>a, CdsRequests, CdsP!SendMoves DEF Cds!Post
  <2>3. P(u)'
    <3>1. cdsRequest[u].acted = 0 /\ cdsJob[u] = "none"
      BY <1>a, <2>1 DEF Posted
    <3> QED
      BY <1>a, <1>b, <2>1, <2>2, <3>1 DEF P, Cds!R!Pending
  <2>4. \A v \in Cds!Unit \ {u} : P(v)'
    BY <1>a, <1>e, <2>1, <2>2
  <2> QED
    BY <1>d, <2>3, <2>4
<1>4. ASSUME NEW u \in Cds!Unit, Cds!PostProceeds(u) PROVE Posted'
  <2>1. /\ CdsP!Pending(u) /\ cdsRequest[u].acted = 0
        /\ cdsRequest'[u].state # "idle"
        /\ \A d \in Cds!Unit \ {u} : cdsRequest'[d] = cdsRequest[d]
    BY <1>4, <1>a, CdsRequests, CdsP!ProceedMoves DEF Cds!PostProceeds
  <2>2. cdsRequest'[u].acted \in {0, 1}
    <3>1. UnitRequests'
      BY <1>4, <1>a, UnitRequestsNext DEF Cds!PostProceeds
    <3> QED
      BY <3>1 DEF UnitRequests, CdsP!IInv, CdsP!NotYetActed
  <2>3. stage[u] = "posting" /\ cdsJob[u] = "none"
    BY <1>a, <2>1, CdsRequests DEF Posted
  <2>4. /\ UNCHANGED <<Cds!setting, stage>>
        /\ \A v \in Cds!Unit \ {u} : cdsJob'[v] = cdsJob[v]
        /\ IF cdsRequest'[u].acted # 0 /\ cdsCommand.name \in Cds!Upgrades
           THEN cdsJob'[u] = "QUEUED" ELSE cdsJob'[u] = "none"
    BY <1>4, <1>a, <2>1, <2>3 DEF Cds!PostProceeds, Cds!server
  <2>5. P(u)'
    <3>1. /\ cdsRequest'[u].acted = 0 => cdsJob'[u] = "none"
          /\ cdsRequest'[u].acted = 1 /\ cdsCommand.name \in Cds!Upgrades => cdsJob'[u] # "none"
      BY <2>4
    <3> QED
      BY <1>b, <2>1, <2>3, <2>4, <3>1 DEF P
  <2>6. \A v \in Cds!Unit \ {u} : P(v)'
    BY <1>e, <2>1, <2>4
  <2> QED
    BY <1>d, <2>5, <2>6
\* The stage of a unit that has been posted goes on.
<1>5. ASSUME NEW u \in Cds!Unit, UNCHANGED <<Cds!setting, cdsRequest, cdsJob>>,
             stage[u] \in {"posting", "polling", "summary"}, ~Cds!R!Pending(u),
             NEW s \in {"polling", "summary", "ok", "error"}, stage' = [stage EXCEPT ![u] = s],
             s # "error" => cdsRequest[u].acted = 1,
             s \in {"polling", "summary"} => cdsCommand.name \in Cds!Upgrades
      PROVE  Posted'
  <2>1. P(u)'
    BY <1>5, <1>a, <1>b, <1>c DEF P, Cds!R!Pending
  <2>2. \A v \in Cds!Unit \ {u} : P(v)'
    BY <1>5, <1>a, <1>e
  <2> QED
    BY <1>d, <2>1, <2>2
<1>6. ASSUME NEW u \in Cds!Unit, NEW readable \in BOOLEAN, Cds!PostReturns(u, readable)
      PROVE  Posted'
  <2> DEFINE s == CASE Cds!R!Rejected(u) -> "error"
                    [] Cds!R!Resolved(u) /\ cdsCommand.name \notin Cds!Upgrades -> "ok"
                    [] Cds!R!Resolved(u) /\ cdsCommand.name \in Cds!Upgrades ->
                         IF readable THEN "polling" ELSE "error"
  <2>1. /\ Cds!R!Rejected(u) \/ Cds!R!Resolved(u)
        /\ Cds!R!Resolved(u) => cdsRequest[u].acted = 1
    <3>1. ~CdsP!Pending(u) /\ cdsRequest[u].state # "idle"
      BY <1>6, <1>a, CdsRequests DEF Cds!PostReturns, Posted
    <3> QED
      BY <1>a, <3>1, CdsRequests, CdsP!OverKnown
  <2>2. /\ s \in {"polling", "ok", "error"} /\ (s # "error" => Cds!R!Resolved(u))
        /\ s = "polling" => cdsCommand.name \in Cds!Upgrades
    BY <2>1
  <2>3. /\ stage[u] = "posting" /\ stage' = [stage EXCEPT ![u] = s] /\ ~Cds!R!Pending(u)
        /\ UNCHANGED <<Cds!setting, cdsRequest, cdsJob>>
    BY <1>6 DEF Cds!PostReturns, Cds!server
  <2> HIDE DEF s
  <2> QED
    BY <1>5, <2>1, <2>2, <2>3
<1>7. ASSUME NEW u \in Cds!Unit,
             Cds!PollEnds(u) \/ Cds!PollRunning(u) \/ Cds!PollFails(u) \/ Cds!Summarize(u)
      PROVE  Posted'
  <2>1. /\ stage[u] \in {"polling", "summary"}
        /\ \/ stage' = stage
           \/ \E s \in {"summary", "error", "ok"} : stage' = [stage EXCEPT ![u] = s]
        /\ UNCHANGED <<Cds!setting, cdsRequest, cdsJob>>
    BY <1>7 DEF Cds!PollEnds, Cds!PollRunning, Cds!PollFails, Cds!Summarize, Cds!server
  <2>2. /\ cdsRequest[u].acted = 1 /\ cdsCommand.name \in Cds!Upgrades /\ ~Cds!R!Pending(u)
    BY <1>a, <2>1 DEF Posted
  <2>3. CASE stage' = stage
    BY <1>d, <1>e, <2>1, <2>3
  <2> QED
    BY <1>5, <2>1, <2>2, <2>3
<1>8. ASSUME NEW u \in Cds!Unit, Cds!Application(u) PROVE Posted'
  <2>1. /\ UNCHANGED <<Cds!setting, cdsRequest, stage>>
        /\ \/ cdsJob' = cdsJob
           \/ /\ cdsJob[u] # "none"
              /\ \E s \in {"RUNNING", "FAILED", "FINISHED"} : cdsJob' = [cdsJob EXCEPT ![u] = s]
    BY <1>8 DEF Cds!Application, Cds!JobStarts, Cds!JobEnds, Cds!JobFails, Cds!TaskGoesOn
  <2>2. CASE cdsJob' = cdsJob
    BY <1>d, <1>e, <2>1, <2>2
  <2>3. ASSUME cdsJob[u] # "none", NEW s \in {"RUNNING", "FAILED", "FINISHED"},
               cdsJob' = [cdsJob EXCEPT ![u] = s]
        PROVE  Posted'
    <3>1. P(u)'
      BY <1>a, <1>b, <1>c, <2>1, <2>3 DEF P, Cds!R!Pending
    <3>2. \A v \in Cds!Unit \ {u} : P(v)'
      BY <1>a, <1>e, <2>1, <2>3
    <3> QED
      BY <1>d, <3>1, <3>2
  <2> QED
    BY <2>1, <2>2, <2>3
<1> QED
  BY <1>1, <1>2, <1>3, <1>4, <1>6, <1>7, <1>8
     DEF Cds!Next, Cds!GoesOn, Cds!Submit, Cds!Poll

LEMMA SeenNext == CdsInv /\ Cds!Next => Seen'
<1> SUFFICES ASSUME CdsInv, Cds!Next PROVE Seen'
  OBVIOUS
<1>a. /\ CdsTyped /\ UnitRequests /\ CdsP!IInv /\ Units /\ Posted /\ Seen
      /\ stage \in [Cds!Unit -> {"none", "queued", "posting", "polling", "summary", "ok", "error"}]
      /\ part \in [Cds!Unit -> SUBSET Cds!Tenant]
      /\ cdsJob \in [Cds!Unit -> Cds!JobStatus \cup {"none"}]
      /\ task \in [Cds!Tenant -> Cds!JobStatus \cup {"none"}]
      /\ seen \in [Cds!Unit -> [job : Cds!JobStatus \cup {"none"}, task : Cds!Tasks]]
  BY DEF CdsInv, CdsTyped, Cds!TypeOK, UnitRequests, Cds!Over, Cds!Tasks
<1>b. UNCHANGED Cds!setting =>
        /\ \A u : Cds!Needed(u)' <=> Cds!Needed(u)
        /\ cdsCommand' = cdsCommand
  BY SameParts DEF Cds!setting
<1>c. \A u, v \in Cds!Unit : \A t : t \in part[u] /\ t \in part[v] => u = v
  BY <1>a, PartsDisjoint
<1> DEFINE S(u) ==
      /\ cdsJob[u] = "FINISHED" =>
           \A t \in part[u] : task[t] \in {"FAILED", "FINISHED"}
      /\ stage[u] \in {"none", "queued", "posting"} =>
           seen[u].job = "none" /\ \A t \in Cds!Tenant : seen[u].task[t] = "none"
      /\ stage[u] = "summary" => seen[u].job # "none"
      /\ seen[u].job = "FINISHED" =>
           \A t \in part[u] : seen[u].task[t] \in {"FAILED", "FINISHED"}
      /\ \A t \in part[u] : seen[u].task[t] = "FINISHED" => task[t] = "FINISHED"
      /\ stage[u] = "ok" /\ Cds!Needed(u) /\ cdsCommand.name \in Cds!Upgrades =>
           ~Cds!HasError(u) /\ seen[u].job \notin {"none", "RUNNING"}
<1>d. (\A u \in Cds!Unit : S(u)') => Seen'
  BY DEF Seen
<1>e. \A u \in Cds!Unit : S(u)
  BY <1>a DEF Seen
\* A unit whose own tasks are the same.
<1>f. ASSUME NEW u \in Cds!Unit, UNCHANGED Cds!setting, part'[u] = part[u],
             \A t \in part[u] : task'[t] = task[t],
             stage'[u] = stage[u], seen'[u] = seen[u], cdsJob'[u] = cdsJob[u]
      PROVE  S(u)'
  <2>1. Cds!HasError(u)' <=> Cds!HasError(u)
    BY <1>f DEF Cds!HasError
  <2> QED
    BY <1>b, <1>e, <1>f, <2>1
<1> HIDE DEF S
<1>1. CASE Cds!Start
  <2> SUFFICES ASSUME NEW u \in Cds!Unit PROVE S(u)'
    BY <1>d
  <2>1. /\ stage'[u] = IF Cds!Needed(u) THEN "queued" ELSE "ok"
        /\ UNCHANGED <<Cds!setting, cdsRequest, cdsJob, seen, task>>
        /\ stage[u] = "none"
    BY <1>1, <1>a DEF Cds!Start, Cds!server, Cds!watch, Units
  <2>2. cdsJob[u] = "none"
    BY <1>a, <2>1 DEF Posted
  <2>3. seen[u].job = "none" /\ \A t \in Cds!Tenant : seen[u].task[t] = "none"
    BY <1>a, <2>1 DEF Seen
  <2>4. part'[u] \subseteq Cds!Tenant
    <3>1. Cds!Parts \in [Cds!Unit -> SUBSET Cds!Tenant]
      BY <1>a, PartsPartition DEF Units
    <3> QED
      BY <1>1, <3>1 DEF Cds!Start
  <2> QED
    BY <1>b, <2>1, <2>2, <2>3, <2>4 DEF S
<1>2. CASE Cds!StartFails \/ Cds!Return
  BY <1>2, <1>d, <1>f DEF Cds!StartFails, Cds!Return, Cds!server, Cds!watch
<1>3. ASSUME NEW u \in Cds!Unit, Cds!PostProceeds(u) PROVE Seen'
  <2>1. UNCHANGED <<Cds!setting, part, stage, seen>>
    BY <1>3 DEF Cds!PostProceeds, Cds!watch
  <2>2. stage[u] = "posting"
    <3>1. CdsP!Pending(u)
      BY <1>3, <1>a, CdsRequests, CdsP!ProceedMoves DEF Cds!PostProceeds
    <3> QED
      BY <1>a, <3>1, CdsRequests DEF Posted
  <2>3. /\ \A v \in Cds!Unit \ {u} : cdsJob'[v] = cdsJob[v]
        /\ \A t \in Cds!Tenant : t \notin part[u] => task'[t] = task[t]
        /\ cdsJob'[u] = "QUEUED" \/ (cdsJob'[u] = cdsJob[u] /\ task' = task)
    BY <1>3, <1>a DEF Cds!PostProceeds, Cds!server
  <2>4. S(u)'
    <3>1. seen[u].job = "none" /\ \A t \in part[u] : seen[u].task[t] = "none"
      BY <1>a, <2>2 DEF Seen
    <3>2. seen[u].job = "none" /\ \A t \in Cds!Tenant : seen[u].task[t] = "none"
      BY <1>a, <2>2 DEF Seen
    <3>3. cdsJob'[u] = "FINISHED" =>
             \A t \in part[u] : task'[t] \in {"FAILED", "FINISHED"}
      BY <1>e, <2>3 DEF S
    <3> QED
      BY <2>1, <2>2, <3>1, <3>2, <3>3 DEF S
  <2>5. ASSUME NEW v \in Cds!Unit \ {u} PROVE S(v)'
    <3>1. \A t \in part[v] : task'[t] = task[t]
      BY <1>a, <1>c, <2>3
    <3> QED
      BY <1>f, <2>1, <2>3, <3>1
  <2> QED
    BY <1>d, <2>4, <2>5
\* The stage of a unit goes on without a poll, or with its last one.
<1>4. ASSUME NEW u \in Cds!Unit, UNCHANGED <<Cds!setting, part, task, cdsJob, seen>>,
             NEW s \in {"posting", "polling", "ok", "error"}, stage' = [stage EXCEPT ![u] = s],
             s = "posting" => stage[u] = "queued",
             s = "ok" /\ cdsCommand.name \in Cds!Upgrades =>
                ~Cds!HasError(u) /\ seen[u].job \notin {"none", "RUNNING"}
      PROVE  Seen'
  <2>1. ASSUME NEW v \in Cds!Unit \ {u} PROVE S(v)'
    BY <1>4, <1>a, <1>f, <2>1
  <2>2. Cds!HasError(u)' <=> Cds!HasError(u)
    BY <1>4 DEF Cds!HasError
  <2>3. stage'[u] = s
    BY <1>4, <1>a
  <2>4. S(u)'
    BY <1>4, <1>b, <1>e, <2>2, <2>3 DEF S
  <2> QED
    BY <1>d, <2>1, <2>4
<1>g. ASSUME NEW u \in Cds!Unit, UNCHANGED <<Cds!setting, part, task, cdsJob>>,
             stage[u] = "polling", stage' = [stage EXCEPT ![u] = "summary"],
             seen' = [seen EXCEPT ![u] = Cds!SeenNow(u)]
      PROVE  Seen'
  <2>1. ASSUME NEW v \in Cds!Unit \ {u} PROVE S(v)'
    BY <1>g, <1>a, <1>f, <2>1
  <2>2. seen'[u] = Cds!SeenNow(u) /\ stage'[u] = "summary"
    BY <1>g, <1>a
  <2>3. /\ seen'[u].job = cdsJob[u]
        /\ \A t \in part[u] : seen'[u].task[t] = task[t]
    BY <1>a, <2>2 DEF Cds!SeenNow
  <2>4. cdsJob[u] # "none"
    BY <1>g, <1>a DEF Posted
  <2>5. S(u)'
    BY <1>g, <1>e, <2>2, <2>3, <2>4 DEF S
  <2> QED
    BY <1>d, <2>1, <2>5
<1>5. ASSUME NEW u \in Cds!Unit, Cds!Post(u) PROVE Seen'
  BY <1>4, <1>5 DEF Cds!Post, Cds!server, Cds!watch
<1>6. ASSUME NEW u \in Cds!Unit, NEW readable \in BOOLEAN, Cds!PostReturns(u, readable)
      PROVE  Seen'
  <2> DEFINE s == CASE Cds!R!Rejected(u) -> "error"
                    [] Cds!R!Resolved(u) /\ cdsCommand.name \notin Cds!Upgrades -> "ok"
                    [] Cds!R!Resolved(u) /\ cdsCommand.name \in Cds!Upgrades ->
                         IF readable THEN "polling" ELSE "error"
  <2>1. /\ Cds!R!Rejected(u) \/ Cds!R!Resolved(u)
        /\ ~(Cds!R!Resolved(u) /\ Cds!R!Rejected(u))
    <3>1. ~CdsP!Pending(u) /\ cdsRequest[u].state # "idle"
      BY <1>6, <1>a, CdsRequests DEF Cds!PostReturns, Posted
    <3> QED
      BY <1>a, <3>1, CdsRequests, CdsP!OverKnown DEF UnitRequests
  <2>2. s \in {"polling", "ok", "error"} /\ (s = "ok" => cdsCommand.name \notin Cds!Upgrades)
    BY <2>1
  <2>3. /\ stage' = [stage EXCEPT ![u] = s]
        /\ UNCHANGED <<Cds!setting, part, task, cdsJob, seen>>
    BY <1>6 DEF Cds!PostReturns, Cds!server, Cds!watch
  <2> HIDE DEF s
  <2> QED
    BY <1>4, <2>2, <2>3
<1>7. ASSUME NEW u \in Cds!Unit, Cds!PollEnds(u) \/ Cds!PollFails(u) PROVE Seen'
  <2>1. CASE Cds!PollEnds(u)
    BY <1>g, <2>1 DEF Cds!PollEnds, Cds!server
  <2>2. CASE Cds!PollFails(u)
    BY <1>4, <2>2 DEF Cds!PollFails, Cds!server
  <2> QED
    BY <1>7, <2>1, <2>2
<1>8. ASSUME NEW u \in Cds!Unit, Cds!PollRunning(u) PROVE Seen'
  <2>1. /\ stage[u] = "polling"
        /\ \/ stage' = [stage EXCEPT ![u] = "summary"]
              /\ seen' = [seen EXCEPT ![u] = Cds!SeenNow(u)]
           \/ UNCHANGED <<stage, seen>>
        /\ UNCHANGED <<Cds!setting, part, task, cdsJob>>
    BY <1>8 DEF Cds!PollRunning, Cds!server
  <2>2. CASE UNCHANGED <<stage, seen>>
    BY <1>d, <1>f, <2>1, <2>2
  <2> QED
    BY <1>g, <2>1, <2>2
<1>9. ASSUME NEW u \in Cds!Unit, Cds!Summarize(u) PROVE Seen'
  <2>1. /\ stage[u] = "summary"
        /\ stage' = [stage EXCEPT ![u] =
                        IF Cds!HasError(u) \/ seen[u].job = "RUNNING" THEN "error" ELSE "ok"]
        /\ UNCHANGED <<Cds!setting, part, task, cdsJob, seen>>
    BY <1>9 DEF Cds!Summarize, Cds!server, Cds!HasChangeTimeout
  <2>2. seen[u].job # "none"
    BY <1>a, <2>1 DEF Seen
  <2>3. CASE Cds!HasError(u) \/ seen[u].job = "RUNNING"
    BY <1>4, <2>1, <2>3
  <2>4. CASE ~(Cds!HasError(u) \/ seen[u].job = "RUNNING")
    <3>1. stage' = [stage EXCEPT ![u] = "ok"]
      BY <2>1, <2>4
    <3>2. ~Cds!HasError(u) /\ seen[u].job \notin {"none", "RUNNING"}
      BY <2>2, <2>4
    <3> QED
      BY <1>4, <2>1, <3>1, <3>2
  <2> QED
    BY <2>3, <2>4
<1>10. ASSUME NEW u \in Cds!Unit, Cds!JobStarts(u) \/ Cds!JobEnds(u) \/ Cds!JobFails(u)
       PROVE  Seen'
  <2>1. /\ UNCHANGED <<Cds!setting, part, task, stage, seen>>
        /\ \A v \in Cds!Unit \ {u} : cdsJob'[v] = cdsJob[v]
        /\ \/ cdsJob'[u] \in {"RUNNING", "FAILED"}
           \/ \A t \in part[u] : task[t] \in {"FAILED", "FINISHED"}
    BY <1>10, <1>a DEF Cds!JobStarts, Cds!JobEnds, Cds!JobFails, Cds!watch
  <2>2. Cds!HasError(u)' <=> Cds!HasError(u)
    BY <2>1 DEF Cds!HasError
  <2>3. S(u)'
    BY <1>b, <1>e, <2>1, <2>2 DEF S
  <2>4. \A v \in Cds!Unit \ {u} : S(v)'
    BY <1>f, <2>1
  <2> QED
    BY <1>d, <2>3, <2>4
<1>11. ASSUME NEW u \in Cds!Unit, NEW t \in Cds!Tenant, NEW status \in Cds!JobStatus,
              Cds!TaskGoesOn(u, t, status)
       PROVE  Seen'
  <2>1. /\ cdsJob[u] = "RUNNING" /\ t \in part[u] /\ task[t] \in {"QUEUED", "RUNNING"}
        /\ \A x \in Cds!Tenant \ {t} : task'[x] = task[x]
        /\ UNCHANGED <<Cds!setting, part, cdsJob, stage, seen>>
    BY <1>11, <1>a DEF Cds!TaskGoesOn
  <2>2. Cds!HasError(u)' <=> Cds!HasError(u)
    BY <2>1 DEF Cds!HasError
  <2>3. S(u)'
    <3>1. \A x \in part[u] : seen[u].task[x] = "FINISHED" => task'[x] = "FINISHED"
      BY <1>a, <1>e, <2>1 DEF S
    <3> QED
      BY <1>b, <1>e, <2>1, <2>2, <3>1 DEF S
  <2>4. ASSUME NEW v \in Cds!Unit \ {u} PROVE S(v)'
    <3>1. \A x \in part[v] : task'[x] = task[x]
      BY <1>a, <1>c, <2>1
    <3> QED
      BY <1>f, <2>1, <3>1
  <2> QED
    BY <1>d, <2>3, <2>4
<1> QED
  BY <1>1, <1>2, <1>3, <1>5, <1>6, <1>7, <1>8, <1>9, <1>10, <1>11
     DEF Cds!Next, Cds!GoesOn, Cds!Submit, Cds!Poll, Cds!Application

LEMMA WatchedNext == CdsInv /\ Cds!Next => Watched'
<1> SUFFICES ASSUME CdsInv, Cds!Next PROVE Watched'
  OBVIOUS
<1>a. /\ CdsTyped /\ UnitRequests /\ CdsP!IInv /\ CdsP!TypeInv /\ Units /\ Posted /\ Watched
      /\ stage \in [Cds!Unit -> {"none", "queued", "posting", "polling", "summary", "ok", "error"}]
      /\ part \in [Cds!Unit -> SUBSET Cds!Tenant]
      /\ task \in [Cds!Tenant -> Cds!JobStatus \cup {"none"}]
      /\ summary \in [Cds!Unit -> {<<>>} \cup (Nat \X Nat \X Nat \X Nat)]
      /\ unchanged \in [Cds!Unit -> 0..ChangeTimeout]
      /\ stalled \in [Cds!Unit -> 0..ChangeTimeout + 1]
      /\ ChangeTimeout \in Nat \ {0}
  BY CdsAssumption DEF CdsInv, CdsTyped, Cds!TypeOK, UnitRequests, Cds!Over, Cds!Tasks
<1>c. \A u, v \in Cds!Unit : \A t : t \in part[u] /\ t \in part[v] => u = v
  BY <1>a, PartsDisjoint
<1> DEFINE W(u) ==
      /\ stage[u] \notin {"polling", "summary"} =>
           summary[u] = <<>> /\ unchanged[u] = 0 /\ stalled[u] = 0
      /\ stage[u] = "polling" => unchanged[u] < ChangeTimeout
      /\ stage[u] = "polling" /\ summary[u] # <<>> =>
           /\ Weight(summary[u]) <= Weight(Cds!TaskSummary(u))
           /\ \/ stalled[u] > unchanged[u]
              \/ Weight(summary[u]) < Weight(Cds!TaskSummary(u))
      /\ unchanged[u] >= ChangeTimeout => stalled[u] > ChangeTimeout
<1>d. (\A u \in Cds!Unit : W(u)') => Watched'
  BY DEF Watched
<1>e. \A u \in Cds!Unit : W(u)
  BY <1>a DEF Watched
\* A unit whose own tasks are the same, or which is not polled.
<1>f. ASSUME NEW u \in Cds!Unit, summary'[u] = summary[u], unchanged'[u] = unchanged[u],
             stalled'[u] = stalled[u], stage'[u] = stage[u],
             stage[u] = "polling" => part'[u] = part[u] /\ \A t \in part[u] : task'[t] = task[t]
      PROVE  W(u)'
  <2>1. CASE stage[u] = "polling"
    <3>1. Cds!TaskSummary(u)' = Cds!TaskSummary(u)
      BY <1>f, <2>1, SameSummary
    <3>2. Weight(summary[u])' = Weight(summary[u])
          /\ Weight(Cds!TaskSummary(u))' = Weight(Cds!TaskSummary(u))
      BY <1>f, <3>1 DEF Weight
    <3> QED
      BY <1>e, <1>f, <2>1, <3>2
  <2>2. CASE stage[u] # "polling"
    BY <1>e, <1>f, <2>2
  <2> QED
    BY <2>1, <2>2
<1> HIDE DEF W
<1>1. CASE Cds!Start
  <2> SUFFICES ASSUME NEW u \in Cds!Unit PROVE W(u)'
    BY <1>d
  <2>1. /\ stage'[u] \in {"queued", "ok"} /\ stage[u] = "none"
        /\ UNCHANGED <<summary, unchanged, stalled>>
    BY <1>1, <1>a DEF Cds!Start, Cds!watch, Units
  <2>2. summary[u] = <<>> /\ unchanged[u] = 0 /\ stalled[u] = 0
    BY <1>a, <2>1 DEF Watched
  <2>3. ~(0 >= ChangeTimeout)
    BY <1>a
  <2> QED
    BY <2>1, <2>2, <2>3 DEF W
<1>2. CASE Cds!StartFails \/ Cds!Return
  BY <1>2, <1>d, <1>f DEF Cds!StartFails, Cds!Return, Cds!server, Cds!watch
\* The polling loop begins, or the stage is another one without it.
<1>3. ASSUME NEW u \in Cds!Unit, UNCHANGED <<part, task, summary, unchanged, stalled>>,
             stage[u] \notin {"polling", "summary"}, NEW s, s # "summary",
             stage' = [stage EXCEPT ![u] = s]
      PROVE  Watched'
  <2>1. summary[u] = <<>> /\ unchanged[u] = 0 /\ stalled[u] = 0 /\ ~(0 >= ChangeTimeout)
        /\ 0 < ChangeTimeout
    BY <1>3, <1>a DEF Watched
  <2>2. W(u)'
    BY <1>3, <1>a, <2>1 DEF W
  <2>3. \A v \in Cds!Unit \ {u} : W(v)'
    BY <1>3, <1>a, <1>f
  <2> QED
    BY <1>d, <2>2, <2>3
<1>4. ASSUME NEW u \in Cds!Unit, Cds!Post(u) PROVE Watched'
  BY <1>3, <1>4 DEF Cds!Post, Cds!server, Cds!watch
<1>5. ASSUME NEW u \in Cds!Unit, Cds!PostProceeds(u) PROVE Watched'
  <2>1. stage[u] = "posting"
    <3>1. CdsP!Pending(u)
      BY <1>5, <1>a, CdsRequests, CdsP!ProceedMoves DEF Cds!PostProceeds
    <3> QED
      BY <1>a, <3>1, CdsRequests DEF Posted
  <2>2. /\ UNCHANGED <<part, stage, summary, unchanged, stalled>>
        /\ \A t \in Cds!Tenant : t \notin part[u] => task'[t] = task[t]
    BY <1>5, <1>a DEF Cds!PostProceeds, Cds!server, Cds!watch
  <2>3. ASSUME NEW v \in Cds!Unit PROVE W(v)'
    <3>1. stage[v] = "polling" => \A t \in part[v] : task'[t] = task[t]
      BY <1>a, <1>c, <2>1, <2>2
    <3> QED
      BY <1>f, <2>2, <3>1
  <2> QED
    BY <1>d, <2>3
<1>6. ASSUME NEW u \in Cds!Unit, NEW readable \in BOOLEAN, Cds!PostReturns(u, readable)
      PROVE  Watched'
  <2> DEFINE s == CASE Cds!R!Rejected(u) -> "error"
                    [] Cds!R!Resolved(u) /\ cdsCommand.name \notin Cds!Upgrades -> "ok"
                    [] Cds!R!Resolved(u) /\ cdsCommand.name \in Cds!Upgrades ->
                         IF readable THEN "polling" ELSE "error"
  <2>1. Cds!R!Rejected(u) \/ Cds!R!Resolved(u)
    <3>1. ~CdsP!Pending(u) /\ cdsRequest[u].state # "idle"
      BY <1>6, <1>a, CdsRequests DEF Cds!PostReturns, Posted
    <3> QED
      BY <1>a, <3>1, CdsRequests, CdsP!OverKnown
  <2>2. s # "summary"
    BY <2>1
  <2>3. /\ stage' = [stage EXCEPT ![u] = s] /\ stage[u] = "posting"
        /\ UNCHANGED <<part, task, summary, unchanged, stalled>>
    BY <1>6 DEF Cds!PostReturns, Cds!server, Cds!watch
  <2> HIDE DEF s
  <2> QED
    BY <1>3, <2>2, <2>3
<1>7. ASSUME NEW u \in Cds!Unit, Cds!PollEnds(u) PROVE Watched'
  <2>1. /\ stage' = [stage EXCEPT ![u] = "summary"]
        /\ UNCHANGED <<part, task, summary, unchanged, stalled>>
    BY <1>7 DEF Cds!PollEnds, Cds!server
  <2>2. unchanged[u] >= ChangeTimeout => stalled[u] > ChangeTimeout
    BY <1>a DEF Watched
  <2>3. W(u)'
    BY <1>a, <2>1, <2>2 DEF W
  <2>4. \A v \in Cds!Unit \ {u} : W(v)'
    BY <1>a, <1>f, <2>1
  <2> QED
    BY <1>d, <2>3, <2>4
<1>8. ASSUME NEW u \in Cds!Unit, Cds!PollRunning(u) PROVE Watched'
  <2> DEFINE age == IF summary[u] # Cds!TaskSummary(u) THEN 0 ELSE unchanged[u] + 1
             rest == IF stalled[u] > ChangeTimeout THEN stalled[u] ELSE stalled[u] + 1
  <2>1. /\ stage[u] = "polling" /\ unchanged' = [unchanged EXCEPT ![u] = age]
        /\ IF age >= ChangeTimeout THEN stage' = [stage EXCEPT ![u] = "summary"]
                                   ELSE stage' = stage
        /\ summary' = [summary EXCEPT ![u] = Cds!TaskSummary(u)]
        /\ stalled' = [stalled EXCEPT ![u] = rest]
        /\ UNCHANGED <<part, task>>
    BY <1>8 DEF Cds!PollRunning, Cds!server
  <2>2. /\ unchanged'[u] = age /\ stalled'[u] = rest /\ summary'[u] = Cds!TaskSummary(u)
        /\ age >= ChangeTimeout => stage'[u] = "summary"
        /\ ~(age >= ChangeTimeout) => stage'[u] = "polling"
    BY <1>a, <2>1
  <2>3. unchanged[u] \in Nat /\ stalled[u] \in Nat /\ unchanged[u] < ChangeTimeout
    BY <1>a, <2>1 DEF Watched
  <2>4. summary[u] = Cds!TaskSummary(u) => stalled[u] > unchanged[u]
    <3>1. Cds!TaskSummary(u) # <<>> /\ Weight(Cds!TaskSummary(u)) \in Nat
      BY <1>a, SummaryType
    <3> SUFFICES ASSUME summary[u] = Cds!TaskSummary(u) PROVE stalled[u] > unchanged[u]
      OBVIOUS
    <3>2. Weight(summary[u]) = Weight(Cds!TaskSummary(u))
      OBVIOUS
    <3>3. \/ stalled[u] > unchanged[u]
          \/ Weight(summary[u]) < Weight(Cds!TaskSummary(u))
      BY <1>a, <2>1, <3>1 DEF Watched
    <3> QED
      BY <3>1, <3>2, <3>3
  <2>5. /\ age \in Nat /\ rest \in Nat
        /\ rest > age
        /\ age >= ChangeTimeout => rest > ChangeTimeout
    <3>1. CASE summary[u] # Cds!TaskSummary(u)
      BY <1>a, <2>3, <3>1
    <3>2. CASE summary[u] = Cds!TaskSummary(u)
      BY <1>a, <2>3, <2>4, <3>2
    <3> QED
      BY <3>1, <3>2
  <2>6. Cds!TaskSummary(u)' = Cds!TaskSummary(u)
    BY <2>1, SameSummary
  <2>7. /\ Weight(summary[u])' = Weight(Cds!TaskSummary(u))
        /\ Weight(Cds!TaskSummary(u))' = Weight(Cds!TaskSummary(u))
        /\ Weight(Cds!TaskSummary(u)) \in Nat
    BY <1>a, <2>2, <2>6, SummaryType DEF Weight
  <2> HIDE DEF age, rest
  <2>8. stage'[u] = "polling" => age < ChangeTimeout
    BY <1>a, <2>2, <2>5
  <2>9. W(u)'
    BY <2>2, <2>5, <2>7, <2>8 DEF W
  <2>10. \A v \in Cds!Unit \ {u} : W(v)'
    BY <1>a, <1>f, <2>1
  <2> QED
    BY <1>d, <2>9, <2>10
<1>9. ASSUME NEW u \in Cds!Unit, Cds!PollFails(u) \/ Cds!Summarize(u) PROVE Watched'
  <2>1. /\ \E s \in {"ok", "error"} : stage' = [stage EXCEPT ![u] = s]
        /\ summary' = [summary EXCEPT ![u] = <<>>] /\ unchanged' = [unchanged EXCEPT ![u] = 0]
        /\ stalled' = [stalled EXCEPT ![u] = 0]
        /\ UNCHANGED <<part, task>>
    BY <1>9 DEF Cds!PollFails, Cds!Summarize, Cds!LeaveLoop, Cds!server
  <2>2. /\ stage'[u] \in {"ok", "error"} /\ summary'[u] = <<>> /\ unchanged'[u] = 0
        /\ stalled'[u] = 0 /\ ~(0 >= ChangeTimeout)
    BY <1>a, <2>1
  <2>3. W(u)'
    BY <2>2 DEF W
  <2>4. \A v \in Cds!Unit \ {u} : W(v)'
    BY <1>a, <1>f, <2>1
  <2> QED
    BY <1>d, <2>3, <2>4
<1>10. ASSUME NEW u \in Cds!Unit, Cds!JobStarts(u) \/ Cds!JobEnds(u) \/ Cds!JobFails(u)
       PROVE  Watched'
  BY <1>10, <1>d, <1>f DEF Cds!JobStarts, Cds!JobEnds, Cds!JobFails, Cds!watch
<1>11. ASSUME NEW u \in Cds!Unit, NEW t \in Cds!Tenant, NEW status \in Cds!JobStatus,
              Cds!TaskGoesOn(u, t, status)
       PROVE  Watched'
  <2>1. /\ t \in part[u] /\ task' = [task EXCEPT ![t] = status]
        /\ <<task[t], status>> \in {<<"QUEUED", "RUNNING">>, <<"RUNNING", "FINISHED">>,
                                    <<"RUNNING", "FAILED">>}
        /\ stalled' = [stalled EXCEPT ![u] = IF stage[u] = "polling" THEN 0 ELSE @]
        /\ UNCHANGED <<part, stage, summary, unchanged>>
    BY <1>11 DEF Cds!TaskGoesOn, Cds!Progress
  <2>2. W(u)'
    <3>1. CASE stage[u] # "polling"
      BY <1>a, <1>f, <2>1, <3>1
    <3>2. CASE stage[u] = "polling"
      <4>1. Weight(Cds!TaskSummary(u))' = Weight(Cds!TaskSummary(u)) + 1
        BY <1>a, <2>1, TaskAddsOne
      <4>2. Weight(Cds!TaskSummary(u)) \in Nat
        BY <1>a, SummaryType
      <4>3. Weight(summary[u])' = Weight(summary[u])
        BY <2>1 DEF Weight
      <4>4. summary[u] # <<>> => Weight(summary[u]) \in Nat
        BY <1>a DEF Weight
      <4>5. unchanged[u] < ChangeTimeout /\ unchanged[u] \in Nat
        BY <1>a, <3>2 DEF Watched
      <4>6. summary[u] # <<>> => Weight(summary[u]) <= Weight(Cds!TaskSummary(u))
        BY <1>a, <3>2 DEF Watched
      <4>7. summary[u] # <<>> =>
              /\ Weight(summary[u])' <= Weight(Cds!TaskSummary(u))'
              /\ Weight(summary[u])' < Weight(Cds!TaskSummary(u))'
        BY <4>1, <4>2, <4>3, <4>4, <4>6
      <4>8. ~(unchanged[u] >= ChangeTimeout)
        BY <1>a, <4>5
      <4> QED
        BY <2>1, <3>2, <4>5, <4>7, <4>8 DEF W
    <3> QED
      BY <3>1, <3>2
  <2>3. ASSUME NEW v \in Cds!Unit \ {u} PROVE W(v)'
    <3>1. \A x \in part[v] : task'[x] = task[x]
      BY <1>a, <1>c, <2>1
    <3> QED
      BY <1>a, <1>f, <2>1, <3>1
  <2> QED
    BY <1>d, <2>2, <2>3
<1> QED
  BY <1>1, <1>2, <1>4, <1>5, <1>6, <1>7, <1>8, <1>9, <1>10, <1>11
     DEF Cds!Next, Cds!GoesOn, Cds!Submit, Cds!Poll, Cds!Application

LEMMA CdsNext == CdsInv /\ Cds!Next => CdsInv'
  BY CdsTypedNext, UnitsNext, PostedNext, SeenNext, WatchedNext DEF CdsInv

\* The properties of the commands.
LEMMA CdsSafe ==
    CdsInv => /\ Cds!TypeOK /\ Cds!R!ActedAtMostOnce
              /\ Cds!OkMeansDone /\ Cds!NothingAbandoned /\ Cds!GivenUpOnlyIfStalled
<1> SUFFICES ASSUME CdsInv
             PROVE  /\ Cds!TypeOK /\ Cds!R!ActedAtMostOnce
                    /\ Cds!OkMeansDone /\ Cds!NothingAbandoned /\ Cds!GivenUpOnlyIfStalled
  OBVIOUS
<1>a. /\ CdsTyped /\ Units /\ Posted /\ Seen /\ Watched /\ Cds!TypeOK
      /\ seen \in [Cds!Unit -> [job : Cds!JobStatus \cup {"none"}, task : Cds!Tasks]]
  BY DEF CdsInv, CdsTyped
<1>1. Cds!R!ActedAtMostOnce
  <2>1. \A u \in Cds!Unit : cdsRequest[u].acted \in {0, 1}
    BY <1>a DEF CdsTyped, UnitRequests, CdsP!IInv, CdsP!NotYetActed
  <2> QED
    BY <2>1 DEF Cds!R!ActedAtMostOnce
<1>2. Cds!GivenUpOnlyIfStalled
  BY <1>a DEF Cds!GivenUpOnlyIfStalled, Watched
<1>3. Cds!NothingAbandoned
  BY <1>a DEF Cds!NothingAbandoned, Units, Posted, Cds!Over
<1>4. Cds!OkMeansDone
  <2> SUFFICES ASSUME cdsOutcome = "ok", NEW t \in Cds!Asked
               PROVE  \E u \in Cds!Unit :
                        /\ Cds!IsSplit => u <= instances
                        /\ \A v \in Cds!Unit : t \in part[v] <=> v = u
                        /\ cdsRequest[u].acted = 1
                        /\ cdsCommand.name \in Cds!Upgrades =>
                             /\ seen[u].task[t] # "FAILED"
                             /\ seen[u].job \notin {"QUEUED", "FAILED"} => task[t] = "FINISHED"
    BY DEF Cds!OkMeansDone
  <2>1. part = Cds!Parts /\ \A u \in Cds!Unit : stage[u] = "ok"
    BY <1>a DEF Units
  <2>2. PICK u \in Cds!Unit : t \in Cds!Parts[u] /\ (Cds!IsSplit => u <= instances)
    BY <1>a, PartsPartition DEF Units
  <2>3. \A v \in Cds!Unit : t \in part[v] <=> v = u
    BY <1>a, <2>1, <2>2, PartsDisjoint
  <2>4. Cds!Needed(u)
    BY <2>2 DEF Cds!Needed
  <2>5. cdsRequest[u].acted = 1
    BY <1>a, <2>1, <2>4 DEF Posted
  <2>6. ASSUME cdsCommand.name \in Cds!Upgrades
        PROVE  /\ seen[u].task[t] # "FAILED"
               /\ seen[u].job \notin {"QUEUED", "FAILED"} => task[t] = "FINISHED"
    <3>1. ~Cds!HasError(u) /\ seen[u].job \notin {"none", "RUNNING"}
      BY <1>a, <2>1, <2>4, <2>6 DEF Seen
    <3>2. t \in part[u]
      BY <2>3
    <3>3. seen[u].task[t] # "FAILED"
      BY <3>1, <3>2 DEF Cds!HasError
    <3>4. ASSUME seen[u].job \notin {"QUEUED", "FAILED"} PROVE task[t] = "FINISHED"
      <4>1. seen[u].job = "FINISHED"
        BY <1>a, <3>1, <3>4 DEF Cds!JobStatus
      <4>2. seen[u].task[t] = "FINISHED"
        BY <1>a, <3>2, <3>3, <4>1 DEF Seen
      <4> QED
        BY <1>a, <3>2, <4>2 DEF Seen
    <3> QED
      BY <3>3, <3>4
  <2> QED
    BY <2>2, <2>3, <2>5, <2>6
<1> QED
  BY <1>1, <1>2, <1>3, <1>4, <1>a

-----------------------------------------------------------------------------
(* The process, which runs one of the commands                             *)

HttpInv == request = <<>> \/ (HttpP!IInv /\ HttpP!TypeInv /\ HttpP!Slept)

LEMMA HttpInit == request = <<>> \/ Http!Init => HttpInv
  BY HttpRequests, HttpP!InvInit, HttpP!TypeInit, HttpP!SleptInit, RequestAssumption DEF HttpInv

LEMMA HttpNext == HttpInv /\ RequestGoesOn => HttpInv'
<1> SUFFICES ASSUME HttpInv, RequestGoesOn PROVE HttpInv'
  OBVIOUS
<1>1. HttpP!IInv /\ HttpP!TypeInv /\ HttpP!Slept /\ HttpP!Next
  BY HttpRequests DEF HttpInv, RequestGoesOn, Http!Next, HttpP!Next
<1>2. /\ RetryMaxAttempts \in Nat \ {0} /\ RetrySleepBase \in Nat /\ RetryAfterMax \in Nat
      /\ Waits \subseteq Int
  BY RequestAssumption
<1>3. HttpP!IInv'
  BY <1>1, HttpP!InvNext
<1>4. HttpP!TypeInv'
  BY <1>1, <1>2, HttpP!TypeNext
<1>5. HttpP!Slept'
  BY <1>1, <1>2, HttpP!SleptNext
<1> QED
  BY <1>3, <1>4, <1>5 DEF HttpInv

\* Only one of the commands has steps; the others stay as they are.
LEMMA RegistrySame == RegistryInv /\ UNCHANGED registryVars => RegistryInv'
<1> SUFFICES ASSUME RegistryInv, UNCHANGED registryVars PROVE RegistryInv'
  OBVIOUS
<1>1. RegRequests'
  BY RegRequestsSame DEF RegistryInv, RegTyped, registryVars
<1>2. Registry!TypeOK'
  BY DEF RegistryInv, RegTyped, registryVars, Registry!TypeOK, Registry!R!TypeOK
<1>3. Calls'
  BY DEF RegistryInv, registryVars, Calls, CallsPend, MarksOfPhase, JobOfRequest, Successes,
     Registry!R!Pending, Registry!IsPoll
<1>4. Listed' /\ Selected'
  BY DEF RegistryInv, registryVars, Listed, Selected, Registry!Admissible, Registry!Callable,
     Registry!Filtered, Registry!Unique
<1> QED
  BY <1>1, <1>2, <1>3, <1>4 DEF RegistryInv, RegTyped

LEMMA CdsSame == CdsInv /\ UNCHANGED cdsVars => CdsInv'
<1> SUFFICES ASSUME CdsInv, UNCHANGED cdsVars PROVE CdsInv'
  OBVIOUS
<1>1. UnitRequests'
  BY UnitRequestsSame DEF CdsInv, CdsTyped, cdsVars
<1>2. CdsTyped'
  BY <1>1 DEF CdsInv, CdsTyped, cdsVars, Cds!TypeOK, Cds!R!TypeOK
<1>3. /\ Cds!Parts' = Cds!Parts
      /\ \A u : Cds!Needed(u)' <=> Cds!Needed(u)
      /\ \A u : Cds!HasError(u)' <=> Cds!HasError(u)
  BY SameParts DEF cdsVars, Cds!setting, Cds!HasError
<1>4. Units'
  BY <1>3 DEF CdsInv, cdsVars, Units
<1>5. Posted'
  BY <1>3 DEF CdsInv, cdsVars, Posted, Cds!R!Pending
<1>6. Seen'
  BY <1>3 DEF CdsInv, cdsVars, Seen
<1>7. Watched'
  <2>1. \A u : Cds!TaskSummary(u)' = Cds!TaskSummary(u)
    BY SameSummary DEF cdsVars
  <2>2. /\ \A u : Weight(Cds!TaskSummary(u))' = Weight(Cds!TaskSummary(u))
        /\ \A u : Weight(summary[u])' = Weight(summary[u])
    BY <2>1 DEF Weight, cdsVars
  <2> QED
    BY <2>2 DEF CdsInv, cdsVars, Watched
<1> QED
  BY <1>2, <1>4, <1>5, <1>6, <1>7 DEF CdsInv

LEMMA SvmSame == ServiceManagerInv /\ UNCHANGED svmVars => ServiceManagerInv'
  BY DEF ServiceManagerInv, svmVars, Svm!TypeOK, SingledOut, DeletionsOfPhase, Deletions,
     Svm!FilteredBindings, Svm!AllOver, Svm!AnyFailed

LEMMA HttpSame == HttpInv /\ UNCHANGED request => HttpInv'
  BY DEF HttpInv, HttpP!IInv, HttpP!Shaped, HttpP!NotYetActed, HttpP!TypeInv, HttpP!TypeOK,
     HttpP!AttemptLeft, HttpP!Resolved, HttpP!Slept

LEMMA HttpSafe == HttpInv => BoundedSleep
<1>1. Http!LongestSleep = HttpP!LongestSleep
  BY DEF Http!LongestSleep, HttpP!LongestSleep, Http!RetryFixedSleepTime,
         HttpP!RetryFixedSleepTime
<1>2. Http!BoundedSleep <=> HttpP!BoundedSleep
  BY <1>1 DEF Http!BoundedSleep, HttpP!BoundedSleep
<1>3. RetryMaxAttempts \in Nat \ {0} /\ RetrySleepBase \in Nat /\ RetryAfterMax \in Nat
  BY RequestAssumption
<1>4. HttpP!TypeInv /\ HttpP!Slept => HttpP!BoundedSleep
  BY <1>3, HttpP!SleptSafe
<1> QED
  BY <1>2, <1>4 DEF HttpInv, BoundedSleep

CommandInv == RegistryInv /\ CdsInv /\ ServiceManagerInv /\ HttpInv

LEMMA CommandInvInit == Init => CommandInv
  BY RegistryInvInit, CdsInit, SvmInit, HttpInit DEF Init, CommandInv

LEMMA CommandInvNext == CommandInv /\ [Next]_vars => CommandInv'
<1> SUFFICES ASSUME CommandInv, [Next]_vars PROVE CommandInv'
  OBVIOUS
<1>a. RegistryInv /\ CdsInv /\ ServiceManagerInv /\ HttpInv
  BY DEF CommandInv
<1>1. CASE Registry!Next /\ UNCHANGED <<cdsVars, svmVars, request>>
  BY <1>1, <1>a, RegistryInvNext, CdsSame, SvmSame, HttpSame DEF CommandInv
<1>2. CASE Cds!Next /\ UNCHANGED <<registryVars, svmVars, request>>
  BY <1>2, <1>a, RegistrySame, CdsNext, SvmSame, HttpSame DEF CommandInv
<1>3. CASE Svm!Next /\ UNCHANGED <<registryVars, cdsVars, request>>
  BY <1>3, <1>a, RegistrySame, CdsSame, SvmNext, HttpSame DEF CommandInv
<1>4. CASE RequestGoesOn /\ UNCHANGED <<registryVars, cdsVars, svmVars>>
  BY <1>4, <1>a, RegistrySame, CdsSame, SvmSame, HttpNext DEF CommandInv
<1>5. CASE UNCHANGED vars
  BY <1>5, <1>a, RegistrySame, CdsSame, SvmSame, HttpSame DEF CommandInv, vars
<1> QED
  BY <1>1, <1>2, <1>3, <1>4, <1>5 DEF Next

LEMMA CommandSafe ==
    CommandInv => /\ TypeOK /\ ActedAtMostOnce /\ BoundedSleep /\ OkMeansDone
                  /\ NothingAbandoned /\ DestroysOnlyMeant /\ GivenUpOnlyIfStalled
<1> SUFFICES ASSUME CommandInv
             PROVE  /\ TypeOK /\ ActedAtMostOnce /\ BoundedSleep /\ OkMeansDone
                    /\ NothingAbandoned /\ DestroysOnlyMeant /\ GivenUpOnlyIfStalled
  OBVIOUS
<1>1. request = <<>> \/ (Http!TypeOK /\ Http!ActedAtMostOnce)
  <2>1. ASSUME HttpP!IInv PROVE HttpP!ActedAtMostOnce
    <3>1. \A c \in Caller : request[c].acted \in {0, 1}
      BY <2>1 DEF HttpP!IInv, HttpP!NotYetActed
    <3> QED
      BY <3>1 DEF HttpP!ActedAtMostOnce
  <2> QED
    BY <2>1, HttpRequests DEF CommandInv, HttpInv, HttpP!TypeInv
<1> QED
  BY <1>1, HttpSafe, RegistrySafe, CdsSafe, SvmSafe
     DEF CommandInv, TypeOK, ActedAtMostOnce, OkMeansDone, NothingAbandoned, DestroysOnlyMeant,
         GivenUpOnlyIfStalled

LEMMA CommandInvAlways == Spec => []CommandInv
  BY CommandInvInit, CommandInvNext, PTL DEF Spec

\* The parts of the state of every command keep their types, however many
\* subscriptions, tenants, instances and attempts there are.
THEOREM CommandsTypeCorrect == Spec => []TypeOK
  BY CommandInvAlways, CommandSafe, PTL

\* No request of a command is carried out twice, although requests are retried.
THEOREM CommandsActOnce == Spec => []ActedAtMostOnce
  BY CommandInvAlways, CommandSafe, PTL

\* Whatever headers ask for, the sleeps of a request add up to no more than the
\* fixed times and the maximum allow for its number of attempts.
THEOREM SleepIsBounded == Spec => []BoundedSleep
  BY CommandInvAlways, CommandSafe, PTL

\* A command that reports success has changed every subscription, tenant or
\* item that it is about, on whatever page, source or app instance it was.
THEOREM SuccessIsComplete == Spec => []OkMeansDone
  BY CommandInvAlways, CommandSafe, PTL

\* One failure does not end a command while its other requests are pending, or
\* its other jobs and deletions are polled.
THEOREM NoneIsAbandoned == Spec => []NothingAbandoned
  BY CommandInvAlways, CommandSafe, PTL

\* Migrating and offboarding is for the only subscription of a tenant, and a
\* deletion for what the filters name, bindings before their instance.
THEOREM OthersAreSpared == Spec => []DestroysOnlyMeant
  BY CommandInvAlways, CommandSafe, PTL

\* The polling of an upgrade is given up only if no task went on meanwhile, although
\* it looks at nothing but the counts of the tasks.
THEOREM ProgressIsNoticed == Spec => []GivenUpOnlyIfStalled
  BY CommandInvAlways, CommandSafe, PTL
=============================================================================
