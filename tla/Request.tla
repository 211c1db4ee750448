------------------------------ MODULE Request ------------------------------
(***************************************************************************)
(* The function request of src/src/shared/request.js, as the modules of    *)
(* the commands use it: with the retry mode TOO_MANY_REQUESTS and the      *)
(* check of the status.  A request is sent up to RetryMaxAttempts times.   *)
(* Between two attempts it sleeps as long as the server asks for in a      *)
(* Retry-After header, up to a maximum, or else a time that doubles.       *)
(*                                                                         *)
(* The server and the network are external.  A server that answers with a  *)
(* good status has acted, one that asks to retry has not, and of any other *)
(* error or of a broken connection nobody can tell.                        *)
(***************************************************************************)
EXTENDS Integers

CONSTANTS
    Client,           \* who sends requests, one at a time each
    RetryMaxAttempts, \* RETRY_MAX_ATTEMPTS
    RetrySleepBase,   \* RETRY_SLEEP_BASE
    RetryAfterMax,    \* RETRY_AFTER_MAX_MS
    Waits             \* the times that headers ask for, relative to now

\* sent and sleeping while the promise is pending; slept: the time slept so far;
\* acted: how often the server has done what it was asked for
VARIABLE request

Good == {"ok", "accepted", "noContent"}
Status == Good \cup {"tooManyRequests", "error"}

TypeOK ==
    request \in [Client -> [state : {"idle", "sent", "sleeping", "rejected"} \cup Good,
                            attempt : 0..RetryMaxAttempts - 1, slept : Nat, acted : Nat]]

Init ==
    request = [c \in Client |-> [state |-> "idle", attempt |-> 0, slept |-> 0, acted |-> 0]]

-----------------------------------------------------------------------------
Pending(c) == request[c].state \in {"sent", "sleeping"}
Rejected(c) == request[c].state = "rejected"
Resolved(c) == request[c].state \in Good

\* Mutant of DoStopRetry: the mode ALL_FAILED.
DoStopWhenGood(status) == status \in Good

\* _doStopRetry in the mode TOO_MANY_REQUESTS.
DoStopRetry(status) == status # "tooManyRequests"

RetryFixedSleepTime(attempt) == RetrySleepBase * 2^attempt

\* The value of the first header that is present, also when it is of no use: a
\* time, which a date puts in the past at will.
HeaderValue == {<<"absent", 0>>, <<"malformed", 0>>} \cup {<<"time", wait>> : wait \in Waits}

\* Mutant of ParseRetryAfter: the server is taken by its word.
ParseUncapped(value) ==
    IF value[1] = "time" /\ value[2] > 0 THEN {value[2]} ELSE {}

\* The usable time of a header value, at most one.
ParseRetryAfter(value) ==
    IF value[1] = "time" /\ value[2] > 0
    THEN {IF value[2] < RetryAfterMax THEN value[2] ELSE RetryAfterMax}
    ELSE {}

\* How long the loop sleeps after an attempt: as the header says, or a fixed time.
SleepTime(attempt, value) ==
    IF ParseRetryAfter(value) = {} THEN RetryFixedSleepTime(attempt)
    ELSE CHOOSE wait \in ParseRetryAfter(value) : TRUE

\* Mutant of IsLastAttempt: the attempts are counted from one.
IsLastAttemptFromOne(attempt) == attempt = RetryMaxAttempts

IsLastAttempt(attempt) == attempt = RetryMaxAttempts - 1

Send(c) ==
    /\ request[c].state = "idle"
    /\ request' = [request EXCEPT ![c].state = "sent"]

Settled(c, state, acts) ==
    request' = [request EXCEPT ![c] = [state |-> state, attempt |-> 0, slept |-> 0,
                                       acted |-> @.acted + (IF acts THEN 1 ELSE 0)]]

\* A response that ends the loop: it is returned, or thrown when it is not good.
RespondFinally(c, status, acts) ==
    /\ request[c].state = "sent"
    /\ DoStopRetry(status) \/ IsLastAttempt(request[c].attempt)
    /\ status \in Good => acts
    /\ status = "tooManyRequests" => ~acts
    /\ Settled(c, IF status \in Good THEN status ELSE "rejected", acts)

\* A response that does not: it is followed by a sleep.
RespondRetry(c, status, acts, value) ==
    /\ request[c].state = "sent"
    /\ ~DoStopRetry(status) /\ ~IsLastAttempt(request[c].attempt)
    /\ status = "tooManyRequests" => ~acts
    /\ request' = [request EXCEPT ![c].state = "sleeping",
                                  ![c].slept = @ + SleepTime(request[c].attempt, value),
                                  ![c].acted = @ + (IF acts THEN 1 ELSE 0)]

\* The next attempt.
Wake(c) ==
    /\ request[c].state = "sleeping"
    /\ request' = [request EXCEPT ![c].state = "sent", ![c].attempt = @ + 1]

\* fetch throws, which no retry mode looks at.
Break(c, acts) ==
    /\ request[c].state = "sent"
    /\ Settled(c, "rejected", acts)

Proceed(c) ==
    \/ \E status \in Status, acts \in BOOLEAN : RespondFinally(c, status, acts)
    \/ \E status \in Status \ Good, acts \in BOOLEAN, value \in HeaderValue :
          RespondRetry(c, status, acts, value)
    \/ Wake(c)
    \/ \E acts \in BOOLEAN : Break(c, acts)

Next == \E c \in Client : Send(c) \/ Proceed(c)

\* Requests by themselves; the commands take these steps among their own.
Spec == Init /\ [][Next]_request

-----------------------------------------------------------------------------
(* Properties                                                              *)

\* A retry never repeats what the server may have done already, although
\* requests change things and are neither idempotent nor marked as retries.
ActedAtMostOnce == \A c \in Client : request[c].acted <= 1

\* The longest sleep before the given attempt.
LongestSleep[attempt \in Nat] ==
    IF attempt = 0 THEN 0
    ELSE LongestSleep[attempt - 1] +
         (IF RetryFixedSleepTime(attempt - 1) < RetryAfterMax
          THEN RetryAfterMax ELSE RetryFixedSleepTime(attempt - 1))

\* Whatever the headers ask for, a request has not slept longer than the fixed
\* times and the maximum of the header allow, and does not sleep after its last
\* attempt.
BoundedSleep == \A c \in Client : request[c].slept <= LongestSleep[RetryMaxAttempts - 1]
=============================================================================
