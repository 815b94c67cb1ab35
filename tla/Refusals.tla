---- MODULE Refusals ----
(***************************************************************************)
(* How the answers of one provider decide when it is called again: the     *)
(* status, the wording and the wait hints of a response (providers/base.py)*)
(* become an error kind and a quarantine, repeated refusals escalate it    *)
(* (Orchestrator._quarantine), and quota headers of a success cool the     *)
(* provider down (_note_rate_limit).                                       *)
(*                                                                         *)
(* Several calls of one user may be under way in one process, which counts *)
(* its own streak; the quarantine is in the database and shared with the   *)
(* other pods and the admin panel.  Quotas are per key; the                *)
(* chain of models, the breaker and the database are in modules Dispatch,  *)
(* CircuitBreaker and Reservation.  Waits are small numbers in the order   *)
(* of the code's.                                                          *)
(***************************************************************************)
EXTENDS Integers, Sequences, SequencesExt, FiniteSetsExt

CONSTANTS
    Calls,          \* calls that may be under way at once
    HttpResponses,  \* what the provider may answer
    DefaultWait,    \* RATE_LIMIT_DEFAULT_QUARANTINE_S, DEFAULT_RESET_S and
                    \* _RL_ESCALATION_BASE_S, a minute each
    EscalationMax,  \* _RL_ESCALATION_MAX_S
    DailyWait, BillingWait, AuthWait,
    MaxTime, MaxStreak  \* bounds

ASSUME WaitsAssumption ==
    /\ DefaultWait \in Nat \ {0} /\ EscalationMax \in Nat \ {0} /\ EscalationMax >= DefaultWait
    /\ DailyWait \in Nat \ {0} /\ BillingWait \in Nat \ {0} /\ AuthWait \in Nat \ {0}

VARIABLES
    time,
    under,    \* calls under way
    streak,   \* _rate_limit_streaks of the provider
    parked,   \* quarantined_until
    cooling,  \* _ModelCooldowns of the whole provider
    refused,  \* history: 429s since this process last had a success, or started
    quiet     \* history: until when the last refusals asked for silence

refusalsVars == <<time, under, streak, parked, cooling, refused, quiet>>

\* A number that may be missing, such as a hint: the set of it, or the empty set.
None == {}
Optional(numbers, S) == S \in SUBSET numbers /\ \A m, n \in S : m = n

\* A response: status, what its wording is about ("", "model", "billing" or
\* "daily"), Retry-After, the buckets of requests and of tokens in the order of
\* _REQUEST_HEADER_PAIRS and _TOKEN_HEADER_PAIRS, and retryDelay.  Of these,
\* only Retry-After may be negative.  A reset that is missing is zero.
Bucket(left, reset) == [left |-> left, reset |-> reset]

ASSUME ResponsesAssumption ==
    \A resp \in HttpResponses :
        /\ resp.status \in Nat
        /\ Optional(Int, resp.retryAfter) /\ Optional(Nat, resp.retryDelay)
        /\ resp.requests \in Seq([left : Int, reset : Nat])
        /\ resp.tokens \in Seq([left : Int, reset : Nat])

\* ---- providers/base.py ----

Classify(status, wording) ==
    IF status = 402 THEN "quota_exhausted"
    ELSE IF status \in 400 .. 499 /\ wording = "model" THEN "model_unavailable"
    ELSE IF status \in 400 .. 499 /\ wording = "billing" THEN "quota_exhausted"
    ELSE CASE status \in {401, 403} -> "auth"
           [] status = 404 -> "model_unavailable"
           [] status = 429 -> IF wording = "daily" THEN "quota_exhausted" ELSE "rate_limited"
           [] status \in (400 .. 499) \ {401, 403, 404, 429} -> "client_error"
           [] status \in 500 .. 599 -> "server_error"
           [] OTHER -> "unknown"

\* _tightest: the bucket with the fewest units left, the first of equals.
Tightest(buckets) ==
    LET least == Min({buckets[i].left : i \in DOMAIN buckets})
    IN buckets[Min({i \in DOMAIN buckets : buckets[i].left = least})]

\* RateLimitInfo.exhausted_for: a reset that is missing or zero is a minute.
BucketWaits(buckets) ==
    IF buckets = <<>> \/ Tightest(buckets).left > 0 THEN {}
    ELSE {IF Tightest(buckets).reset > 0 THEN Tightest(buckets).reset ELSE DefaultWait}

ExhaustedFor(resp) ==
    LET waits == BucketWaits(resp.requests) \cup BucketWaits(resp.tokens)
    IN IF waits = {} THEN None ELSE {Max(waits)}

\* _raise_for_status, retry_after_from_response: Retry-After counts for every
\* error, the other hints for refusals without it.
RetryAfter(resp, kind) ==
    IF resp.retryAfter # None THEN resp.retryAfter
    ELSE IF kind \notin {"rate_limited", "quota_exhausted"} THEN None
    ELSE IF ExhaustedFor(resp) # None THEN ExhaustedFor(resp)
    ELSE resp.retryDelay

\* Mutant: a hint of zero is taken at its word.
AnyHint(hint, default) == IF hint = None THEN {default} ELSE hint

\* A hint of zero is none; any other is honoured, a negative one too.
HintOr(hint, default) == IF hint \subseteq {0} THEN {default} ELSE hint

\* quarantine_seconds_for; None when the provider is not parked at all.
QuarantineFor(kind, status, hint) ==
    CASE kind = "rate_limited" -> HintOr(hint, DefaultWait)
      [] kind = "quota_exhausted" ->
            HintOr(hint, IF status = 402 THEN BillingWait ELSE DailyWait)
      [] kind = "auth" -> {AuthWait}
      [] OTHER -> None

\* ---- The orchestrator ----

Escalated(n) == Min({EscalationMax, DefaultWait * 2 ^ (n - 1)})

\* _quarantine: the second refusal in a row asks for two minutes or more.
Quarantine(kind, status, hint, nth) ==
    LET seconds == QuarantineFor(kind, status, hint)
    IN IF kind = "rate_limited" /\ nth >= 2 THEN {Max(seconds \cup {Escalated(nth)})} ELSE seconds

RefusalsInit ==
    /\ time = 0 /\ under = {} /\ streak = 0 /\ parked = 0 /\ cooling = 0
    /\ refused = 0 /\ quiet = 0

\* A provider that is parked or cooling is skipped.
Start(c) ==
    /\ c \notin under /\ parked <= time /\ cooling <= time
    /\ under' = under \cup {c}
    /\ UNCHANGED <<time, streak, parked, cooling, refused, quiet>>

\* A success forgets the streak and the quarantine, whatever other calls were
\* answered meanwhile.
Succeed(c, resp) ==
    /\ c \in under /\ under' = under \ {c}
    /\ streak' = 0 /\ parked' = 0
    /\ cooling' = Max({cooling} \cup {time + w : w \in ExhaustedFor(resp)})
    /\ refused' = 0 /\ quiet' = 0
    /\ UNCHANGED time

\* What a refusal asks for: more as the nth 429 in a row, whatever its hints say;
\* else some time, which a hint may make short and only a negative Retry-After
\* makes nothing.
Asks(resp, kind, nth) ==
    IF kind = "rate_limited" /\ nth > 1 THEN Min({EscalationMax, DefaultWait * 2 ^ (nth - 1)})
    ELSE IF kind = "auth" THEN 1
    ELSE IF kind \in {"rate_limited", "quota_exhausted"} /\ \A n \in resp.retryAfter : n >= 0 THEN 1
    ELSE 0

\* An error is recorded, unless the request fails and takes its transaction
\* with it: the streak in memory stays, the quarantine does not.
Refuse(c, resp, landed) ==
    LET kind == Classify(resp.status, resp.wording)
        limited == kind = "rate_limited"
        wait == Quarantine(kind, resp.status, RetryAfter(resp, kind), streak + 1)
    IN /\ c \in under /\ under' = under \ {c}
       /\ limited => streak < MaxStreak
       /\ streak' = IF limited THEN streak + 1 ELSE streak
       /\ parked' = IF landed THEN Max({parked} \cup {time + w : w \in wait}) ELSE parked
       /\ refused' = IF limited THEN refused + 1 ELSE refused
       /\ quiet' = IF landed THEN Max({quiet, time + Asks(resp, kind, refused')}) ELSE quiet
       /\ UNCHANGED <<time, cooling>>

ReceiveResponse(c, resp) ==
    IF resp.status < 400 THEN Succeed(c, resp) ELSE \E landed \in BOOLEAN : Refuse(c, resp, landed)

\* Somebody else clears the quarantine: an edit of the provider or its key
\* (reset_health), or a success of another pod.  The streak stays.
ClearedElsewhere ==
    /\ parked' = 0 /\ quiet' = 0
    /\ UNCHANGED <<time, under, streak, cooling, refused>>

\* The process starts again: its calls, streaks and cool-downs are gone, the
\* quarantine is not.
StartAgain ==
    /\ under' = {} /\ streak' = 0 /\ cooling' = 0 /\ refused' = 0
    /\ UNCHANGED <<time, parked, quiet>>

Elapse ==
    /\ time < MaxTime /\ time' = time + 1
    /\ UNCHANGED <<under, streak, parked, cooling, refused, quiet>>

RefusalsNext ==
    \/ Elapse \/ ClearedElsewhere \/ StartAgain
    \/ \E c \in Calls : Start(c) \/ \E resp \in HttpResponses : ReceiveResponse(c, resp)

RefusalsSpec == RefusalsInit /\ [][RefusalsNext]_refusalsVars

\* After a refusal that is recorded the provider is left alone: for a while, a
\* hint of zero included, unless its Retry-After is negative; and twice as long
\* for every further 429 in a row, whatever the hints, however the calls that
\* earned them overlap and whatever other errors come between.  Only a success
\* or an edit of the provider ends that; a restart ends the doubling, not the
\* silence.
LeftAlone == [][under' \ under # {} => time >= quiet]_refusalsVars
====
