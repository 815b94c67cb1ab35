---- MODULE CircuitBreaker ----
(***************************************************************************)
(* The health of one (user, provider) pair: how RateRepository.commit and  *)
(* reset_health move the provider_stats row, and when freeai_try_reserve   *)
(* lets a request through.                                                 *)
(*                                                                         *)
(* Module Reservation shows that the holder of the row lock is alone with  *)
(* the row from its reservation to the end of its transaction; here that   *)
(* holder is "caller", and the call may take any time.  Latencies, call    *)
(* totals, error texts and token counts of the row are left out.           *)
(***************************************************************************)
EXTENDS Integers, Sequences

CONSTANTS
    Configs,        \* breaker settings in use: the app_config of chat and the
                    \* defaults of commit() that embeddings run with
    Quarantine,     \* seconds a benign error may park the provider for
    MaxLevel,       \* the exponent of the backoff is capped here (20)
    Doubling,       \* Doubling[n] = 2^n
    MaxTrips,       \* bound: trips in a row
    MaxRecent,      \* bound: failures remembered by the history variable
    Horizon,        \* bound: no call is in progress after this time
    MaxClock        \* bound: the clock stops here, after every quarantine

Config == [threshold : Nat, window : Nat, base : Nat \ {0}, max : Nat]

ASSUME ConfigAssumption == Configs \subseteq Config
ASSUME DoublingAssumption ==
    /\ MaxLevel \in Nat
    /\ Doubling \in [0..MaxLevel -> Nat \ {0}]
    /\ Doubling[0] = 1
    /\ \A n \in 1..MaxLevel : Doubling[n] = 2 * Doubling[n - 1]
ASSUME BoundsAssumption ==
    /\ Quarantine \subseteq Nat \ {0}
    /\ MaxClock \in Nat \ {0} /\ Horizon \in 1..MaxClock
    /\ MaxTrips \in Nat
    /\ MaxRecent \in Nat \ {0} /\ \A cfg \in Configs : cfg.threshold <= MaxRecent

VARIABLES
    clock,
    row,        \* the provider_stats row
    calling,    \* a request holds the row lock and waits for the provider
    recent,     \* history: times of the latest breaker failures since the
                \* last success, reset or trip
    lastTrip    \* history: cooldown of the latest trip since the last success

vars == <<clock, row, calling, recent, lastTrip>>

Row == [healthy : BOOLEAN, until : Nat, streak : Nat, since : Nat, level : Nat]

NewRow == [healthy |-> TRUE, until |-> 0, streak |-> 0, since |-> 0, level |-> 0]

Init ==
    /\ clock = 1
    /\ row = NewRow
    /\ calling = FALSE
    /\ recent = <<>>
    /\ lastTrip = 0

Least(a, b) == IF a < b THEN a ELSE b
Greatest(a, b) == IF a < b THEN b ELSE a

\* Mutant: an unhealthy provider stays out until somebody resets it.
ParkedWhileUnhealthy(r, now) == r.until > now \/ ~r.healthy

\* Mutant: a quarantine binds only once the breaker has tripped.
ParkedIfTripped(r, now) == ~r.healthy /\ (r.until > now \/ r.until = 0)

\* When freeai_try_reserve refuses on health.
Parked(r, now) == r.until > now \/ (~r.healthy /\ r.until = 0)

AfterSuccess(r) == [r EXCEPT !.healthy = TRUE, !.until = 0, !.streak = 0,
                             !.since = 0, !.level = 0]

AfterBenign(r, q) == [r EXCEPT !.until = Greatest(@, clock + q)]

\* Mutant: a streak is a streak however old its first failure is.
StreakAgeless(r, cfg) == r.streak > 0 /\ r.since > 0

\* The failure at hand extends the current streak.
InStreak(r, cfg) == r.streak > 0 /\ r.since > 0 /\ clock - r.since <= cfg.window

Cooldown(r, cfg) == Least(cfg.max, cfg.base * Doubling[Least(r.level, MaxLevel)])

\* Mutant: the streak survives the trip it caused.
TrippedKeepingStreak(r, cfg) ==
    [r EXCEPT !.healthy = FALSE, !.until = clock + Cooldown(r, cfg),
              !.level = @ + 1, !.streak = @ + 1]

\* Mutant: the trip does not escalate the next cooldown.
TrippedFlat(r, cfg) ==
    [healthy |-> FALSE, until |-> clock + Cooldown(r, cfg), streak |-> 0,
     since |-> 0, level |-> r.level]

Tripped(r, cfg) ==
    [healthy |-> FALSE, until |-> clock + Cooldown(r, cfg), streak |-> 0,
     since |-> 0, level |-> r.level + 1]

NewStreak(r, cfg) == IF InStreak(r, cfg) THEN r.streak + 1 ELSE 1

Trips(r, cfg) == NewStreak(r, cfg) >= Greatest(1, cfg.threshold)

AfterFailure(r, cfg) ==
    IF Trips(r, cfg) THEN Tripped(r, cfg)
    ELSE [r EXCEPT !.streak = NewStreak(r, cfg),
                   !.since = IF InStreak(r, cfg) THEN @ ELSE clock]

\* Mutant: the quarantine is cleared, the health flag is not.
AfterResetOfQuarantine(r) == [r EXCEPT !.until = 0, !.streak = 0]

\* recent_failures_started_at and cooldown_level are not reset.
AfterReset(r) == [r EXCEPT !.healthy = TRUE, !.until = 0, !.streak = 0]

-----------------------------------------------------------------------------
\* freeai_try_reserve lets a request through.  It judges by the time its
\* transaction started, which is clock or earlier: an earlier time refuses
\* whatever clock refuses, so clock allows all that any stamp allows.
Reserve ==
    /\ ~calling
    /\ clock < Horizon
    /\ ~Parked(row, clock)
    /\ calling' = TRUE
    /\ UNCHANGED <<clock, row, recent, lastTrip>>

Succeed ==
    /\ calling
    /\ row' = AfterSuccess(row)
    /\ calling' = FALSE
    /\ recent' = <<>>
    /\ lastTrip' = 0
    /\ UNCHANGED clock

\* A benign error, which may come with a quarantine.
FailBenign ==
    /\ calling
    /\ row' \in {row} \cup {AfterBenign(row, q) : q \in Quarantine}
    /\ calling' = FALSE
    /\ UNCHANGED <<clock, recent, lastTrip>>

Remember(times) ==
    IF Len(times) < MaxRecent THEN Append(times, clock) ELSE Append(Tail(times), clock)

\* A failure that feeds the breaker.
Fail(cfg) ==
    /\ calling
    /\ Trips(row, cfg) => row.level < MaxTrips
    /\ row' = AfterFailure(row, cfg)
    /\ calling' = FALSE
    /\ recent' = IF Trips(row, cfg) THEN <<>> ELSE Remember(recent)
    /\ lastTrip' = IF Trips(row, cfg) THEN Cooldown(row, cfg) ELSE lastTrip
    /\ UNCHANGED clock

\* The transaction that made the call is rolled back: no other provider
\* answered, or the client left.
Undo ==
    /\ calling
    /\ calling' = FALSE
    /\ UNCHANGED <<clock, row, recent, lastTrip>>

\* reset_health; its UPDATE waits for the row lock.
ResetHealth ==
    /\ ~calling
    /\ row' = AfterReset(row)
    /\ recent' = <<>>
    /\ UNCHANGED <<clock, calling, lastTrip>>

Tick ==
    /\ clock < MaxClock
    /\ calling => clock < Horizon
    /\ clock' = clock + 1
    /\ UNCHANGED <<row, calling, recent, lastTrip>>

Next ==
    \/ Reserve \/ Succeed \/ FailBenign \/ Undo \/ ResetHealth \/ Tick
    \/ \E cfg \in Configs : Fail(cfg)

Spec == Init /\ [][Next]_vars

\* Time passes.  Nothing else is needed for a provider to come back.
FairSpec == Spec /\ WF_vars(Tick)

-----------------------------------------------------------------------------
\* Types; a streak is always shorter than the longest threshold, because the
\* failure that reaches it trips the breaker and starts over.
TypeOK ==
    /\ clock \in 1..MaxClock
    /\ row \in Row
    /\ row.streak = 0 \/ \E cfg \in Configs : row.streak < cfg.threshold
    /\ calling \in BOOLEAN
    /\ lastTrip \in Nat

\* The state in which freeai_try_reserve refuses for ever, unhealthy with no
\* quarantine to run out, is never reached.
NoLockout == ~row.healthy => row.until > 0

\* The breaker opens only on evidence: some setting's threshold of failures,
\* the one at hand included, fell within that setting's window, with no
\* success or reset between them.
TripJustified ==
    [][(row.healthy /\ ~row'.healthy) \/ row'.level > row.level =>
         \E cfg \in Configs :
            LET n == Greatest(1, cfg.threshold)
            IN  /\ Len(recent) >= n - 1
                /\ n > 1 => clock - recent[Len(recent) - n + 2] <= cfg.window]_vars

\* A quarantine is shortened by a success or an admin reset, never by another
\* error, however errors of different kinds follow each other.
NoEarlyRelease ==
    [][row'.until < row.until => row'.healthy /\ row'.until = 0 /\ row'.streak = 0]_vars

\* As long as no call succeeds, every trip parks the provider for longer than
\* the trip before it, until the cap, admin resets or not.  (Settings that
\* differ in threshold and window only: chat and embeddings share the rest
\* unless app_config changes it.)
BackoffEscalates ==
    [][\A cfg \in Configs :
         Fail(cfg) /\ Trips(row, cfg) /\ lastTrip > 0 =>
            row'.until - clock > lastTrip \/ row'.until - clock = cfg.max]_vars

\* No provider is out for ever: whatever parked it runs out on its own.
Recovers == Parked(row, clock) ~> ~Parked(row, clock)
====
