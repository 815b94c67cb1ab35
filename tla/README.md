# A verification project for FreeAI

FreeAI is a gateway in front of free-tier LLM providers. A client sends a chat
request; FreeAI ranks the user's providers, reserves a slot of the provider's
rate limit in PostgreSQL, calls the provider, records the outcome, and falls
back to the next model or provider when that failed. Several pods share one
database, and every pod runs many requests at once on one event loop.

This directory holds TLA+ models of that core, the TLC configurations that
check them, and proofs checked by TLAPS. `PROJECT.json` lists components, runs,
hazards, findings and theorems, and maps every definition to the lines it
models. Paths below are relative to `src/backend/app/` unless they start with
`src/`.

To check a run: `tlc -workers 2 -config Reservation_steady.cfg MCReservation`.
To check a proof: `tlapm ReservationProofs.tla`.

## The system

| Component | State | Operations | What is hard |
|---|---|---|---|
| Rate reservation (`freeai_try_reserve` in migration 0014, `repositories/rate_repo.py`) | `provider_stats` row and `rate_events` of a (user, provider) pair | reserve, commit, rollback | transactions of several pods interleave; the row may not exist; `NOW()` is old |
| Health and circuit breaker (`RateRepository.commit`, `reset_health`) | healthy, quarantined_until, streak, its start, cooldown_level | success, benign error, breaker failure, reset | any order of outcomes; boundaries of the window; a state that is refused for ever |
| Orchestrator, chat (`orchestrator.py`, `routers/chat.py`) | locals of the request; in memory: in-flight counters, cool-downs, 429 streaks | rank, candidate loop, model chain, retry, commit of an attempt, retry as auto | one transaction per request that holds row locks across upstream calls; cancellation; statements that fail and are swallowed |
| Orchestrator, streaming | the same, and the chunks held or sent | stream, idle timeout, client leaves | no fallback after the first chunk; the commit comes last |
| Strategies (`strategy_dsl.py`, `auto_strategy.py`, `_StrategyCache`) | strategies table, cache with a 5 s life | resolve, score, invalidate | a fill that overtakes an invalidation |
| Client admission (`security.py`, migration 0004) | clients, `client_rate_events`, an advisory lock | admit, revoke | the lock and its connection are held while the request needs a second connection |
| Engine and sessions (`db/`) | connection pool, 10 + overflow | check-out, commit, rollback | exhaustion, ten seconds of timeout; two sessions of one request that end separately |
| Setup, bootstrap token, master key (`bootstrap.py`, `crypto.py`, `routers/setup.py`, `lifecycle.py`) | two key files, a token file, the users table | first admin, promotion of the key | files and database are not one transaction: crashes in between |
| Accounts (`routers/auth.py`, `repositories/user_repo.py`) | users, refresh tokens, login attempts | register, log in, refresh, log out, reset, delete | two refreshes with one token; a reset in between |
| Analytics, rollup, purge (`lifecycle.py`, `repositories/usage_repo.py`) | `usage_events`, `usage_daily_rollup` | record, hourly rollup, purge | several pods; pods that were down for days |
| Catalogue and configuration (`repositories/config_repo.py`, `user_provider_repo.py`) | providers, user keys, app_config | seed, retire, edit (which resets health) | start-up of several pods |
| Embeddings, transcription | as chat | same reservation and breaker, simpler loop | breaker settings differ from those of chat |
| Responses API (`responses_api.py`, `response_store_repo.py`) | stored histories and items | convert, repair, store, chain, tell as events | two writers of one event protocol; told before stored; expiry |
| Provider adapters (`providers/`) | Gemini's signature cache; locals of a stream | stream, complete, classify refusals | errors after status 200, garbled frames, hints of zero, a cache lost in a restart |
| Pricing, in-memory rate counters, shell, frontend | | | look-ups, hints, wiring |

How they interact in a chat request: `require_client` admits the client (its own
session), `_run_chat` opens the request's session, `Orchestrator.chat` ranks the
providers from a snapshot of `provider_stats`, then for each candidate calls
`try_reserve` (takes the row lock), the adapter (HTTP), and `_commit_attempt`
(health row and usage event). `_run_chat` commits when a provider answered and
rolls back otherwise; the row locks last until then.

What makes each part correct:

- reservation: no window ever holds more reservations than the cap; a parked
  provider is not called; nobody waits for ever;
- breaker: it opens on evidence only; no quarantine is cut short by an error; no
  state is a dead end; backoff grows until a call succeeds;
- orchestrator: fallback stops for the right reasons; counters in memory are
  exact; what one request has not committed no other request acts on; the
  account of a request is whole; every request ends;
- admission and sessions: a client is counted for what it was served and for
  nothing else; what a request was told agrees with what was committed; the pool
  starves nobody for ever;
- setup and accounts: one first administrator, a master key that is never replaced,
  a way in after every crash; a dead refresh token buys nothing;
- rollup: an event that was counted stays counted, once; strategy cache: bounded age;
- Responses: the events follow their protocol, a chain says what the whole
  conversation would; adapters: a text half spoken is not spoken again, a refusal is
  not an answer; routing: whatever the parser accepts can be evaluated, and everybody
  who can serve is asked in order.

The hazards in `PROJECT.json` name the line where each of these could go wrong.

## The modules

### RateWindow, Reservation

`RateWindow` is the abstract limiter: an admission is one atomic step, taken only
when every window reaching back from its stamp has room; admissions may be
withdrawn.

`Reservation` is the protocol of concurrent transactions on one pair. `Tx` are
requests. The row has a committed version `row` and the lock holder's version
`draft`; `lock` is the row lock of `FOR UPDATE` or `UPDATE`; `start[t]` is what
`NOW()` returns in t's transaction; an event is visible to others once its
transaction has committed (READ COMMITTED).

| Action | Code |
|---|---|
| `Reserve` | the call of `try_reserve`: from here on a request waits for the row and cannot commit |
| `LockRow`, `MissRow`, `InsertRow` | `SELECT ... FOR UPDATE`; NOT FOUND; `INSERT ... ON CONFLICT DO NOTHING` (migration 0014:144-155) and the parked test (157-162) |
| `CountEvents`, `InsertEvent` | window counts, and the event with its stamp (164-186) |
| `Settle` | `RateRepository.commit`, as any change it can make to the row |
| `Commit`, `Abort` | `_run_chat`; `Abort` is also a lost pod |
| `ResetHealth` | `reset_health` in a transaction of its own |

Each statement is one step, because PostgreSQL gives each statement of a READ
COMMITTED transaction its own snapshot. The events of an aborted transaction are
never visible to others, so dropping them at the abort is exact. Chat deletes an
event (`RateRepository.rollback`) only on a path that rolls the transaction back too,
so there is no separate action for it; the embedding and transcription loops also
delete one on success, which is `CallSucceeds` of `Gateway` and finding 3.

### CircuitBreaker

One row and the holder of its lock. Pure operators (`InStreak`, `NewStreak`,
`Trips`, `Cooldown`, `Tripped`, `AfterFailure`, `AfterSuccess`, `AfterBenign`,
`AfterReset`) are the values `commit` and `reset_health` write; the actions apply
them. `Configs` has the two settings in use: those of `app_config`, which chat
passes, and the defaults of `commit`, which embeddings rely on. `recent` and
`lastTrip` are history variables. A call is atomic with respect to other calls of
the same provider: that is `Serialized` of `Reservation`, proved there. `Reserve`
tests the quarantine against the clock, which allows at least what the older
stamp of the code allows.

### Dispatch

`Orchestrator.chat` and `Orchestrator.stream` for several requests of one user in
one pod; `streaming` says which requests stream. `pc` follows the code: `rank`
(ranking), `next` (head of the candidate loop), `reserve` (`try_reserve`),
`calling` (`_try_models`), `record` (`_commit_attempt`), `closing` (a stream yields
its last chunk), `answered` and `failed` (the way out through `_run_chat`), `ended`.

| Variable | Code |
|---|---|
| `queue`, `chain`, `retries`, `refusals`, `result`, `skipped` | locals `attempts`, `models`, the retry budget, `client_error_providers`, `last_error`, `skipped` |
| `named` | requests that name a model, one that is passed through (`Pinning`) or another vendor's, which is served as auto (`Foreign`); `_retry_as_auto` takes both out |
| `holder`, `park`, `saved` | row locks; parked providers with and without uncommitted changes |
| `broken` | the transaction has failed a statement |
| `usage` | usage events added to the session (flushed at commit: the sessions have `autoflush=False`) |
| `inFlight`, `cool` | `_in_flight`, `_ModelCooldowns` (not undone by a rollback) |
| `sent` | the providers and models whose text reached the client (`first_chunk_sent`, `yielded`) |
| `called`, `reply` | history and the outcome for the client |

Data is abstract: a provider's answer is a kind of error or an answer, a ranking
is chosen from a set instead of computed from scores, time does not exist
(`Expire` may end any quarantine or cool-down at any moment, and `try_reserve`
may refuse for lack of room at any moment). `Deadlock` is PostgreSQL's detector,
which fails one waiter of a cycle. `Cancel` is the cancellation of the request's
task at an await.

A stream differs from a plain request in these ways: it is not retried in place
(`Budget`), text may reach the client before the attempt is over (`Chunk`), after
which nothing is tried again and no model is cooled (`MayFallBack`); a stream
without text ends as an `empty_response`; a statement that fails is not swallowed,
nor is an unexpected exception after the first text (`StreamFails`); the call is
counted off after the last chunk was read (`Close`). Chunks held back leave no
trace in the state. The idle timeout is an error of kind `network`, which may come
at any moment. Every built-in adapter streams, so the test of `supports_streaming`
is left out. A reader that leaves ends its request in one step, although Python
finalises the nested generators one after the other.

Two bounds of the code that need ten thousand keys to show
(`_IN_FLIGHT_MAX_KEYS`, `_MAX_KEYS` of the cool-downs) are left out.

### Gateway

One pod, several requests of four kinds: chat, a stream, a Responses call, and
`oneshot` (an embedding or a transcription: both endpoints have the same loop).
Session A is the dependency `get_session`: `require_client` counts the client in it
and FastAPI ends it when the endpoint has returned, before the answer is sent.
Session B is the one chat opens for the orchestrator, of which `Gateway` sees only
the end (`Answer`, `NoAnswer`). `conns` counts the pooled connections a request
holds, `adv` the advisory lock of a key, `holder` the row locks of the embedding
loop.

| Action | Code |
|---|---|
| `Arrive`, `CheckoutA`, `Known`, `Unknown` | `require_client`, `require_user_id`; a user's token costs no query |
| `LockKey`, `Admit`, `TooMany` | `freeai_try_reserve_client` (migration 0004) and `try_acquire` |
| `StartChat`, `StartStream`, `LoadState`, `CheckoutB` | `chat_completions`, `create_response` up to the orchestrator |
| `Answer`, `NoAnswer`, `SaveState` | the end of session B; an error is raised by chat and returned by Responses |
| `StartOneshot`, `Reserve`, `CallFails`, `CallSucceeds`, `Exhausted` | the candidate loops of `embeddings.py` and `transcriptions.py` |
| `Finish`, `CommitFails`, `Fail` | the exits of `get_session` |
| `PoolTimeout`, `Deadlock`, `Cancel` | `pool_timeout`, PostgreSQL's detector, a cancelled task |

The client limiter is checked against `RateWindow`, the abstract limiter of
`Reservation`: its lock is on the key, so it needs no row to exist first.

### Setup and Accounts

`Setup` has three files (`active`, `pending`, `token`; `Torn` is one cut off by a
crash and counts as empty), the accounts that are committed, the setup lock, and one
`step` per request of the five endpoints. A start is four steps (`EnsureKey`,
`PromoteAtStart`, `UnlinkAtStart`, `EnsureToken`), a request is `Call`, `Lock`,
`Pass` or `Refuse`, `Unlink`, `Create` or `Migrate`, `Commit` or `Abort`. `Crash` may
come between any two, `TearKey`, `TearPromotion` and `TearToken` in the middle of a
write.

`Accounts` has the refresh tokens of one user. Each operation is one READ COMMITTED
transaction: `Find` reads, `Remove` deletes one token, `StartPurge` and `Purge` all that
the DELETE saw when it began (`sees`), `Issue` inserts and commits (the foreign key
waits for a deletion of the user). A DELETE waits for a row someone else has deleted;
what is committed meanwhile is not in its snapshot and survives it. `root` remembers which password a session goes back to.

### Rollup

A pass of `_periodic_purge` per pod, statement by statement: a DELETE takes its
snapshot, waits for rows of other passes and skips what they deleted; an INSERT waits
for an equal key and fails when it is committed. Groups are the model's `account`;
two groups may collide in the primary key (`Unknown`, `Unnamed`), because the query
groups by the NULL model and the key is over the empty one.

### StrategyCache and Routing

`StrategyCache` follows one name through the admin endpoints and the cache of one
process: `Miss` takes the time, `ReadRow` reads the row, `Keep` stores it, with any
invalidation, commit or other look-up between. `Routing` is the algorithm around it,
as operators (`Parses`, `Matches`, `Bonus`, `Baseline`, `AutoLane`) and four steps:
an admin's edits, `ResolveStrategy`, `RankProviders`, `FilterCapabilities`. Values carry their
type, because what can go wrong is a comparison of two types. The ranking (`Rankings`) is the list of
the providers that a definition admits, higher scores first and equals in the order of
their names, as the stable sort of the code leaves them. `Filtering` is the comprehension that leaves members of a list out
(`Only`); `Dispatch`, `Routing`, `Responses` and `GeminiTools` use it.

### EventProtocol, ResponseEvents, Responses

`EventProtocol` says what a client of `/v1/responses` may rely on: nesting, numbering,
and closing events that repeat what the deltas said. `ResponseEvents` has the two
writers, `stream_events` and `replay_events`, one event per step, and implements it.
`Responses` is the conversation: input items become messages (`AppendItem`), results
without a call become text (`Repair`), and a turn is stored and found again by later
calls, unless its row was lost or expired. Its property compares two readings of one
chain: `Facts` of the items that clients and responses put in, `Said` of the messages
the model is sent.

### Refusals, AdapterStream, GeminiTools

`Refusals` goes from a response (status, wording, three kinds of wait hints) to the
kind of error, the quarantine and its escalation, for overlapping calls of one
provider. A hint is a set of at most one number, so that missing, zero and negative
are three things. The streak is that of one process: `StartAgain` loses it,
`ClearedElsewhere` is a reset of the health or a success of another pod.
`AdapterStream` is `stream()` of both wire formats, line by line, up to the
orchestrator's test for an empty stream. `denied` remembers every way in which the
provider said no before any text, heard by the adapter or not.
`GeminiTools` rewrites a conversation with tools for Gemini turn by turn (`Translations`,
`Translated`) with a bounded cache of signatures that a restart forgets.

The proof modules extend their components; `MC...` modules hold the constants of the
runs. `MCIdentity` and `MCSupport` put components that share no variable into one
run: a behaviour is one of one component, while the others rest in an initial state.

## The runs

| Run | Question | Answer |
|---|---|---|
| `reservation_steady` | Does the protocol keep the caps, call nobody who is parked, and implement `RateWindow`, once the row exists? | yes |
| `reservation_first_use` | Without the row at the start, do all requests still end? | yes |
| `reservation_first_use_cap` | Is the cap kept on first use? | no, finding 1 |
| `breaker_health` | Evidence, quarantine, backoff and recovery, under mixed settings | yes |
| `dispatch_fallback` | One request, plain or streaming, all ways through the loops, failing statements included | fallback and account are right |
| `dispatch_concurrent` | A stream and a plain request that lock two rows in opposite orders | counters exact, locks respected, one voice per stream, all end |
| `dispatch_attempts` | Does every attempt land in `usage_events`? | no, finding 2 |
| `gateway_mixed` | Endpoints and credentials mixed, more requests than connections | counts, answers and commits agree; all end |
| `gateway_slots` | Does every answered embedding count against the provider's limits? | no, finding 3 |
| `identity_races` | Setup races with crashes; operations on sessions | one administrator, key and way in kept; dead tokens stay dead |
| `identity_reset` | Does a password reset end all sessions? | no, finding 4 |
| `support_parts` | Rollup, strategy cache, event writers, response store, refusals, streams, Gemini's tools, routing | each keeps its properties |

All runs set `CHECK_DEADLOCK FALSE`: requests are finite in number and the clock is
bounded, so the models stop when the work is done.

### Bounds

- `Reservation`: three requests (two that compete and one whose abort or commit
  falls between their steps; symmetric in the run without liveness), at most
  `MaxReserve` reservations each (2 in the steady run: the round of
  `_retry_as_auto` reserves again in the same transaction), clock up to
  `MaxClock`, caps of one or two requests in windows of one, two and four
  seconds, so that windows fill, slide and overlap within the run.
- `CircuitBreaker`: thresholds 2 and 3, windows 1 and 3, cooldowns 1, 2, 3 with
  the cap at 3 so that it is reached; `MaxTrips` bounds the level beyond
  `MaxLevel`, where the exponent stops growing; calls stop at `Horizon` and the
  clock goes on to `MaxClock`, past the end of the longest quarantine.
- `Dispatch`: two or three providers, one with a chain of two models and quotas
  per model; one or two requests, which is what a cycle of row locks takes;
  in the run of one request `Kinds` has a representative of each way the loops treat
  an error (counted as a refusal, of the model, transient, next model only;
  quotas run out through headers); in the run of two, one kind that tries the next
  model, parks, and sends both requests round again (one is pinning, the other names a foreign
  model); `MaxRetries` 0 or 1.
- `Gateway`: two connections for three requests, so that requests with one session
  hold what the one with two needs; `Rpm` 2 for three requests of one client, a window
  shorter than the clock so that it slides; two providers preferred in opposite
  orders, which is what a deadlock takes.
- `Setup`: three callers, one of them at `register`, over every pair of endpoints, both
  modes; `MaxCrashes` 2: one to tear a file or lose a commit, one during the repair.
  `Accounts`: three operations, the smallest number in which a rotation, a reset or a
  deletion, and a further use of the old token meet.
- `Rollup`: two pods, two events that share a group, differ, or collide in the key;
  `KeepEvents` 2 and `KeepRollups` 3 below `MaxDay` 4, so that events go before their
  rollup and rollups go too. `StrategyCache`: `TTL` 2 below `MaxNow` 3.
- `ResponseEvents`: `MaxChunks` 3 (first, later, last); outputs of one or two items.
  `Responses`: three requests, the middle one with two input items, `MaxMessages` 5 so
  that a long chain is refused, `MaxLost` 1.
- `Refusals`: two calls, waits 1 to 4 in the order of the code's, hints that are missing,
  negative, zero, short and long, streaks to 4, past the cap of the escalation. `AdapterStream`: unbounded but for `MaxParseErrors` 5, the
  code's. `GeminiTools`: five turns, a cache of one signature.
- `Routing`: two providers out of six that differ in every signal, each operator and
  each type in a draft.

### Fairness

- `Reservation!FairSpec`: weak fairness of each transaction's own steps. The event
  loop schedules every task, upstream calls end because the HTTP client has
  timeouts, and PostgreSQL grants a free row lock to a waiter. No fairness of
  `Abort`, `ResetHealth` or `Tick`. A request that has called `try_reserve` gets on only
  by its own steps there: to commit instead of waiting is not among them. With one reservation per request a lock is
  taken at most once by each, so weak fairness is enough although the lock is
  contended.
- `CircuitBreaker!FairSpec`: time passes; nobody has to call or reset anything.
- `Dispatch!FairSpec`: weak fairness of each request's own steps, of the end of its
  upstream calls, and of the deadlock detector.
- `Gateway!FairSpec`: weak fairness of the steps of each request that has arrived, its
  pool time-out included. Without that time-out `RequestsEnd` fails: it is the mutant.
- `Setup!SetupFairness`: a pod that died is started again, a start runs to its end, and
  requests are carried on. Nobody has to send one, and crashes are bounded.

## Findings

1. *First use.* Migration 0014 inserts the missing row with `ON CONFLICT DO
   NOTHING`. The one that inserts holds its new row until it commits; others that had
   missed the row wait in their INSERT for that commit, do nothing, and go on without a
   lock. Such a request counts a window next to one that locks the row: in the trace the
   first of three is admitted, calls and commits; the second, past its `DO NOTHING`, sees
   one event below a cap of two and is admitted; the third locks the row, cannot see the
   second's event, and is admitted as well, three in a window of two. `src/README.md:174-176` says that concurrent pods
   never exceed the cap. Migration 0007 describes exactly this race and closed it with
   `DO UPDATE`; 0014 rewrote the function and brought it back.
2. *Failed requests leave no trace.* When every provider failed, `_run_chat` rolls
   back, and the usage events and quarantines of all attempts are gone
   (`orchestrator.py:7-8` promises the events).
3. *Answered embeddings are not counted.* The `finally` clause of the embedding and
   transcription loops releases the reservation unless `reservation_settled`, which a
   success never sets; the comment (`routers/embeddings.py:185-187`) wants that for
   cancelled calls only.
4. *A reset leaves a session behind.* `refresh` and `login` read before the reset
   commits and issue after it; `delete_by_hash` reports how many rows it deleted, and
   nobody asks (`routers/auth.py:271`, against the comment at `routers/users.py:68`).

Divergences met while modelling, without a run of their own:

- reservation: an event is stamped with the start of its transaction, so a request
  that waited for the row lock leaves later than its stamp says, and the provider may
  see more calls in one window than the cap (`src/docs/ARCHITECTURE.md:13`);
- breaker: the age of the FIRST failure of a streak is compared with the window, the
  comment at `repositories/rate_repo.py:172-174` speaks of the last;
- dispatch: `all_models_unavailable` looks at the last model's error only
  (`orchestrator.py:718`), the comment at 101-102 says every model; an empty response
  is transient in `docs/ARCHITECTURE.md` and not retried by `providers/base.py:87-95`;
- admission: `lifecycle.py:86` calls `/v1/*` open before there are clients, but a
  request without a user gets 400; errors that Responses returns count against the
  client's limit, the same errors raised by chat do not;
- transcription: the docstring promises to fail fast on an authentication error
  (`routers/transcriptions.py:69`), the loop goes on;
- setup: a token or pending file cut off by a crash closes the setup until somebody
  removes it; the user name `admin` next to the placeholder ends in a UNIQUE
  violation (`routers/setup.py:279-284`, `routers/auth.py:201-207`);
- rollup: days on which no pod ran are never rolled up (`lifecycle.py:219-220`); a day
  with both a NULL and an empty model of one account violates the rollup's key, and
  every pass, its purges included, fails as long as that day is yesterday or today;
- strategies: `parse_definition` promises `ParseError` for any problem, a section that
  is no list raises `TypeError`; a custom weight can outdo the preferred provider's
  bonus; the comment "tie -> english" of `detect_language` is not what the dictionary
  order does; the preview ranks without the token budget and the latency average;
  images without a healthy vision provider are a client error, tools a rate limit;
- Responses: a reader that leaves at `response.completed` loses the turn; a chain of
  more than 200 messages is refused for good; a call left unanswered is not repaired;
- adapters: `openai_compat.py:24-27` resets its counter "on every successfully parsed
  chunk", frames without choices do not; Gemini's stream passes on the parts marked as
  thought that `complete` leaves out; `schemas.py:21-23` says Gemini drops tool calls,
  which it translates. Gemini's adapter looks neither at error frames nor at a
  blocked prompt (`promptFeedback` without candidates, `gemini_provider.py:374-388`):
  such a stream just ends, the orchestrator calls it an `EMPTY_RESPONSE`
  (`orchestrator.py:1205-1210`), the refusal's kind and its wait are lost, and what counts
  against the breaker is an empty answer; with text around it an ignored error frame leaves a
  stream that looks complete;
- refusals: a negative `Retry-After` is parsed (`providers/base.py:274`) and honoured
  (`base.py:137-140`), so that a first 429 with it parks until the past, which is not
  at all; from the second in a row on the escalation overrules it. The streak is that
  of one process: it is lost in a restart and when the map of streaks is full;
- catalogue: workers that start together insert or update the same rows by
  read-then-write (`repositories/config_repo.py:138-243`), and `patch_provider` writes
  whole rows.

## What is proved

All theorems hold for any constants that satisfy the assumptions named in the
modules (`...Assumption`), which only say what the constants are: the sets of
requests, operations and providers are finite, numbers are numbers, `None` is nobody,
a ranking names a provider once, a response has an item. TLC evaluates all of them
in the runs. Three theorems or groups of them have a hypothesis of their own, named where
they are described: `RowExists`, `OneBackoff`, `PreferenceOutweighs`. Every inductive
invariant was evaluated by TLC before it was proved, on the whole state space of a run
except for `KeptInv`, which is slow to evaluate and was tried on a part of it.

| Module | Theorems | Specification |
|---|---|---|
| `ReservationProofs` | `TypeCorrect`, `CapHolds`, `OneAtATime`, `NoCallWhileParked`, `LimiterImplemented` | `Reservation!Spec` |
| `CircuitBreakerProofs` | `TypeCorrect`, `NeverLockedOut`, `QuarantineKept`, `TripsAreJustified`, `BackoffGrows` | `CircuitBreaker!Spec` |
| `DispatchProofs` | `TypeCorrect`, `InFlightIsExact`, `WorkStaysUnderLock`, `OneVoiceHeard`, `AllOrNothingLeft`, `TwoProvidersAgree` | `Dispatch!Spec` |
| `GatewayProofs` | `TypeCorrect`, `ServedIsCountedAlways`, `AccountsAgree`, `ClientLimiterImplemented` | `Gateway!Spec` |
| `IdentityProofs` | `TypeCorrect`, `FirstAdminUnique`, `AdminsHaveKey`, `TokenIsOffered`, `KeysAreStable`, `SessionsHaveUser`, `DeadTokensRefused` | `SetupSpec`, `AccountsSpec` |
| `SupportProofs` | `NothingStale`, `HalfTold`, `NothingUncounted`, `NoMixture`, `ChainsLead`, `StreamsFollowProtocol`, `RefusalsAreHeard`, `RoutesByScore`, `RoutesRight` | `CacheSpec`, `StreamSpec`, `RollupSpec`, `ResponsesSpec`, `EventsSpec`, `RefusalsSpec`, `RoutingSpec` |
| `ConversationProofs` | `ToolTurnsAreKept`, `ConversationsAreKept` | `ToolsSpec`, `ResponsesSpec` |

With them every invariant and action property the passing runs check is a theorem; only liveness
is left to TLC. `InductionLemmas` has the lemmas that more than one of the modules rests
on.

The last three modules prove about each component for itself; the runs
`identity_races` and `support_parts` let one component move while the others, with
which it shares no variable, rest.

`ReservationProofs`, with any number of requests, caps and durations:

- `TypeCorrect` needs nothing else.
- `CapHolds`, `OneAtATime`, `NoCallWhileParked` and `LimiterImplemented` assume
  `RowExists`, without which the first is false (finding 1). `WindowCap` is not
  inductive: a count is worth something at the later insert only if nobody else can
  insert in between. `LockDiscipline` says so: whoever counts, admits or has an
  uncommitted reservation holds the lock, and a request about to insert still
  finds room among *all* standing reservations, not only those it sees
  (`CountMissesNothing`). `AddWithinCap` is the lemma about windows: a new event
  whose backward window has room overfills no window. The invariant is
  `LockDiscipline` with `WindowCap` on top of `TypeCorrect`; `LockDisciplineStep`, `EventsStep` and
  `CapStep` are its steps.
- `LimiterImplemented`: each step admits one event with room, withdraws some, or
  stutters, with `log <- events`.

`CircuitBreakerProofs`, with any settings:

- `TypeCorrect`, `NeverLockedOut`, `QuarantineKept`, `TripsAreJustified` follow from
  one invariant `IInv`. `Evidence` is its core: the streak counter is backed by as many
  remembered failures, none older than the streak's stamp. `NotParkedWhileCalling`
  is what keeps a trip from shortening a quarantine: a trip only happens in a call,
  and a call only starts when no quarantine runs.
- `BackoffGrows` assumes `OneBackoff`: all settings share base and cap, as the code's
  do by default. With a base of chat's own a trip of chat may be shorter than one of
  the embeddings before it. `LastTripKnown` ties the last trip to the level.

`DispatchProofs`, with any number of requests, providers, chains and retries, has one
invariant `IInv`. None of the five properties is inductive. `InFlightExact` needs that
a request that calls has a candidate (`AttemptReady`). `WorkUnderLock` is inductive
once that is known. `OneVoice` needs `BoundToVoice`: a stream of which something
was heard is on its way out or still with the model that spoke. `AllOrNothing` needs
`CalledRecorded`: as long as no statement has failed, only the call under way has no
event yet. `TwoAgree` needs that the counter of refusals is backed by events of that
many *different* providers, none of which is still ahead in the queue
(`RefusalsCounted`), and so that no provider is twice in it (`CandidatesDistinct`):
the retry as "auto" ranks again and its counter starts again, while the events stay.
The queue is the ranking with some providers left out (`Only`); that leaving out keeps
members, order and distinctness is proved by induction over the numbers below its
length (`InductionLemmas`: a set of numbers instead of a predicate, since the
provers cannot instantiate one).

`GatewayProofs`, with any pool, keys and mix of endpoints: `Promises(r)` is
what one request is held to, and a step of one request keeps what the others are held
to because it touches only events, usage and connections of its own. Its core is
`LockedAt` (an event whose session is not committed keeps its key locked) and
`EventAt` (a client's request has its event from its admission on, until its own
session fails). From the first follows `SeesAll`: whoever counts under the lock sees
every event of the key, which makes the admission a step of `RateWindow`. The pool is
never lent beyond its size: `Leases` numbers the connections lent, so that taking one
adds one element.

`IdentityProofs`, about `Setup` with any callers, endpoints and number of crashes: `LockHeld` and
`NoneYet` (whoever is about to write an account has seen that there is none, and holds
the lock under which anyone else would have to write one) give the one administrator;
`KeyBeforeAccount` gives the key. `KeysAreStable` is about every step, crashes and torn
files included.

`IdentityProofs`, about `Accounts` with any mixture of operations: `DeadStaysDead` says that what was gone when a
refresh began stays gone. It needs `Issued` (an operation that is not done has
issued no token, so that no token comes back) and `Presented`. `SessionsHaveUser` needs
`DeletionHolds`: a deletion of the user has the row before its snapshot, so every token is
in it, and none can be issued until the end.

`SupportProofs`:

- `NothingStale`: every entry of the cache, and every value read on the way to it, was
  in force at or after its stamp. The invalidations play no part: bounded age rests
  on the stamp being taken before the read (the mutant takes it after).
- `HalfTold`: counts of garbled frames and what was told, in one invariant. A refusal
  before any text that the adapter recognises (a status, a filter, an error frame of the
  OpenAI format) is the end of the stream; one that Gemini's adapter passes over is at
  least not served as an answer as long as no text follows, and that rests on the
  orchestrator's test for an empty stream, not on the adapter.
- `NothingUncounted` and `NoMixture`, with any number of pods: what passes read of one
  day grows with time, so any two readings are comparable (`ReadsGrow`), and a pass that
  has deleted rows of a day or inserted some is alone with it and has counted all that was
  counted before (`Replaces`). Both rest on the calendar (`InTime`): no pass outlives
  a day, so none is a purge behind.
- `ChainsLead`: why a row is not there stays true.
- `StreamsFollowProtocol`: `ResponseEvents` implements `EventProtocol` under the mapping
  `Phase`, `OpenItem`, `PartStage`, `Heard`, `Closed`. The invariant `EventsInv` says
  for each place of the two generators which event was the last; `StreamView` and
  `ReplayView` turn that into the state of the protocol, and every yield is one step
  of it.
- `RefusalsAreHeard`: the streak in memory is the number of 429s in a row that this
  process has had, and the silence asked for is over or covered by the quarantine
  (`SilenceKept`). Nothing is assumed of the hints: a first refusal with a negative
  `Retry-After` asks for no silence (see the divergences), every other one does.
- `RoutesByScore`, with any fleets, requests, drafts and stored definitions: what parses does
  not raise (`Parses` fixes the types that `Matches` compares), the lanes of virtual models are
  found, everybody who can serve is on the chain and nobody else (`Only` keeps members),
  and the chain follows the scores (`Only` keeps order). Nothing is assumed of the size of scores.
- `RoutesRight`: the same with "the preferred provider first, and nobody after one it
  outdoes". It assumes `PreferenceOutweighs`: no score is 100 points or more above another
  (2000 twentieths in the model), which is what the code adds for the preferred provider.
  That is not so for every constant: an admin's weights, the weight of a provider and
  the number of requests in flight have no bound in the code, and a preference with a
  weight of 150 does put another provider first. The run's instance satisfies it.

`ConversationProofs`:

- `ToolTurnsAreKept`, for chats of any length, answers of other providers between them and
  restarts that forget the signatures. The translation is a recursive function over the
  turns, so the claim is an invariant of its steps, not only of the system's: after the first
  i turns the contents hold exactly the calls and results of these (`Owed`), the first
  call of every model turn is signed, no two turns in a row are results, and the names are
  those of the calls seen. The invariant of the system adds what the cache holds: a
  signature belongs to the call it is filed under.
- `ConversationsAreKept`, for any number of requests, inputs, chains and losses.
  `ConversationKept` is not inductive, since it does not say what was stored. `KeptInv`
  does: a stored history, and one that was read, is the conversation of that response
  followed by its answer (`KeptFor`, `FoundFor`), however long ago it was read and
  whatever expired since. The rest is about the operators. `Facts` is `Mend` of the raw
  facts: it turns results without a call before them into the user's text.
  `InputSays`: the messages made of items say their raw facts, whichever calls were joined in
  one turn. `RepairSays`: to repair messages is to mend what they say. `MendTwice`:
  mending a part first, and the whole again, is mending the whole once. That is why a chain repaired
  request by request reads like one sent at once, and what the mutant, which
  repairs each input by itself, breaks. `RepliesHaveParts`: an answer is a text, if any,
  then calls, which is what lets it be stored as one turn and be read as items.

`InductionLemmas`: the provers cannot instantiate an induction theorem with a predicate,
so induction is over a set of numbers. From it follow what a step-by-step function
(`Steps`) preserves, what leaving out (`Only`) keeps, and that flattening follows
concatenation.

The proofs speak of the models, the link between models and code is the map and
was made by reading.

What the proofs changed in the models: selections written with CASE whose guards
overlapped are IF chains now, since a CASE may take any arm whose guard holds and TLC
takes the first; `Asks` of `Refusals` asks for some time instead of the default
after a first refusal, because a hint shorter than the default is honoured, and a
negative one too; folds over
input items, turns and clauses are recursive functions with an invariant of their own;
the ranking is described by its order instead of computed by a sorting operator; an item that is known by its id is chosen by `CHOOSE`.

Left to TLC: liveness (`RequestsEnd`, `Recovers`, `SetupStaysOpen`), since the prover
handles neither fairness nor `ENABLED`.

## Plan

Done: `RateWindow`, `Reservation`, `CircuitBreaker`, `Dispatch`; admission and the pool
(`Gateway`); `Setup` and `Accounts`; maintenance (`Rollup`); strategies
(`StrategyCache`, `Routing`); the Responses API; the adapters; the proofs above.

What could come next:

1. Type invariants of the components of `SupportProofs` that have none of their own.
2. The catalogue: seeding and retirement by several workers, and `patch_provider` that
   writes whole rows.
3. The three hazards without a property (`PROJECT.json`).

How the modules compose: `Dispatch` composes with `Reservation` by its use of `holder`
(the row lock until the end of the transaction) and with `CircuitBreaker` by
`ParkAfter`; where `Reservation` may commit or abort at any moment after its calls,
`Dispatch` has the control that decides which. `Gateway` has `Dispatch` as the two
steps that end session B. `Routing` makes the ranking that `Dispatch` takes as given, `Refusals`
the quarantines, `AdapterStream` the errors of a stream, and `Responses` has `Gateway`'s
`LoadState` and `SaveState` in detail.

## Not modelled

- The catalogue and configuration tables: seeding, retirement, the encryption of
  provider keys. Their races are a hazard without a property.
- A master key given by the environment, and several pods that share one data directory.
- Users added by an administrator, the expiry of tokens, the login limiter (in memory,
  per process).
- Embedding and transcription formats, Cohere's format, tool declarations, sampling
  parameters: conversions without state.
- Pricing tables, analytics queries, logging, metrics, the frontend and deployment
  files: they have no protocol of their own. The in-memory rate counters only add to a
  score.
