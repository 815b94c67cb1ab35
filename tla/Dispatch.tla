---- MODULE Dispatch ----
(***************************************************************************)
(* Orchestrator.chat and Orchestrator.stream: how one pod carries          *)
(* concurrent chat requests of one user through their candidate providers  *)
(* and models, each request inside one database transaction (_run_chat,    *)
(* _orchestrator_stream).                                                  *)
(*                                                                         *)
(* The provider_stats rows exist, so try_reserve takes and keeps the row   *)
(* lock (module Reservation), and a row says only whether its provider is  *)
(* parked (module CircuitBreaker).  Time is abstract: quarantines and      *)
(* cool-downs may run out at any moment, and a provider may be at its cap  *)
(* at any moment.                                                          *)
(***************************************************************************)
EXTENDS Naturals, Sequences, FiniteSets, Filtering

CONSTANTS
    Request, Provider, Model,
    None,           \* nobody holds a row lock
    Rankings,       \* candidate orders the scores may give
    Chain,          \* Chain[p]: models of p in the order of model_chain
    PerModel,       \* providers whose quotas are per model
    Pin,            \* the model a pinning request names
    Pinning,        \* requests that name a model the gateway passes through
    Foreign,        \* requests that name another vendor's model: served as auto
    NoFallback,     \* requests that turned fallback off
    StreamSets,     \* sets of requests that may be the streaming ones
    Kinds,          \* error kinds the providers may answer with
    MaxRetries      \* provider_max_retries

ErrorKind == {"auth", "rate_limited", "client_error", "model_unavailable",
              "quota_exhausted", "server_error", "network", "parsing",
              "empty_response", "content_filtered", "unknown"}

ASSUME DispatchAssumption ==
    /\ None \notin Request
    /\ IsFiniteSet(Request) /\ IsFiniteSet(Provider)
    /\ Rankings \subseteq Seq(Provider)
    /\ \A ranking \in Rankings : \A i, j \in DOMAIN ranking : ranking[i] = ranking[j] => i = j
    /\ Chain \in [Provider -> Seq(Model) \ {<<>>}]
    /\ PerModel \subseteq Provider
    /\ Pin \in Model
    /\ Pinning \subseteq Request /\ Foreign \subseteq Request \ Pinning
    /\ NoFallback \subseteq Request
    /\ StreamSets \subseteq SUBSET Request
    /\ Kinds \subseteq ErrorKind
    /\ MaxRetries \in Nat

VARIABLES
    streaming,  \* the requests that asked for a stream
    pc,         \* where each request is
    queue,      \* candidates left, the current one first
    chain,      \* models left of the current candidate, the current one first
    retries,    \* in-place retries left for the current model
    named,      \* requests whose model name has not been given up yet
    result,     \* outcome of the current attempt, then of the last one
    refusals,   \* client errors so far
    broken,     \* requests whose transaction only accepts its rollback
    holder,     \* holder[p]: request that holds p's provider_stats row
    park,       \* parked providers, uncommitted changes included
    saved,      \* parked providers, as committed
    usage,      \* usage_events, committed or not
    inFlight,   \* in-memory: calls in flight
    cool,       \* in-memory: why a model (or a whole provider) is skipped
    reply,      \* what the client got in the end
    sent,       \* <<provider, model>>s the client has had chunks of
    skipped,    \* was a candidate skipped?
    called      \* history: providers called

control == <<pc, queue, chain, retries, named, result, refusals>>
database == <<broken, holder, park, saved, usage>>
client == <<streaming, reply, sent>>
history == <<skipped, called>>
vars == <<control, database, inFlight, cool, client, history>>

Whole == "*"            \* the key under which a whole provider cools
Transient == {"server_error", "network"}
TryNextModel == {"empty_response", "content_filtered"}
NoError == "none"

\* Mutant: the first client error stops the request.
FirstClientError == 1

MaxClientErrors == 2

Init ==
    /\ streaming \in StreamSets
    /\ pc = [r \in Request |-> "idle"]
    /\ queue = [r \in Request |-> <<>>]
    /\ chain = [r \in Request |-> <<>>]
    /\ retries = [r \in Request |-> 0]
    /\ named = Pinning \cup Foreign
    /\ result = [r \in Request |-> NoError]
    /\ refusals = [r \in Request |-> 0]
    /\ broken = {}
    /\ holder = [p \in Provider |-> None]
    /\ park = {} /\ saved = {} /\ usage = {}
    /\ inFlight = [p \in Provider |-> 0]
    /\ cool = [p \in Provider |-> [m \in Model \cup {Whole} |-> NoError]]
    /\ reply = [r \in Request |-> NoError]
    /\ sent = [r \in Request |-> {}]
    /\ called = [r \in Request |-> {}]
    /\ skipped = [r \in Request |-> FALSE]

Current(r) == Head(queue[r])
Goto(r, label) == pc' = [pc EXCEPT ![r] = label]
Calling(r) == pc[r] \in {"calling", "record", "closing"}

\* Is p parked, as r's transaction sees it?
Parked(r, p) == p \in IF holder[p] = r THEN park ELSE saved

\* _models_for: an explicit model is passed through; otherwise the models that
\* are not cooling, or one probe when all of them are only "unavailable".
ModelsFor(r, p) ==
    LET alive == Only(Chain[p], {m \in Model : cool[p][m] = NoError})
        gone == \A i \in DOMAIN Chain[p] : cool[p][Chain[p][i]] = "unavailable"
    IN  IF cool[p][Whole] # NoError THEN <<>>
        ELSE IF r \in named \cap Pinning THEN <<Pin>>
        ELSE IF alive = <<>> /\ gone THEN <<Head(Chain[p])>>
        ELSE alive

\* _model_skip: the reasons for which an error may belong to the model rather
\* than the provider (credits, HTTP 402, are per account everywhere).
SkipReasons(p, k) ==
    CASE k = "model_unavailable" -> {"unavailable"}
      [] k = "rate_limited" /\ p \in PerModel -> {"quota"}
      [] k = "quota_exhausted" /\ p \in PerModel -> {"quota", NoError}
      [] OTHER -> {NoError}

\* _cool_model: a longer entry stays.
Cool(p, m, reason) ==
    \/ cool' = IF reason = NoError THEN cool ELSE [cool EXCEPT ![p][m] = reason]
    \/ cool[p][m] # NoError /\ UNCHANGED cool

-----------------------------------------------------------------------------
Arrive(r) ==
    /\ pc[r] = "idle"
    /\ Goto(r, "rank")
    /\ UNCHANGED <<queue, chain, retries, named, result, refusals, database,
                   inFlight, cool, client, history>>

\* _rank and _filter_capabilities: the scores order the enabled providers that
\* can serve the request, parked ones are left out.  When none remain, the error
\* is rate_limited if only parking is to blame, or client_error.
Rank(r) ==
    /\ pc[r] = "rank" /\ r \notin broken
    /\ \E ranking \in Rankings, blame \in {"rate_limited", "client_error"} :
        LET usable == Only(ranking, {p \in Provider : ~Parked(r, p)})
        IN  /\ queue' = [queue EXCEPT ![r] =
                            IF r \in NoFallback /\ usable # <<>> THEN <<Head(usable)>>
                            ELSE usable]
            /\ result' = [result EXCEPT ![r] =
                            IF usable # <<>> THEN NoError
                            ELSE IF ranking = <<>> THEN "client_error" ELSE blame]
            /\ Goto(r, IF usable = <<>> THEN "failed" ELSE "next")
    /\ refusals' = [refusals EXCEPT ![r] = 0]
    /\ skipped' = [skipped EXCEPT ![r] = FALSE]
    /\ UNCHANGED <<chain, retries, named, database, inFlight, cool, client, called>>

\* The candidate loop goes on.
MoreToTry(r) == queue[r] # <<>> /\ refusals[r] < MaxClientErrors

Skip(r) ==
    /\ queue' = [queue EXCEPT ![r] = Tail(@)]
    /\ skipped' = [skipped EXCEPT ![r] = TRUE]

\* The head of the candidate loop: the models to try, if any.
Choose(r) ==
    /\ pc[r] = "next" /\ MoreToTry(r)
    /\ chain' = [chain EXCEPT ![r] = ModelsFor(r, Current(r))]
    /\ \/ /\ chain'[r] # <<>>
          /\ Goto(r, "reserve")
          /\ UNCHANGED <<queue, skipped>>
       \/ /\ chain'[r] = <<>>
          /\ Skip(r)
          /\ UNCHANGED pc
    /\ UNCHANGED <<retries, named, result, refusals, database, inFlight, cool,
                   client, called>>

\* A stream is not retried on the same model.
Budget(r) == IF r \in streaming THEN 0 ELSE MaxRetries

\* try_reserve: wait for the row, keep it, and call the provider unless it is
\* parked or at its cap.
Reserve(r) ==
    LET p == Current(r)
    IN  /\ pc[r] = "reserve" /\ r \notin broken
        /\ holder[p] \in {None, r}
        /\ holder' = [holder EXCEPT ![p] = r]
        /\ \/ /\ ~Parked(r, p)
              /\ Goto(r, "calling")
              /\ inFlight' = [inFlight EXCEPT ![p] = @ + 1]
              /\ retries' = [retries EXCEPT ![r] = Budget(r)]
              /\ called' = [called EXCEPT ![r] = @ \cup {p}]
              /\ UNCHANGED <<queue, skipped>>
              /\ UNCHANGED chain
           \/ /\ Goto(r, "next")
              /\ Skip(r)
              /\ chain' = [chain EXCEPT ![r] = <<>>]
              /\ UNCHANGED <<retries, inFlight, called>>
        /\ UNCHANGED <<named, result, refusals, broken, park, saved,
                       usage, cool, client>>

\* _try_with_retry: a transient error is retried on the same model.
Retry(r, k) ==
    /\ pc[r] = "calling" /\ k \in Transient /\ retries[r] > 0
    /\ retries' = [retries EXCEPT ![r] = @ - 1]
    /\ UNCHANGED <<pc, queue, chain, named, result, refusals, database,
                   inFlight, cool, client, history>>

\* A stream yields a chunk, whose headers may report a spent quota.  Chunks
\* without text are held back until one with text arrives.
Chunk(r) ==
    LET p == Current(r)
        m == Head(chain[r])
    IN  /\ pc[r] = "calling" /\ r \in streaming
        /\ UNCHANGED cool \/ Cool(p, IF p \in PerModel THEN m ELSE Whole, "quota")
        /\ sent' \in {sent, [sent EXCEPT ![r] = @ \cup {<<p, m>>}]}
        /\ UNCHANGED <<control, database, inFlight, streaming, reply, history>>

\* Mutant: a stream falls back whatever the client has seen of it.
FallBackAnyway(r) == TRUE

\* Nothing of this request has reached the client.
MayFallBack(r) == sent[r] = {}

\* _try_models: an error of the model moves on to the next one.
NextModel(r, k) ==
    /\ pc[r] = "calling" /\ Len(chain[r]) > 1 /\ MayFallBack(r)
    /\ k \in Transient => retries[r] = 0
    /\ \E reason \in SkipReasons(Current(r), k) :
        /\ reason # NoError \/ k \in TryNextModel
        /\ Cool(Current(r), Head(chain[r]), reason)
    /\ chain' = [chain EXCEPT ![r] = Tail(@)]
    /\ retries' = [retries EXCEPT ![r] = Budget(r)]
    /\ UNCHANGED <<pc, queue, named, result, refusals, database, inFlight,
                   client, history>>

\* The attempt at this provider is over.
Fail(r, k) ==
    /\ pc[r] = "calling"
    /\ k \in Transient => retries[r] = 0
    /\ \E reason \in SkipReasons(Current(r), k) :
        /\ Len(chain[r]) > 1 /\ MayFallBack(r) => reason = NoError /\ k \notin TryNextModel
        /\ IF MayFallBack(r) THEN Cool(Current(r), Head(chain[r]), reason) ELSE UNCHANGED cool
    /\ result' = [result EXCEPT ![r] = k]
    /\ Goto(r, "record")
    /\ UNCHANGED <<queue, chain, retries, named, refusals, database, inFlight,
                   client, history>>

\* A response, whose headers may report a spent quota (_note_rate_limit), or the
\* end of a stream; a stream without text ends as an empty_response instead.
Answer(r) ==
    LET p == Current(r)
    IN  /\ pc[r] = "calling"
        /\ r \in streaming => sent[r] # {}
        /\ \/ UNCHANGED cool
           \/ Cool(p, IF p \in PerModel THEN Head(chain[r]) ELSE Whole, "quota")
        /\ result' = [result EXCEPT ![r] = "answer"]
        /\ Goto(r, "record")
        /\ UNCHANGED <<queue, chain, retries, named, refusals, database,
                       inFlight, client, history>>

\* Does RateRepository.commit leave p parked?  A missing model does when it was
\* the last of a chain, and nothing had been sent.
ParkAfter(r, p, k) ==
    CASE k = "answer" -> {park \ {p}}
      [] k \in {"auth", "rate_limited", "quota_exhausted"} -> {park \cup {p}}
      [] k = "model_unavailable" -> {IF r \in named \cap Pinning \/ ~MayFallBack(r) THEN park ELSE park \cup {p}}
      [] k \in {"client_error", "content_filtered"} -> {park}
      [] OTHER -> {park, park \cup {p}}

\* Mutant: the failed statement leaves the transaction usable.
Forgive(r) == UNCHANGED broken

Poison(r) == broken' = broken \cup {r}

\* The locals of an attempt die with it.
Settle(r) ==
    /\ chain' = [chain EXCEPT ![r] = <<>>]
    /\ retries' = [retries EXCEPT ![r] = 0]

Land(r) == [inFlight EXCEPT ![Current(r)] = @ - 1]

\* _commit_attempt writes the health row and adds the usage event, which is not
\* flushed before the commit.  A statement that fails is logged and swallowed,
\* and leaves the transaction broken: the health update, or the price lookup
\* for an answer, after which the event is added all the same.
Record(r) ==
    LET p == Current(r)
        event == [req |-> r, provider |-> p, outcome |-> result[r]]
    IN  /\ pc[r] = "record"
        /\ \/ /\ park' \in ParkAfter(r, p, result[r])
              /\ usage' = usage \cup {event}
              /\ UNCHANGED broken
           \/ /\ r \notin streaming
              /\ Poison(r)
              /\ UNCHANGED <<park, usage>>
           \/ /\ result[r] = "answer"
              /\ Poison(r)
              /\ usage' = usage \cup {event}
              /\ UNCHANGED park
        /\ inFlight' = IF r \in streaming /\ result[r] = "answer" THEN inFlight ELSE Land(r)
        /\ refusals' = [refusals EXCEPT ![r] =
                          @ + (IF result[r] = "client_error" THEN 1 ELSE 0)]
        /\ \/ /\ result[r] = "answer"
              /\ Goto(r, IF r \in streaming THEN "closing" ELSE "answered")
              /\ UNCHANGED queue
           \/ /\ result[r] # "answer"
              /\ Goto(r, IF MayFallBack(r) THEN "next" ELSE "failed")
              /\ queue' = [queue EXCEPT ![r] = Tail(@)]
        /\ Settle(r)
        /\ UNCHANGED <<named, result, holder, saved, cool, client, called, skipped>>

\* Mutant: a row stays locked when its request ends.
KeepLast(r) ==
    [p \in Provider |-> IF holder[p] = r /\ queue[r] # <<>> /\ p # Current(r)
                        THEN None ELSE holder[p]]

Released(r) == [p \in Provider |-> IF holder[p] = r THEN None ELSE holder[p]]

\* Mutant: the quarantines of a failed request are kept.
ParkKept(r) == park

Restored(r) == {p \in Provider : p \in IF holder[p] = r THEN saved ELSE park}

\* End of the transaction: everything of r is undone, its rows are released.
Rollback(r) ==
    /\ holder' = Released(r)
    /\ park' = Restored(r)
    /\ usage' = {e \in usage : e.req # r}
    /\ broken' = broken \ {r}
    /\ UNCHANGED saved

End(r, outcome) ==
    /\ Goto(r, "ended")
    /\ reply' = [reply EXCEPT ![r] = outcome]
    /\ queue' = [queue EXCEPT ![r] = <<>>]
    /\ result' = [result EXCEPT ![r] = NoError]
    /\ refusals' = [refusals EXCEPT ![r] = 0]
    /\ named' = named \ {r}
    /\ Settle(r)
    /\ skipped' = [skipped EXCEPT ![r] = FALSE]
    /\ UNCHANGED <<streaming, sent, called>>

\* A stream swallows neither a failing statement nor, once text was sent, an
\* unexpected exception of the adapter: the request ends with it.
StreamFails(r) ==
    /\ r \in streaming
    /\ \/ pc[r] = "record"
       \/ pc[r] = "calling" /\ ~MayFallBack(r)
    /\ End(r, "internal")
    /\ Rollback(r)
    /\ inFlight' = Land(r)
    /\ UNCHANGED cool

\* A stream yields its last chunk before the finally block lands the call.
Close(r) ==
    /\ pc[r] = "closing"
    /\ Goto(r, "answered")
    /\ inFlight' = Land(r)
    /\ UNCHANGED <<queue, chain, retries, named, result, refusals, database,
                   cool, client, history>>

Events(r) == {e.provider : e \in {f \in usage : f.req = r}}

\* session.commit() flushes the usage events and commits.
Return(r) ==
    /\ pc[r] = "answered" /\ r \notin broken
    /\ End(r, "answer")
    /\ holder' = Released(r)
    /\ saved' = {p \in Provider : p \in IF holder[p] = r THEN park ELSE saved}
    /\ UNCHANGED <<broken, park, usage, inFlight, cool>>

\* With nothing to flush, PostgreSQL turns the commit of a broken transaction
\* into a rollback and the client has its answer.
ReturnUnrecorded(r) ==
    /\ pc[r] = "answered" /\ r \in broken /\ Events(r) = {}
    /\ End(r, "answer")
    /\ Rollback(r)
    /\ UNCHANGED <<inFlight, cool>>

\* The flush of a broken transaction raises, and any flush or commit may.
CommitFails(r) ==
    /\ pc[r] = "answered"
    /\ r \in broken => Events(r) # {}
    /\ End(r, "internal")
    /\ Rollback(r)
    /\ UNCHANGED <<inFlight, cool>>

\* _exhausted_error: candidates used up, or a second client error.
Exhaust(r) ==
    /\ pc[r] = "next" /\ ~MoreToTry(r)
    /\ Goto(r, "failed")
    /\ result' = [result EXCEPT ![r] =
                    IF @ # NoError THEN @
                    ELSE IF skipped[r] THEN "rate_limited" ELSE "unknown"]
    /\ UNCHANGED <<queue, chain, retries, named, refusals, database, inFlight,
                   cool, client, history>>

Unknown(r) == r \in named /\ result[r] = "model_unavailable" /\ MayFallBack(r)

\* _retry_as_auto: once, when the client named a model and nobody served it.
RetryAsAuto(r) ==
    /\ pc[r] = "failed" /\ Unknown(r)
    /\ named' = named \ {r}
    /\ Goto(r, "rank")
    /\ UNCHANGED <<queue, chain, retries, result, refusals, database, inFlight,
                   cool, client, history>>

\* The error reaches the client and _run_chat rolls back.
GiveUp(r) ==
    /\ pc[r] = "failed"
    /\ ~Unknown(r)
    /\ End(r, result[r])
    /\ Rollback(r)
    /\ UNCHANGED <<inFlight, cool>>

\* A statement of a broken transaction raises, and the request fails with it.
Raise(r) ==
    /\ r \in broken /\ pc[r] \in {"rank", "reserve"}
    /\ End(r, "internal")
    /\ Rollback(r)
    /\ UNCHANGED <<inFlight, cool>>

Waits(r) == pc[r] = "reserve" /\ holder[Current(r)] \notin {None, r}

\* The requests that r waits for, directly or through others.
Blockers(r) ==
    LET Ahead(S) == {holder[Current(q)] : q \in {t \in S : Waits(t)}}
        reach[n \in 0..Cardinality(Request)] ==
            IF n = 0 THEN Ahead({r}) ELSE reach[n - 1] \cup Ahead(reach[n - 1])
    IN  reach[Cardinality(Request)]

\* PostgreSQL breaks a cycle of row lock waits by failing one of the waiters.
Deadlock(r) ==
    /\ Waits(r) /\ r \notin broken
    /\ r \in Blockers(r)
    /\ End(r, "internal")
    /\ Rollback(r)
    /\ UNCHANGED <<inFlight, cool>>

\* Mutant: a cancelled call stays in flight.
StayUp(r) == inFlight

\* What the finally block leaves in flight when the task is cancelled.
Landed(r) == IF Calling(r) THEN Land(r) ELSE inFlight

\* The request's task is cancelled at an await, or the reader of the stream left
\* and its generator is closed at a yield; the finally blocks run.
Cancel(r) ==
    /\ pc[r] \in {"rank", "reserve", "calling", "record", "closing", "answered"}
    /\ End(r, "cancelled")
    /\ Rollback(r)
    /\ inFlight' = Landed(r)
    /\ UNCHANGED cool

\* Time passes: a quarantine or a cool-down runs out.
Expire ==
    /\ \/ \E p \in park \cup saved :
            /\ park' = park \ {p} /\ saved' = saved \ {p}
            /\ UNCHANGED cool
       \/ \E p \in Provider, m \in Model \cup {Whole} :
            /\ cool[p][m] # NoError
            /\ cool' = [cool EXCEPT ![p][m] = NoError]
            /\ UNCHANGED <<park, saved>>
    /\ UNCHANGED <<control, broken, holder, usage, inFlight, client, history>>

Handle(r) ==
    \/ Rank(r) \/ Choose(r) \/ Reserve(r) \/ Record(r) \/ Close(r)
    \/ Return(r) \/ ReturnUnrecorded(r) \/ CommitFails(r) \/ Exhaust(r)
    \/ RetryAsAuto(r) \/ GiveUp(r) \/ Raise(r)

\* Every upstream call ends: the HTTP client and the gaps of a stream have
\* timeouts.
Upstream(r) ==
    Answer(r) \/ \E k \in Kinds : Retry(r, k) \/ NextModel(r, k) \/ Fail(r, k)

Next ==
    \/ \E r \in Request :
         \/ Arrive(r) \/ Handle(r) \/ Upstream(r) \/ Chunk(r)
         \/ StreamFails(r) \/ Deadlock(r) \/ Cancel(r)
    \/ Expire

Spec == Init /\ [][Next]_vars

\* The event loop runs every task, upstream calls end, PostgreSQL looks for
\* deadlocks.  Nobody has to cancel, and nothing has to expire.
Fairness ==
    \A r \in Request :
        WF_vars(Handle(r)) /\ WF_vars(Upstream(r)) /\ WF_vars(Deadlock(r))

FairSpec == Spec /\ Fairness

-----------------------------------------------------------------------------
\* Types of the variables.
TypeOK ==
    /\ streaming \in StreamSets
    /\ sent \in [Request -> SUBSET (Provider \X Model)]
    /\ pc \in [Request -> {"idle", "rank", "next", "reserve", "calling", "record",
                           "closing", "answered", "failed", "ended"}]
    /\ queue \in [Request -> Seq(Provider)]
    /\ chain \in [Request -> Seq(Model)]
    /\ retries \in [Request -> 0..MaxRetries]
    /\ named \subseteq Pinning \cup Foreign
    /\ result \in [Request -> ErrorKind \cup {NoError, "answer"}]
    /\ refusals \in [Request -> 0..MaxClientErrors]
    /\ broken \subseteq Request
    /\ holder \in [Provider -> Request \cup {None}]
    /\ park \subseteq Provider /\ saved \subseteq Provider
    /\ usage \subseteq [req : Request, provider : Provider, outcome : ErrorKind \cup {"answer"}]
    /\ inFlight \in [Provider -> Nat]
    /\ cool \in [Provider -> [Model \cup {Whole} -> {NoError, "unavailable", "quota"}]]
    /\ reply \in [Request -> ErrorKind \cup {NoError, "answer", "internal", "cancelled"}]
    /\ called \in [Request -> SUBSET Provider]
    /\ skipped \in [Request -> BOOLEAN]

\* The in-flight counters that weigh on every score are exact: no path out of
\* a call, cancellation included, leaks a slot or releases it twice.
InFlightExact ==
    \A p \in Provider :
        inFlight[p] = Cardinality({r \in Request : Calling(r) /\ Current(r) = p})

\* Uncommitted work stays behind its row lock: a request calls only providers
\* whose row it holds, and a health change or a usage event of a request that
\* has not answered is of a provider whose row that request holds.
WorkUnderLock ==
    /\ \A r \in Request : Calling(r) => holder[Current(r)] = r
    /\ \A p \in Provider : (p \in park) # (p \in saved) => holder[p] # None
    /\ \A e \in usage : reply[e.req] = "answer" \/ holder[e.provider] = e.req

\* One request, one account of it: an answered request leaves the event of
\* every provider it called or, when a statement failed, none at all; any other
\* request leaves none.
AllOrNothing ==
    \A r \in Request : pc[r] = "ended" =>
        \/ Events(r) = {}
        \/ reply[r] = "answer" /\ called[r] \subseteq Events(r)

\* A client never hears two voices: all the text of a stream comes from one
\* provider and model, though models, providers and the whole dispatch may
\* have been tried again.
OneVoice == \A r \in Request : Cardinality(sent[r]) <= 1

\* While candidates are left and nothing has reached the client, a request
\* fails only when two different providers called it a bad request.
TwoAgree ==
    \A r \in Request : pc[r] = "failed" /\ queue[r] # <<>> /\ r \notin broken /\ sent[r] = {} =>
        Cardinality({e.provider : e \in {f \in usage : f.req = r /\ f.outcome = "client_error"}}) >= 2

\* Every request ends, whatever rows it waits for.
RequestsEnd == \A r \in Request : pc[r] = "rank" ~> pc[r] = "ended"

\* "Each attempt (success or failure) lands in usage_events": when the client
\* has its answer or its error, the events of all providers called exist.
AttemptsLand ==
    \A r \in Request :
        reply[r] \in ErrorKind \cup {"answer"} => called[r] \subseteq Events(r)
====
