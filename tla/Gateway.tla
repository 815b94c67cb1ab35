---- MODULE Gateway ----
(***************************************************************************)
(* The way of a request through one pod: admission of the client           *)
(* (require_client), the bounded connection pool, and the database         *)
(* sessions an endpoint needs.                                             *)
(*                                                                         *)
(* Admission runs in session A, a FastAPI dependency that is committed or  *)
(* rolled back when the endpoint has returned, before the answer is sent.  *)
(* Chat and Responses open a second session B for the orchestrator (module *)
(* Dispatch) while A still holds its connection and the client's advisory  *)
(* lock; a streaming answer is produced after A has ended.  Embeddings and *)
(* transcriptions do their work in A itself.                               *)
(***************************************************************************)
EXTENDS Naturals, Sequences, FiniteSets

CONSTANTS
    Req,            \* requests
    Key,            \* client API keys
    Jwt, Nobody,    \* credentials: a user's token; no Authorization header
    None,
    Provider,       \* providers of embeddings or transcriptions
    Loads,          \* functions from Req to [kind, cred, prefer, prev]
    Pool,           \* pool_size + max_overflow
    RequireAuth,    \* FREEAI_REQUIRE_AUTH
    Rpm,            \* rpm_limit of every client
    Window,         \* length of the client window (60 s)
    MaxClock        \* bound: the clock stops here

Cred == Key \cup {Jwt, Nobody}
Kind == {"chat", "stream", "responses", "oneshot"}
ASSUME LoadsAssumption ==
    Loads \subseteq [Req -> [kind : Kind, cred : Cred, prefer : Seq(Provider),
                             prev : Req \cup {None}]]
ASSUME BoundsAssumption ==
    /\ Pool \in Nat \ {0}
    /\ RequireAuth \in BOOLEAN
    /\ Rpm \in Nat
    /\ Window \in Nat
    /\ MaxClock \in Nat
ASSUME NoneAssumption == None \notin Req
ASSUME ReqAssumption == IsFiniteSet(Req)
ASSUME CredAssumption == Jwt \notin Key /\ Nobody \notin Key

VARIABLES
    clock,      \* seconds
    load,       \* what each request asks for
    clients,    \* keys in the clients table
    pc,         \* where each request is
    conns,      \* pooled connections each request holds
    start,      \* NOW() of session A
    adv,        \* holder of the advisory lock of each key
    events,     \* client_rate_events, committed or not
    queue,      \* candidates an embedding request has left
    holder,     \* holder of each provider_stats row lock
    slots,      \* rate_events of embeddings and transcriptions
    usage,      \* usage events, committed or not
    answered,   \* requests whose session B was committed with an answer
    stored,     \* requests whose turn is in response_store
    result      \* what the endpoint returns; the client gets it at the end

vars == <<clock, load, clients, pc, conns, start, adv, events, queue, holder,
          slots, usage, answered, stored, result>>
admission == <<clients, start, adv, events>>
oneshot == <<queue, holder, slots, usage>>
results == <<answered, stored>>

Init ==
    /\ clock = 0
    /\ load \in Loads
    /\ clients \in SUBSET Key
    /\ pc = [r \in Req |-> "idle"]
    /\ conns = [r \in Req |-> 0]
    /\ start = [r \in Req |-> 0]
    /\ adv = [k \in Key |-> None]
    /\ events = {}
    /\ queue = [r \in Req |-> <<>>]
    /\ holder = [p \in Provider |-> None]
    /\ slots = {}
    /\ usage = {}
    /\ answered = {}
    /\ stored = {}
    /\ result = [r \in Req |-> None]

Goto(r, label) == pc' = [pc EXCEPT ![r] = label]

\* The connections lent, each with its number among those of its request.
Leases == {lease \in Req \X (1..2) : lease[2] <= conns[lease[1]]}
InUse == Cardinality(Leases)
FreeConnection == InUse < Pool

\* Mutant: connections beyond the overflow.
TakeMore(r) == conns' = [conns EXCEPT ![r] = @ + 1]

Take(r) == FreeConnection /\ conns' = [conns EXCEPT ![r] = @ + 1]
Give(r) == conns' = [conns EXCEPT ![r] = @ - 1]

ReleaseLocks(r) ==
    /\ adv' = [k \in Key |-> IF adv[k] = r THEN None ELSE adv[k]]
    /\ holder' = [p \in Provider |-> IF holder[p] = r THEN None ELSE holder[p]]

\* Session A was committed before a streaming answer starts, otherwise when
\* the endpoint has returned.
CommittedA(r) ==
    \/ pc[r] = "ended"
    \/ load[r].kind = "stream" /\ pc[r] \in {"wantB", "work"}

\* Mutant: the exception becomes an answer before get_session sees it, so
\* session A is committed.
FailKept(r, code) ==
    /\ result' = [result EXCEPT ![r] = code]
    /\ conns' = [conns EXCEPT ![r] = 0]
    /\ ReleaseLocks(r)
    /\ Goto(r, "ended")
    /\ UNCHANGED <<clock, load, clients, start, events, queue, slots, usage, results>>

\* An exception leaves the endpoint or a dependency: the sessions that are
\* open are rolled back, their connections go back to the pool.
Fail(r, code) ==
    /\ result' = [result EXCEPT ![r] = code]
    /\ events' = {e \in events : e.tx # r \/ CommittedA(r)}
    /\ slots' = {s \in slots : s.tx # r}
    /\ usage' = {u \in usage : u.tx # r}
    /\ conns' = [conns EXCEPT ![r] = 0]
    /\ ReleaseLocks(r)
    /\ Goto(r, "ended")
    /\ UNCHANGED <<clock, load, clients, start, queue, results>>

\* A JWT is checked without the database.
Arrive(r) ==
    /\ pc[r] = "idle"
    /\ Goto(r, IF load[r].cred = Jwt /\ load[r].kind # "oneshot" THEN "handler" ELSE "checkout")
    /\ UNCHANGED <<clock, load, conns, admission, oneshot, results, result>>

\* The first statement of session A: a connection, and NOW().
CheckoutA(r) ==
    /\ pc[r] = "checkout"
    /\ Take(r)
    /\ start' = [start EXCEPT ![r] = clock]
    /\ Goto(r, IF load[r].cred = Jwt THEN "handler" ELSE "key")
    /\ UNCHANGED <<clock, load, clients, adv, events, oneshot, results, result>>

\* has_any and find_by_raw_key.
Known(r) ==
    /\ pc[r] = "key"
    /\ load[r].cred \in clients
    /\ Goto(r, "limit")
    /\ UNCHANGED <<clock, load, conns, admission, oneshot, results, result>>

\* Without clients and without FREEAI_REQUIRE_AUTH a request without a header
\* passes require_client, and fails require_user_id.
Unknown(r) ==
    /\ pc[r] = "key"
    /\ load[r].cred \notin clients
    /\ Fail(r, IF load[r].cred = Nobody /\ clients = {} /\ ~RequireAuth
               THEN "no_user" ELSE "unauthorized")

\* Mutant: no advisory lock.
LockNothing(r) ==
    /\ pc[r] = "limit"
    /\ Goto(r, "count")
    /\ UNCHANGED <<clock, load, conns, admission, oneshot, results, result>>

\* pg_advisory_xact_lock in freeai_try_reserve_client.
LockKey(r) ==
    /\ pc[r] = "limit"
    /\ adv[load[r].cred] = None
    /\ adv' = [adv EXCEPT ![load[r].cred] = r]
    /\ Goto(r, "count")
    /\ UNCHANGED <<clock, load, conns, clients, start, events, oneshot, results, result>>

EventsSeen(r) ==
    {e \in events : /\ e.key = load[r].cred
                    /\ e.tx = r \/ CommittedA(e.tx)
                    /\ e.at + Window >= start[r]}

Admit(r) ==
    /\ pc[r] = "count"
    /\ Cardinality(EventsSeen(r)) < Rpm
    /\ events' = events \cup {[tx |-> r, key |-> load[r].cred, at |-> start[r]]}
    /\ Goto(r, "handler")
    /\ UNCHANGED <<clock, load, conns, clients, start, adv, oneshot, results, result>>

TooMany(r) ==
    /\ pc[r] = "count"
    /\ Cardinality(EventsSeen(r)) >= Rpm
    /\ Fail(r, "too_many")

\* Mutant: the answer is sent before session A is committed.
FinishLate(r) ==
    /\ pc[r] = "finish"
    /\ events' \in {events, {e \in events : e.tx # r}}
    /\ conns' = [conns EXCEPT ![r] = 0]
    /\ ReleaseLocks(r)
    /\ Goto(r, "ended")
    /\ UNCHANGED <<clock, load, clients, start, queue, slots, usage, results, result>>

\* The endpoint has returned an answer: get_session commits A.
Finish(r) ==
    /\ pc[r] = "finish"
    /\ conns' = [conns EXCEPT ![r] = 0]
    /\ ReleaseLocks(r)
    /\ Goto(r, "ended")
    /\ UNCHANGED <<clock, load, clients, start, events, queue, slots, usage, results, result>>

\* The same before a StreamingResponse is sent.
StartStream(r) ==
    /\ pc[r] = "handler"
    /\ load[r].kind = "stream"
    /\ conns' = [conns EXCEPT ![r] = 0]
    /\ ReleaseLocks(r)
    /\ Goto(r, "wantB")
    /\ UNCHANGED <<clock, load, clients, start, events, queue, slots, usage, results, result>>

\* COMMIT of A fails: the connection broke.
CommitFails(r) ==
    /\ pc[r] = "finish"
    /\ conns[r] > 0
    /\ Fail(r, "error")

StartChat(r) ==
    /\ pc[r] = "handler"
    /\ \/ load[r].kind = "chat"
       \/ load[r].kind = "responses" /\ load[r].prev = None
    /\ Goto(r, "wantB")
    /\ UNCHANGED <<clock, load, conns, admission, oneshot, results, result>>

\* Mutant: a missing previous response starts a new conversation.
LoadAny(r) ==
    /\ pc[r] = "handler"
    /\ load[r].kind = "responses" /\ load[r].prev # None
    /\ FreeConnection
    /\ Goto(r, "wantB")
    /\ UNCHANGED <<clock, load, conns, admission, oneshot, results, result>>

\* A short session of its own reads the history; a missing one is an error
\* that is returned, not raised, so that A is committed.
LoadState(r) ==
    /\ pc[r] = "handler"
    /\ load[r].kind = "responses" /\ load[r].prev # None
    /\ FreeConnection
    /\ IF load[r].prev \in stored
       THEN Goto(r, "wantB") /\ UNCHANGED result
       ELSE Goto(r, "finish") /\ result' = [result EXCEPT ![r] = "not_found"]
    /\ UNCHANGED <<clock, load, conns, admission, oneshot, results>>

CheckoutB(r) ==
    /\ pc[r] = "wantB"
    /\ Take(r)
    /\ Goto(r, "work")
    /\ UNCHANGED <<clock, load, admission, oneshot, results, result>>

\* Some provider answered: B is committed.
Answer(r) ==
    /\ pc[r] = "work"
    /\ answered' = answered \cup {r}
    /\ result' = [result EXCEPT ![r] = "ok"]
    /\ Give(r)
    /\ Goto(r, CASE load[r].kind = "chat" -> "finish"
                 [] load[r].kind = "responses" -> "save"
                 [] OTHER -> "ended")
    /\ UNCHANGED <<clock, load, admission, oneshot, stored>>

\* Every provider failed: B is rolled back.  /v1/chat/completions raises,
\* /v1/responses returns the error, a stream ends with it.
NoAnswer(r) ==
    /\ pc[r] = "work"
    /\ IF load[r].kind = "responses"
       THEN /\ result' = [result EXCEPT ![r] = "error"]
            /\ Give(r)
            /\ Goto(r, "finish")
            /\ UNCHANGED <<clock, load, admission, oneshot, results>>
       ELSE Fail(r, "error")

\* _save_response_state; whatever fails in it is logged and forgotten.
SaveState(r) ==
    /\ pc[r] = "save"
    /\ \/ FreeConnection /\ stored' = stored \cup {r}
       \/ UNCHANGED stored
    /\ Goto(r, "finish")
    /\ UNCHANGED <<clock, load, conns, admission, oneshot, answered, result>>

\* Candidates in priority order, the preferred one first.
StartOneshot(r) ==
    /\ pc[r] = "handler"
    /\ load[r].kind = "oneshot"
    /\ queue' = [queue EXCEPT ![r] = load[r].prefer]
    /\ Goto(r, "next")
    /\ UNCHANGED <<clock, load, conns, admission, holder, slots, usage, results, result>>

\* try_reserve takes the provider's row lock and keeps it (see Reservation);
\* it may find no room, or the provider parked, at any moment.
Reserve(r) ==
    /\ pc[r] = "next" /\ queue[r] # <<>>
    /\ LET p == Head(queue[r]) IN
         /\ holder[p] \in {None, r}
         /\ holder' = [holder EXCEPT ![p] = r]
         /\ \/ /\ slots' = slots \cup {[tx |-> r, at |-> p]}
               /\ Goto(r, "call")
               /\ UNCHANGED queue
            \/ /\ queue' = [queue EXCEPT ![r] = Tail(@)]
               /\ UNCHANGED <<pc, slots>>
    /\ UNCHANGED <<clock, load, conns, admission, usage, results, result>>

\* The provider failed: outcome and usage event are written, and the next
\* candidate is tried unless the request itself is at fault.
CallFails(r) ==
    /\ pc[r] = "call"
    /\ usage' = usage \cup {[tx |-> r, at |-> Head(queue[r]), ok |-> FALSE]}
    /\ \E clientError \in BOOLEAN :
          queue' = [queue EXCEPT ![r] = IF clientError THEN <<>> ELSE Tail(@)]
    /\ Goto(r, "next")
    /\ UNCHANGED <<clock, load, conns, admission, holder, slots, results, result>>

\* The provider answered.  The finally clause sees reservation_settled still
\* false and deletes the rate event; then the outcome is written.
CallSucceeds(r) ==
    /\ pc[r] = "call"
    /\ slots' = slots \ {[tx |-> r, at |-> Head(queue[r])]}
    /\ usage' = usage \cup {[tx |-> r, at |-> Head(queue[r]), ok |-> TRUE]}
    /\ result' = [result EXCEPT ![r] = "ok"]
    /\ Goto(r, "finish")
    /\ UNCHANGED <<clock, load, conns, admission, queue, holder, results>>

Exhausted(r) ==
    /\ pc[r] = "next" /\ queue[r] = <<>>
    /\ Fail(r, "error")

\* Each of two waits for a row the other has locked; PostgreSQL fails one.
WaitsFor(r, s) ==
    /\ pc[r] = "next" /\ queue[r] # <<>>
    /\ r # s /\ holder[Head(queue[r])] = s

Deadlock(r) ==
    /\ \E s \in Req : WaitsFor(r, s) /\ WaitsFor(s, r)
    /\ Fail(r, "error")

\* The task is cancelled during an upstream call.
Cancel(r) ==
    /\ pc[r] \in {"work", "call"}
    /\ Fail(r, "gone")

\* Mutant: only the dependency's own check-out has a time limit.
PoolTimeoutFirst(r) ==
    /\ pc[r] = "checkout"
    /\ ~FreeConnection
    /\ Fail(r, "error")

\* pool_timeout: whoever waits too long for a connection fails.
PoolTimeout(r) ==
    /\ \/ pc[r] \in {"checkout", "wantB"}
       \/ pc[r] = "handler" /\ load[r].kind = "responses" /\ load[r].prev # None
    /\ ~FreeConnection
    /\ Fail(r, "error")

\* DELETE /api/clients/{key_hash}.
Revoke(k) ==
    /\ clients' = clients \ {k}
    /\ k \in clients
    /\ UNCHANGED <<clock, load, pc, conns, start, adv, events, oneshot, results, result>>

Tick ==
    /\ clock < MaxClock
    /\ clock' = clock + 1
    /\ UNCHANGED <<load, pc, conns, admission, oneshot, results, result>>

Serve(r) ==
    \/ CheckoutA(r) \/ Known(r) \/ Unknown(r) \/ LockKey(r) \/ Admit(r) \/ TooMany(r)
    \/ Finish(r) \/ StartStream(r) \/ StartChat(r) \/ LoadState(r) \/ CheckoutB(r)
    \/ Answer(r) \/ NoAnswer(r) \/ SaveState(r) \/ StartOneshot(r) \/ Reserve(r)
    \/ CallFails(r) \/ CallSucceeds(r) \/ Exhausted(r) \/ Deadlock(r) \/ PoolTimeout(r)

Next ==
    \/ \E r \in Req : Arrive(r) \/ Serve(r) \/ CommitFails(r) \/ Cancel(r)
    \/ \E k \in Key : Revoke(k)
    \/ Tick

Spec == Init /\ [][Next]_vars

\* Every request that has arrived is carried on; upstream calls have timeouts.
FairSpec == Spec /\ \A r \in Req : WF_vars(Serve(r))

-----------------------------------------------------------------------------
\* Types of the variables; the pool never lends more than it has.
TypeOK ==
    /\ clock \in 0..MaxClock
    /\ load \in Loads
    /\ clients \in SUBSET Key
    /\ pc \in [Req -> {"idle", "checkout", "key", "limit", "count", "handler", "wantB",
                       "work", "save", "next", "call", "finish", "ended"}]
    /\ conns \in [Req -> 0..2] /\ InUse <= Pool
    /\ start \in [Req -> 0..MaxClock]
    /\ adv \in [Key -> Req \cup {None}]
    /\ events \subseteq [tx : Req, key : Key, at : 0..MaxClock]
    /\ queue \in [Req -> Seq(Provider)]
    /\ holder \in [Provider -> Req \cup {None}]
    /\ slots \subseteq [tx : Req, at : Provider]
    /\ usage \subseteq [tx : Req, at : Provider, ok : BOOLEAN]
    /\ answered \subseteq Req /\ stored \subseteq Req
    /\ result \in [Req -> {None, "ok", "error", "gone", "no_user", "unauthorized",
                           "too_many", "not_found"}]

\* Whatever the pods do at once, the requests of a client are counted as if
\* each had been admitted by one atomic step with room in its window.  Unlike
\* the provider's limiter this needs no row to exist: the lock is on the key.
Limiter(k) == INSTANCE RateWindow WITH
    Event <- [tx : Req, key : {k}, at : 0..MaxClock],
    Caps <- {[window |-> Window, limit |-> Rpm]},
    log <- {e \in events : e.key = k}
ImplementsLimiter ==
    /\ \A k \in Key : Limiter(k)!Init
    /\ [][\A k \in Key : \/ Limiter(k)!Next
                         \/ UNCHANGED {e \in events : e.key = k}]_events

\* A request of a client counts against its limit if and only if the client got
\* something for it: an answer, a stream, or an error that is returned instead
\* of raised.  Two sessions have to end in the right order for that.
ServedIsCounted ==
    \A r \in Req :
        pc[r] = "ended" /\ load[r].cred \in Key =>
            /\ result[r] \in {"ok", "not_found"} => \E e \in events : e.tx = r
            /\ result[r] \in {"unauthorized", "too_many"} => \A e \in events : e.tx # r
            /\ load[r].kind \in {"chat", "oneshot"} /\ result[r] # "ok" =>
                  \A e \in events : e.tx # r

\* Nobody is told of an answer that is not in the database, a conversation goes on
\* only from a turn that was answered, and a request whose own session failed
\* leaves no usage event of an embedding.
AccountsMatch ==
    /\ \A r \in Req : pc[r] = "ended" /\ result[r] = "ok" =>
          \/ r \in answered
          \/ \E u \in usage : u.tx = r /\ u.ok
    /\ stored \subseteq answered
    /\ \A r \in answered : load[r].kind = "responses" /\ load[r].prev # None =>
          load[r].prev \in stored
    /\ \A r \in Req : pc[r] = "ended" /\ result[r] # "ok" => \A u \in usage : u.tx # r

\* A client's requests queue for its lock with a connection each, while the one
\* in front needs a second connection: they all end all the same.
RequestsEnd == \A r \in Req : pc[r] # "idle" ~> pc[r] = "ended"

\* An embedding or a transcription that was answered is counted against the
\* provider's limits, as every call that reached a provider.
CallCounted ==
    \A r \in Req : pc[r] = "ended" /\ result[r] = "ok" /\ load[r].kind = "oneshot" =>
        \E s \in slots : s.tx = r
====
