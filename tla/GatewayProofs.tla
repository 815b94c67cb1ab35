---- MODULE GatewayProofs ----
(***************************************************************************)
(* Proofs about module Gateway, for any requests, client keys, sizes of    *)
(* the connection pool and limits of the clients.                          *)
(***************************************************************************)
EXTENDS Gateway, FiniteSetTheorems, TLAPS

Label == {"idle", "checkout", "key", "limit", "count", "handler", "wantB",
          "work", "save", "next", "call", "finish", "ended"}

\* Before the client's event is written, and between that and the end.
Unadmitted == {"idle", "checkout", "key", "limit", "count"}
Admitted == Label \ (Unadmitted \cup {"ended"})

\* A request holds at most one connection when it asks for another.
ConnsAt(r) ==
    /\ pc[r] \in {"idle", "checkout"} => conns[r] = 0
    /\ pc[r] # "work" => conns[r] <= 1
    /\ pc[r] = "work" => conns[r] >= 1

\* Only known keys are counted, and counting is done under the key's lock.
CountingAt(r) ==
    /\ pc[r] \in {"limit", "count"} => load[r].cred \in Key
    /\ pc[r] = "count" => adv[load[r].cred] = r

\* An event whose session has not been committed keeps its key locked.
LockedAt(r) == \A e \in events : e.tx = r => CommittedA(r) \/ adv[e.key] = r

\* A client's request has its event from its admission on.
EventAt(r) ==
    load[r].cred \in Key =>
        /\ pc[r] \in Unadmitted => \A e \in events : e.tx # r
        /\ pc[r] \in Admitted => \E e \in events : e.tx = r

\* The path of a request is the one of its endpoint.
PathAt(r) ==
    /\ pc[r] \in {"next", "call"} => load[r].kind = "oneshot"
    /\ pc[r] = "call" => queue[r] # <<>>
    /\ pc[r] \in {"wantB", "work", "save"} => load[r].kind # "oneshot"
    /\ pc[r] = "save" => load[r].kind = "responses" /\ result[r] = "ok" /\ r \in answered
    /\ pc[r] = "finish" =>
         /\ result[r] \in {"ok", "error", "not_found"}
         /\ load[r].kind \in {"chat", "oneshot"} => result[r] = "ok"
    /\ pc[r] \in {"wantB", "work", "save"} /\ load[r].kind = "responses" /\ load[r].prev # None =>
         load[r].prev \in stored

\* What a request was told of, or will be told of, was written; usage is only
\* written for embeddings and transcriptions.
WrittenAt(r) ==
    /\ pc[r] \in {"finish", "ended"} /\ result[r] = "ok" =>
         r \in answered \/ \E u \in usage : u.tx = r /\ u.ok
    /\ load[r].kind # "oneshot" => \A u \in usage : u.tx # r
    /\ pc[r] = "ended" /\ result[r] # "ok" => \A u \in usage : u.tx # r
    /\ r \in answered /\ load[r].kind = "responses" /\ load[r].prev # None =>
         load[r].prev \in stored

\* A request that has ended is counted as ServedIsCounted says.
ServedAt(r) ==
    pc[r] = "ended" /\ load[r].cred \in Key =>
        /\ result[r] \in {"ok", "not_found"} => \E e \in events : e.tx = r
        /\ result[r] \in {"unauthorized", "too_many"} => \A e \in events : e.tx # r
        /\ load[r].kind \in {"chat", "oneshot"} /\ result[r] # "ok" =>
              \A e \in events : e.tx # r

Promises(r) ==
    /\ ConnsAt(r) /\ CountingAt(r) /\ LockedAt(r) /\ EventAt(r)
    /\ PathAt(r) /\ WrittenAt(r) /\ ServedAt(r)

IInv ==
    /\ TypeOK
    /\ stored \subseteq answered
    /\ \A r \in Req : Promises(r)

-----------------------------------------------------------------------------
(* The steps of a request.                                                 *)

Act(r) == Arrive(r) \/ Serve(r) \/ CommitFails(r) \/ Cancel(r)

Failure == {"error", "gone", "no_user", "unauthorized", "too_many"}

\* The actions by which a request fails, and NoAnswer of /v1/responses.
Breaks(r) ==
    \/ Unknown(r) \/ TooMany(r) \/ CommitFails(r) \/ Exhausted(r)
    \/ Deadlock(r) \/ Cancel(r) \/ PoolTimeout(r)
    \/ NoAnswer(r) /\ load[r].kind # "responses"
ErrorReturned(r) == NoAnswer(r) /\ load[r].kind = "responses"

\* A request that breaks fails with a code, of which admission has its own.
LEMMA BreaksFail ==
    ASSUME NEW r, Breaks(r)
    PROVE  \E code \in Failure :
              /\ Fail(r, code)
              /\ code \in {"unauthorized", "no_user"} => pc[r] = "key"
              /\ code = "too_many" => pc[r] = "count"
              /\ pc[r] \notin {"idle", "ended"}
<1>1. CASE Unknown(r)
  BY <1>1 DEF Unknown, Failure
<1>2. CASE TooMany(r)
  BY <1>2 DEF TooMany, Failure
<1>3. CASE CommitFails(r)
  BY <1>3 DEF CommitFails, Failure
<1>4. CASE Exhausted(r) \/ Deadlock(r)
  BY <1>4 DEF Exhausted, Deadlock, WaitsFor, Failure
<1>5. CASE Cancel(r)
  BY <1>5 DEF Cancel, Failure
<1>6. CASE PoolTimeout(r)
  BY <1>6 DEF PoolTimeout, Failure
<1>7. CASE NoAnswer(r) /\ load[r].kind # "responses"
  BY <1>7 DEF NoAnswer, Failure
<1> QED
  BY <1>1, <1>2, <1>3, <1>4, <1>5, <1>6, <1>7 DEF Breaks

\* The steps of a request, those that break it taken together.
LEMMA ActCases ==
    ASSUME NEW r, Act(r)
    PROVE  \/ Breaks(r) \/ ErrorReturned(r) \/ Arrive(r) \/ CheckoutA(r) \/ Known(r)
           \/ LockKey(r) \/ Admit(r) \/ Finish(r) \/ StartStream(r) \/ StartChat(r)
           \/ LoadState(r) \/ CheckoutB(r) \/ Answer(r) \/ SaveState(r)
           \/ StartOneshot(r) \/ Reserve(r) \/ CallFails(r) \/ CallSucceeds(r)
BY DEF Act, Serve, Breaks, ErrorReturned

\* What a step of r leaves alone.
Apart(r) ==
    /\ UNCHANGED <<clock, load, clients>>
    /\ stored \subseteq stored'
    /\ \A q \in Req \ {r} :
          /\ pc'[q] = pc[q] /\ conns'[q] = conns[q] /\ queue'[q] = queue[q]
          /\ result'[q] = result[q]
          /\ q \in answered' <=> q \in answered
          /\ \A k \in Key : adv[k] = q => adv'[k] = q
          /\ \A e : e.tx = q => (e \in events' <=> e \in events)
          /\ \A u : u.tx = q => (u \in usage' <=> u \in usage)

Typed ==
    /\ load \in [Req -> [kind : Kind, cred : Cred, prefer : Seq(Provider), prev : Req \cup {None}]]
    /\ pc \in [Req -> Label]
    /\ conns \in [Req -> 0..2]
    /\ queue \in [Req -> Seq(Provider)]
    /\ result \in [Req -> Failure \cup {None, "ok", "not_found"}]
    /\ adv \in [Key -> Req \cup {None}]
    /\ clients \subseteq Key
    /\ \A e \in events : e.tx \in Req /\ e.key \in Key

\* The types that the steps rely on.
LEMMA ActTyped ==
    ASSUME TypeOK
    PROVE  Typed
BY LoadsAssumption DEF TypeOK, Typed, Label, Failure

\* A step of one request leaves the others what they rely on.
LEMMA ActApart ==
    ASSUME Typed, NEW r \in Req, Act(r)
    PROVE  Apart(r)
<1>a. pc \in [Req -> Label] /\ conns \in [Req -> 0..2] /\ queue \in [Req -> Seq(Provider)]
  BY DEF Typed
<1>b. result \in [Req -> Failure \cup {None, "ok", "not_found"}] /\ adv \in [Key -> Req \cup {None}]
  BY DEF Typed
<1>c. r # None
  BY NoneAssumption
<1> USE <1>a, <1>b DEF Apart, Goto, admission, oneshot, results, ReleaseLocks
<1>1. CASE Breaks(r)
  <2>1. PICK code \in Failure : Fail(r, code)
    BY <1>1, BreaksFail
  <2> QED
    BY <2>1, <1>c DEF Fail
<1>2. CASE ErrorReturned(r)
  BY <1>2 DEF ErrorReturned, NoAnswer, Give
<1>3. CASE Arrive(r) \/ Known(r) \/ StartChat(r)
  BY <1>3 DEF Arrive, Known, StartChat
<1>3a. CASE LockKey(r)
  BY <1>3a, NoneAssumption DEF LockKey
<1>3b. CASE Admit(r)
  BY <1>3b DEF Admit
<1>4. CASE CheckoutA(r)
  BY <1>4 DEF CheckoutA, Take
<1>5. CASE CheckoutB(r)
  BY <1>5 DEF CheckoutB, Take
<1>6. CASE Finish(r) \/ StartStream(r)
  BY <1>6, <1>c DEF Finish, StartStream
<1>7. CASE LoadState(r)
  BY <1>7 DEF LoadState
<1>8. CASE Answer(r)
  BY <1>8 DEF Answer, Give
<1>9. CASE SaveState(r)
  BY <1>9 DEF SaveState
<1>10. CASE StartOneshot(r)
  BY <1>10 DEF StartOneshot
<1>11. CASE Reserve(r)
  BY <1>11 DEF Reserve
<1>12. CASE CallFails(r)
  BY <1>12 DEF CallFails
<1>13. CASE CallSucceeds(r)
  BY <1>13 DEF CallSucceeds
<1> QED
  BY <1>1, <1>2, <1>3, <1>3a, <1>3b, <1>4, <1>5, <1>6, <1>7, <1>8, <1>9, <1>10, <1>11, <1>12,
     <1>13, ActCases

\* The other requests keep their promises.
LEMMA OthersStand ==
    ASSUME Typed, NEW r \in Req, Act(r), NEW q \in Req \ {r}, Promises(q)
    PROVE  Promises(q)'
<1>0. Apart(r)
  BY ActApart
<1>1. /\ load' = load /\ stored \subseteq stored'
      /\ pc'[q] = pc[q] /\ conns'[q] = conns[q] /\ queue'[q] = queue[q]
      /\ result'[q] = result[q]
      /\ q \in answered' <=> q \in answered
      /\ \A k \in Key : adv[k] = q => adv'[k] = q
      /\ \A e : e.tx = q => (e \in events' <=> e \in events)
      /\ \A u : u.tx = q => (u \in usage' <=> u \in usage)
  BY <1>0 DEF Apart
<1>2. ConnsAt(q)'
  BY <1>1 DEF Promises, ConnsAt
<1>3. CountingAt(q)'
  BY <1>1 DEF Promises, CountingAt
<1>4. LockedAt(q)'
  BY <1>1 DEF Promises, LockedAt, CommittedA, Typed
<1>5. EventAt(q)'
  BY <1>1 DEF Promises, EventAt
<1>6. PathAt(q)'
  BY <1>1 DEF Promises, PathAt
<1>7. WrittenAt(q)'
  BY <1>1 DEF Promises, WrittenAt
<1>8. ServedAt(q)'
  BY <1>1 DEF Promises, ServedAt
<1> QED
  BY <1>2, <1>3, <1>4, <1>5, <1>6, <1>7, <1>8 DEF Promises

\* The request that takes the step keeps its own.
LEMMA OwnStands ==
    ASSUME Typed, stored \subseteq answered, NEW r \in Req, Promises(r), Act(r)
    PROVE  Promises(r)'
<1>a. /\ pc \in [Req -> Label] /\ conns \in [Req -> 0..2] /\ queue \in [Req -> Seq(Provider)]
      /\ result \in [Req -> Failure \cup {None, "ok", "not_found"}]
      /\ adv \in [Key -> Req \cup {None}]
      /\ \A e \in events : e.tx \in Req /\ e.key \in Key
      /\ load[r].kind \in Kind /\ load[r].cred \in Cred /\ clients \subseteq Key
      /\ stored \subseteq answered
  BY DEF Typed
<1>b. pc[r] \in Label /\ conns[r] \in 0..2
  BY <1>a
<1>c. /\ ConnsAt(r) /\ CountingAt(r) /\ LockedAt(r) /\ EventAt(r)
      /\ PathAt(r) /\ WrittenAt(r) /\ ServedAt(r)
  BY DEF Promises
<1> HIDE DEF Typed
<1> USE <1>a, <1>b DEF Goto, admission, oneshot, results
<1>1. CASE Arrive(r)
  <2>1. ConnsAt(r)'
    BY <1>c, <1>1 DEF Arrive, ConnsAt
  <2>2. CountingAt(r)'
    BY <1>c, <1>1 DEF Arrive, CountingAt
  <2>3. LockedAt(r)'
    BY <1>c, <1>1 DEF Arrive, LockedAt, CommittedA, CountingAt, EventAt, Unadmitted
  <2>4. EventAt(r)'
    BY <1>c, <1>1, CredAssumption DEF Arrive, EventAt, Unadmitted, Admitted, Label
  <2>5. PathAt(r)'
    BY <1>c, <1>1 DEF Arrive, PathAt
  <2>6. WrittenAt(r)'
    BY <1>c, <1>1 DEF Arrive, WrittenAt, PathAt
  <2>7. ServedAt(r)'
    BY <1>c, <1>1 DEF Arrive, ServedAt, EventAt, Unadmitted, Admitted, Label, PathAt
  <2> QED
    BY <2>1, <2>2, <2>3, <2>4, <2>5, <2>6, <2>7 DEF Promises
<1>2. CASE CheckoutA(r)
  <2>1. ConnsAt(r)'
    BY <1>c, <1>2 DEF CheckoutA, Take, ConnsAt
  <2>2. CountingAt(r)'
    BY <1>c, <1>2 DEF CheckoutA, Take, CountingAt
  <2>3. LockedAt(r)'
    BY <1>c, <1>2 DEF CheckoutA, Take, LockedAt, CommittedA, CountingAt, EventAt, Unadmitted
  <2>4. EventAt(r)'
    BY <1>c, <1>2, CredAssumption DEF CheckoutA, Take, EventAt, Unadmitted, Admitted, Label
  <2>5. PathAt(r)'
    BY <1>c, <1>2 DEF CheckoutA, Take, PathAt
  <2>6. WrittenAt(r)'
    BY <1>c, <1>2 DEF CheckoutA, Take, WrittenAt, PathAt
  <2>7. ServedAt(r)'
    BY <1>c, <1>2 DEF CheckoutA, Take, ServedAt, EventAt, Unadmitted, Admitted, Label, PathAt
  <2> QED
    BY <2>1, <2>2, <2>3, <2>4, <2>5, <2>6, <2>7 DEF Promises
<1>3. CASE Known(r)
  <2>1. ConnsAt(r)'
    BY <1>c, <1>3 DEF Known, ConnsAt
  <2>2. CountingAt(r)'
    BY <1>c, <1>3 DEF Known, CountingAt
  <2>3. LockedAt(r)'
    BY <1>c, <1>3 DEF Known, LockedAt, CommittedA, CountingAt, EventAt, Unadmitted
  <2>4. EventAt(r)'
    BY <1>c, <1>3 DEF Known, EventAt, Unadmitted, Admitted, Label
  <2>5. PathAt(r)'
    BY <1>c, <1>3 DEF Known, PathAt
  <2>6. WrittenAt(r)'
    BY <1>c, <1>3 DEF Known, WrittenAt, PathAt
  <2>7. ServedAt(r)'
    BY <1>c, <1>3 DEF Known, ServedAt, EventAt, Unadmitted, Admitted, Label, PathAt
  <2> QED
    BY <2>1, <2>2, <2>3, <2>4, <2>5, <2>6, <2>7 DEF Promises
<1>4. CASE LockKey(r)
  <2>1. ConnsAt(r)'
    BY <1>c, <1>4 DEF LockKey, ConnsAt
  <2>2. CountingAt(r)'
    BY <1>c, <1>4 DEF LockKey, CountingAt
  <2>3. LockedAt(r)'
    BY <1>c, <1>4 DEF LockKey, LockedAt, CommittedA, CountingAt, EventAt, Unadmitted
  <2>4. EventAt(r)'
    BY <1>c, <1>4 DEF LockKey, EventAt, Unadmitted, Admitted, Label
  <2>5. PathAt(r)'
    BY <1>c, <1>4 DEF LockKey, PathAt
  <2>6. WrittenAt(r)'
    BY <1>c, <1>4 DEF LockKey, WrittenAt, PathAt
  <2>7. ServedAt(r)'
    BY <1>c, <1>4 DEF LockKey, ServedAt, EventAt, Unadmitted, Admitted, Label, PathAt
  <2> QED
    BY <2>1, <2>2, <2>3, <2>4, <2>5, <2>6, <2>7 DEF Promises
<1>5. CASE Admit(r)
  <2>1. ConnsAt(r)'
    BY <1>c, <1>5 DEF Admit, ConnsAt
  <2>2. CountingAt(r)'
    BY <1>c, <1>5 DEF Admit, CountingAt
  <2>3. LockedAt(r)'
    BY <1>c, <1>5 DEF Admit, LockedAt, CommittedA, CountingAt, EventAt, Unadmitted
  <2>4. EventAt(r)'
    <3>1. [tx |-> r, key |-> load[r].cred, at |-> start[r]] \in events' /\ pc'[r] = "handler"
      BY <1>5 DEF Admit
    <3>2. \E e \in events' : e.tx = r
      BY <3>1
    <3> QED
      BY <3>1, <3>2 DEF EventAt, Unadmitted
  <2>5. PathAt(r)'
    BY <1>c, <1>5 DEF Admit, PathAt
  <2>6. WrittenAt(r)'
    BY <1>c, <1>5 DEF Admit, WrittenAt, PathAt
  <2>7. ServedAt(r)'
    BY <1>c, <1>5 DEF Admit, ServedAt, EventAt, Unadmitted, Admitted, Label, PathAt
  <2> QED
    BY <2>1, <2>2, <2>3, <2>4, <2>5, <2>6, <2>7 DEF Promises
<1>6. CASE Finish(r)
  <2>1. ConnsAt(r)'
    BY <1>c, <1>6 DEF Finish, ReleaseLocks, ConnsAt
  <2>2. CountingAt(r)'
    BY <1>c, <1>6 DEF Finish, ReleaseLocks, CountingAt
  <2>3. LockedAt(r)'
    BY <1>c, <1>6 DEF Finish, ReleaseLocks, LockedAt, CommittedA, CountingAt, EventAt, Unadmitted
  <2>4. EventAt(r)'
    BY <1>c, <1>6 DEF Finish, ReleaseLocks, EventAt, Unadmitted, Admitted, Label
  <2>5. PathAt(r)'
    BY <1>c, <1>6 DEF Finish, ReleaseLocks, PathAt
  <2>6. WrittenAt(r)'
    BY <1>c, <1>6 DEF Finish, ReleaseLocks, WrittenAt, PathAt
  <2>7. ServedAt(r)'
    BY <1>c, <1>6 DEF Finish, ReleaseLocks, ServedAt, EventAt, Unadmitted, Admitted, Label, PathAt
  <2> QED
    BY <2>1, <2>2, <2>3, <2>4, <2>5, <2>6, <2>7 DEF Promises
<1>7. CASE StartStream(r)
  <2>1. ConnsAt(r)'
    BY <1>c, <1>7 DEF StartStream, ReleaseLocks, ConnsAt
  <2>2. CountingAt(r)'
    BY <1>c, <1>7 DEF StartStream, ReleaseLocks, CountingAt
  <2>3. LockedAt(r)'
    BY <1>c, <1>7 DEF StartStream, ReleaseLocks, LockedAt, CommittedA, CountingAt, EventAt, Unadmitted
  <2>4. EventAt(r)'
    BY <1>c, <1>7 DEF StartStream, ReleaseLocks, EventAt, Unadmitted, Admitted, Label
  <2>5. PathAt(r)'
    BY <1>c, <1>7 DEF StartStream, ReleaseLocks, PathAt
  <2>6. WrittenAt(r)'
    BY <1>c, <1>7 DEF StartStream, ReleaseLocks, WrittenAt, PathAt
  <2>7. ServedAt(r)'
    BY <1>c, <1>7 DEF StartStream, ReleaseLocks, ServedAt, EventAt, Unadmitted, Admitted, Label, PathAt
  <2> QED
    BY <2>1, <2>2, <2>3, <2>4, <2>5, <2>6, <2>7 DEF Promises
<1>8. CASE StartChat(r)
  <2>1. ConnsAt(r)'
    BY <1>c, <1>8 DEF StartChat, ConnsAt
  <2>2. CountingAt(r)'
    BY <1>c, <1>8 DEF StartChat, CountingAt
  <2>3. LockedAt(r)'
    BY <1>c, <1>8 DEF StartChat, LockedAt, CommittedA, CountingAt, EventAt, Unadmitted
  <2>4. EventAt(r)'
    BY <1>c, <1>8 DEF StartChat, EventAt, Unadmitted, Admitted, Label
  <2>5. PathAt(r)'
    BY <1>c, <1>8 DEF StartChat, PathAt
  <2>6. WrittenAt(r)'
    BY <1>c, <1>8 DEF StartChat, WrittenAt, PathAt
  <2>7. ServedAt(r)'
    BY <1>c, <1>8 DEF StartChat, ServedAt, EventAt, Unadmitted, Admitted, Label, PathAt
  <2> QED
    BY <2>1, <2>2, <2>3, <2>4, <2>5, <2>6, <2>7 DEF Promises
<1>9. CASE LoadState(r)
  <2>1. ConnsAt(r)'
    BY <1>c, <1>9 DEF LoadState, ConnsAt
  <2>2. CountingAt(r)'
    BY <1>c, <1>9 DEF LoadState, CountingAt
  <2>3. LockedAt(r)'
    BY <1>c, <1>9 DEF LoadState, LockedAt, CommittedA, CountingAt, EventAt, Unadmitted
  <2>4. EventAt(r)'
    BY <1>c, <1>9 DEF LoadState, EventAt, Unadmitted, Admitted, Label
  <2>5. PathAt(r)'
    BY <1>c, <1>9 DEF LoadState, PathAt
  <2>6. WrittenAt(r)'
    BY <1>c, <1>9 DEF LoadState, WrittenAt, PathAt
  <2>7. ServedAt(r)'
    BY <1>c, <1>9 DEF LoadState, ServedAt, EventAt, Unadmitted, Admitted, Label, PathAt
  <2> QED
    BY <2>1, <2>2, <2>3, <2>4, <2>5, <2>6, <2>7 DEF Promises
<1>10. CASE CheckoutB(r)
  <2>1. ConnsAt(r)'
    BY <1>c, <1>10 DEF CheckoutB, Take, ConnsAt
  <2>2. CountingAt(r)'
    BY <1>c, <1>10 DEF CheckoutB, Take, CountingAt
  <2>3. LockedAt(r)'
    BY <1>c, <1>10 DEF CheckoutB, Take, LockedAt, CommittedA, CountingAt, EventAt, Unadmitted
  <2>4. EventAt(r)'
    BY <1>c, <1>10 DEF CheckoutB, Take, EventAt, Unadmitted, Admitted, Label
  <2>5. PathAt(r)'
    BY <1>c, <1>10 DEF CheckoutB, Take, PathAt
  <2>6. WrittenAt(r)'
    BY <1>c, <1>10 DEF CheckoutB, Take, WrittenAt, PathAt
  <2>7. ServedAt(r)'
    BY <1>c, <1>10 DEF CheckoutB, Take, ServedAt, EventAt, Unadmitted, Admitted, Label, PathAt
  <2> QED
    BY <2>1, <2>2, <2>3, <2>4, <2>5, <2>6, <2>7 DEF Promises
<1>11. CASE Answer(r)
  <2>1. ConnsAt(r)'
    BY <1>c, <1>11 DEF Answer, Give, ConnsAt
  <2>2. CountingAt(r)'
    BY <1>c, <1>11 DEF Answer, Give, CountingAt
  <2>3. LockedAt(r)'
    BY <1>c, <1>11 DEF Answer, Give, LockedAt, CommittedA, CountingAt, EventAt, Unadmitted
  <2>4. EventAt(r)'
    BY <1>c, <1>11 DEF Answer, Give, EventAt, Unadmitted, Admitted, Label
  <2>5. PathAt(r)'
    BY <1>c, <1>11 DEF Answer, Give, PathAt
  <2>6. WrittenAt(r)'
    BY <1>c, <1>11 DEF Answer, Give, WrittenAt, PathAt
  <2>7. ServedAt(r)'
    BY <1>c, <1>11 DEF Answer, Give, ServedAt, EventAt, Unadmitted, Admitted, Label, PathAt
  <2> QED
    BY <2>1, <2>2, <2>3, <2>4, <2>5, <2>6, <2>7 DEF Promises
<1>12. CASE ErrorReturned(r)
  <2>1. ConnsAt(r)'
    BY <1>c, <1>12 DEF ErrorReturned, NoAnswer, Give, ConnsAt
  <2>2. CountingAt(r)'
    BY <1>c, <1>12 DEF ErrorReturned, NoAnswer, Give, CountingAt
  <2>3. LockedAt(r)'
    BY <1>c, <1>12 DEF ErrorReturned, NoAnswer, Give, LockedAt, CommittedA, CountingAt, EventAt, Unadmitted
  <2>4. EventAt(r)'
    BY <1>c, <1>12 DEF ErrorReturned, NoAnswer, Give, EventAt, Unadmitted, Admitted, Label
  <2>5. PathAt(r)'
    BY <1>c, <1>12 DEF ErrorReturned, NoAnswer, Give, PathAt
  <2>6. WrittenAt(r)'
    BY <1>c, <1>12 DEF ErrorReturned, NoAnswer, Give, WrittenAt, PathAt
  <2>7. ServedAt(r)'
    BY <1>c, <1>12 DEF ErrorReturned, NoAnswer, Give, ServedAt, EventAt, Unadmitted, Admitted, Label, PathAt
  <2> QED
    BY <2>1, <2>2, <2>3, <2>4, <2>5, <2>6, <2>7 DEF Promises
<1>13. CASE SaveState(r)
  <2>1. ConnsAt(r)'
    BY <1>c, <1>13 DEF SaveState, ConnsAt
  <2>2. CountingAt(r)'
    BY <1>c, <1>13 DEF SaveState, CountingAt
  <2>3. LockedAt(r)'
    BY <1>c, <1>13 DEF SaveState, LockedAt, CommittedA, CountingAt, EventAt, Unadmitted
  <2>4. EventAt(r)'
    BY <1>c, <1>13 DEF SaveState, EventAt, Unadmitted, Admitted, Label
  <2>5. PathAt(r)'
    BY <1>c, <1>13 DEF SaveState, PathAt
  <2>6. WrittenAt(r)'
    BY <1>c, <1>13 DEF SaveState, WrittenAt, PathAt
  <2>7. ServedAt(r)'
    BY <1>c, <1>13 DEF SaveState, ServedAt, EventAt, Unadmitted, Admitted, Label, PathAt
  <2> QED
    BY <2>1, <2>2, <2>3, <2>4, <2>5, <2>6, <2>7 DEF Promises
<1>14. CASE StartOneshot(r)
  <2>1. ConnsAt(r)'
    BY <1>c, <1>14 DEF StartOneshot, ConnsAt
  <2>2. CountingAt(r)'
    BY <1>c, <1>14 DEF StartOneshot, CountingAt
  <2>3. LockedAt(r)'
    BY <1>c, <1>14 DEF StartOneshot, LockedAt, CommittedA, CountingAt, EventAt, Unadmitted
  <2>4. EventAt(r)'
    BY <1>c, <1>14 DEF StartOneshot, EventAt, Unadmitted, Admitted, Label
  <2>5. PathAt(r)'
    BY <1>c, <1>14 DEF StartOneshot, PathAt
  <2>6. WrittenAt(r)'
    BY <1>c, <1>14 DEF StartOneshot, WrittenAt, PathAt
  <2>7. ServedAt(r)'
    BY <1>c, <1>14 DEF StartOneshot, ServedAt, EventAt, Unadmitted, Admitted, Label, PathAt
  <2> QED
    BY <2>1, <2>2, <2>3, <2>4, <2>5, <2>6, <2>7 DEF Promises
<1>15. CASE Reserve(r)
  <2>1. ConnsAt(r)'
    BY <1>c, <1>15 DEF Reserve, ConnsAt
  <2>2. CountingAt(r)'
    BY <1>c, <1>15 DEF Reserve, CountingAt
  <2>3. LockedAt(r)'
    BY <1>c, <1>15 DEF Reserve, LockedAt, CommittedA, CountingAt, EventAt, Unadmitted
  <2>4. EventAt(r)'
    BY <1>c, <1>15 DEF Reserve, EventAt, Unadmitted, Admitted, Label
  <2>5. PathAt(r)'
    BY <1>c, <1>15 DEF Reserve, PathAt
  <2>6. WrittenAt(r)'
    BY <1>c, <1>15 DEF Reserve, WrittenAt, PathAt
  <2>7. ServedAt(r)'
    BY <1>c, <1>15 DEF Reserve, ServedAt, EventAt, Unadmitted, Admitted, Label, PathAt
  <2> QED
    BY <2>1, <2>2, <2>3, <2>4, <2>5, <2>6, <2>7 DEF Promises
<1>16. CASE CallFails(r)
  <2>1. ConnsAt(r)'
    BY <1>c, <1>16 DEF CallFails, ConnsAt
  <2>2. CountingAt(r)'
    BY <1>c, <1>16 DEF CallFails, CountingAt
  <2>3. LockedAt(r)'
    BY <1>c, <1>16 DEF CallFails, LockedAt, CommittedA, CountingAt, EventAt, Unadmitted
  <2>4. EventAt(r)'
    BY <1>c, <1>16 DEF CallFails, EventAt, Unadmitted, Admitted, Label
  <2>5. PathAt(r)'
    BY <1>c, <1>16 DEF CallFails, PathAt
  <2>6. WrittenAt(r)'
    BY <1>c, <1>16 DEF CallFails, WrittenAt, PathAt
  <2>7. ServedAt(r)'
    BY <1>c, <1>16 DEF CallFails, ServedAt, EventAt, Unadmitted, Admitted, Label, PathAt
  <2> QED
    BY <2>1, <2>2, <2>3, <2>4, <2>5, <2>6, <2>7 DEF Promises
<1>17. CASE CallSucceeds(r)
  <2>1. ConnsAt(r)'
    BY <1>c, <1>17 DEF CallSucceeds, ConnsAt
  <2>2. CountingAt(r)'
    BY <1>c, <1>17 DEF CallSucceeds, CountingAt
  <2>3. LockedAt(r)'
    BY <1>c, <1>17 DEF CallSucceeds, LockedAt, CommittedA, CountingAt, EventAt, Unadmitted
  <2>4. EventAt(r)'
    BY <1>c, <1>17 DEF CallSucceeds, EventAt, Unadmitted, Admitted, Label
  <2>5. PathAt(r)'
    BY <1>c, <1>17 DEF CallSucceeds, PathAt
  <2>6. WrittenAt(r)'
    <3>1. /\ [tx |-> r, at |-> Head(queue[r]), ok |-> TRUE] \in usage' /\ result'[r] = "ok"
          /\ UNCHANGED <<load, answered, stored>>
      BY <1>17 DEF CallSucceeds
    <3>2. \E u \in usage' : u.tx = r /\ u.ok
      BY <3>1
    <3>3. load[r].kind = "oneshot"
      BY <1>c, <1>17 DEF CallSucceeds, PathAt
    <3> QED
      BY <3>1, <3>2, <3>3, <1>c DEF WrittenAt
  <2>7. ServedAt(r)'
    BY <1>c, <1>17 DEF CallSucceeds, ServedAt, EventAt, Unadmitted, Admitted, Label, PathAt
  <2> QED
    BY <2>1, <2>2, <2>3, <2>4, <2>5, <2>6, <2>7 DEF Promises
<1>18. CASE Breaks(r)
  <2>0. PICK code \in Failure :
          /\ Fail(r, code)
          /\ code \in {"unauthorized", "no_user"} => pc[r] = "key"
          /\ code = "too_many" => pc[r] = "count"
          /\ pc[r] \notin {"idle", "ended"}
    BY <1>18, BreaksFail
  <2> USE <2>0 DEF Fail
  <2>1. ConnsAt(r)'
    BY <1>c DEF ConnsAt
  <2>2. CountingAt(r)'
    BY <1>c DEF CountingAt
  <2>3. LockedAt(r)'
    BY <1>c DEF LockedAt, CommittedA
  <2>4. EventAt(r)'
    BY <1>c DEF EventAt, Unadmitted, Admitted, Label
  <2>5. PathAt(r)'
    BY <1>c DEF PathAt, Failure
  <2>6. WrittenAt(r)'
    BY <1>c DEF WrittenAt, Failure
  <2>7. ServedAt(r)'
    BY <1>c DEF ServedAt, EventAt, Unadmitted, CommittedA, Failure
  <2> QED
    BY <2>1, <2>2, <2>3, <2>4, <2>5, <2>6, <2>7 DEF Promises
<1> QED
  BY <1>1, <1>2, <1>3, <1>4, <1>5, <1>6, <1>7, <1>8, <1>9, <1>10, <1>11, <1>12, <1>13, <1>14, <1>15, <1>16, <1>17, <1>18, ActCases

-----------------------------------------------------------------------------
(* The connection pool.                                                    *)

\* The connections that are lent can be counted.
LEMMA LeasesFinite == IsFiniteSet(Leases)
<1>0. 1 \in Int /\ 2 \in Int
  OBVIOUS
<1>1. IsFiniteSet(1..2)
  BY <1>0, FS_Interval
<1>2. IsFiniteSet(Req \X (1..2))
  BY <1>1, ReqAssumption, FS_Product
<1> QED
  BY <1>2, FS_Subset DEF Leases

\* What a step of r does to its connections.
Borrows(r) == FreeConnection /\ conns[r] <= 1 /\ conns' = [conns EXCEPT ![r] = @ + 1]
Returns(r) == conns' \in [Req -> 0..2] /\ \A q \in Req : conns'[q] <= conns[q]

\* A step takes one connection while there is one, or gives some back.
LEMMA ConnsChange ==
    ASSUME Typed, NEW r \in Req, ConnsAt(r), Act(r)
    PROVE  Borrows(r) \/ Returns(r)
<1>a. conns \in [Req -> 0..2] /\ pc \in [Req -> Label]
  BY DEF Typed
<1>b. \A q \in Req : conns[q] \in 0..2 /\ conns[q] <= conns[q]
  BY <1>a
<1> HIDE DEF Typed
<1>1. CASE UNCHANGED conns
  BY <1>1, <1>a, <1>b DEF Returns
<1>2. CASE conns' = [conns EXCEPT ![r] = 0]
  BY <1>2, <1>a, <1>b DEF Returns
<1>3. CASE Give(r) /\ pc[r] = "work"
  <2>1. conns[r] \in 1..2
    BY <1>3, <1>b DEF ConnsAt
  <2> QED
    BY <2>1, <1>3, <1>a, <1>b DEF Returns, Give
<1>4. CASE Take(r) /\ pc[r] \in {"checkout", "wantB"}
  BY <1>4, <1>a, <1>b DEF Borrows, Take, ConnsAt
<1>5. CASE Breaks(r)
  BY <1>5, <1>2, BreaksFail DEF Fail
<1> QED
  BY <1>1, <1>2, <1>3, <1>4, <1>5, ActCases
  DEF Arrive, CheckoutA, Known, LockKey, Admit, Finish, StartStream, StartChat, LoadState,
      CheckoutB, Answer, ErrorReturned, NoAnswer, SaveState, StartOneshot, Reserve, CallFails,
      CallSucceeds

\* No step lends a connection that the pool does not have.
LEMMA PoolStep ==
    ASSUME Typed, InUse <= Pool, NEW r \in Req, ConnsAt(r), Act(r)
    PROVE  conns' \in [Req -> 0..2] /\ InUse' <= Pool
<1>a. conns \in [Req -> 0..2]
  BY DEF Typed
<1>b. InUse \in Nat /\ Pool \in Nat
  BY LeasesFinite, FS_CardinalityType, BoundsAssumption DEF InUse
<1>1. CASE Returns(r)
  <2>1. Leases' \subseteq Leases
    <3>1. SUFFICES ASSUME NEW l \in Req \X (1..2), l[2] <= conns'[l[1]]
                   PROVE  l[2] <= conns[l[1]]
      BY DEF Leases
    <3>2. l[1] \in Req /\ l[2] \in 1..2
      OBVIOUS
    <3>3. conns[l[1]] \in 0..2 /\ conns'[l[1]] \in 0..2 /\ conns'[l[1]] <= conns[l[1]]
      BY <3>2, <1>1, <1>a DEF Returns
    <3> QED
      BY <3>1, <3>2, <3>3
  <2>2. Cardinality(Leases') \in Nat /\ Cardinality(Leases') <= Cardinality(Leases)
    BY <2>1, LeasesFinite, FS_Subset, FS_CardinalityType
  <2> QED
    BY <1>1, <2>2, <1>b DEF InUse, Returns
<1>2. CASE Borrows(r)
  <2>0. conns[r] \in 0..1
    BY <1>2, <1>a DEF Borrows
  <2>1. Leases' = Leases \cup {<<r, conns[r] + 1>>}
    <3>1. <<r, conns[r] + 1>> \in Req \X (1..2)
      BY <2>0
    <3>2. \A q \in Req : conns[q] \in 0..2
      BY <1>a
    <3>3. \A q \in Req : conns'[q] = IF q = r THEN conns[r] + 1 ELSE conns[q]
      BY <1>2, <1>a DEF Borrows
    <3>4. ASSUME NEW l \in Req \X (1..2)
          PROVE  l[2] <= conns'[l[1]] <=> (l[2] <= conns[l[1]] \/ l = <<r, conns[r] + 1>>)
      <4>1. PICK q \in Req, n \in 1..2 : l = <<q, n>>
        OBVIOUS
      <4>2. n <= conns'[q] <=> (n <= conns[q] \/ (q = r /\ n = conns[r] + 1))
        BY <3>2, <3>3, <2>0
      <4> QED
        BY <4>1, <4>2
    <3> QED
      BY <3>1, <3>4 DEF Leases
  <2>2. <<r, conns[r] + 1>> \notin Leases
    BY <2>0 DEF Leases
  <2>3. Cardinality(Leases') = Cardinality(Leases) + 1
    BY <2>1, <2>2, LeasesFinite, FS_AddElement
  <2>4. conns' \in [Req -> 0..2]
    BY <1>2, <2>0, <1>a DEF Borrows
  <2> QED
    BY <1>2, <2>3, <2>4, <1>b DEF InUse, Borrows, FreeConnection
<1> QED
  BY <1>1, <1>2, ConnsChange
-----------------------------------------------------------------------------
(* Types.                                                                  *)

Result == Failure \cup {None, "ok", "not_found"}

\* A step goes to a place that exists.
LEMMA LabelTyped ==
    ASSUME Typed, NEW r \in Req, Act(r)
    PROVE  pc' \in [Req -> Label]
<1>a. pc \in [Req -> Label]
  BY DEF Typed
<1> HIDE DEF Typed
<1>1. \A l \in Label : Goto(r, l) => pc' \in [Req -> Label]
  BY <1>a DEF Goto
<1>2. CASE Breaks(r)
  BY <1>1, <1>2, BreaksFail DEF Fail, Label
<1>3. CASE ErrorReturned(r) \/ Arrive(r) \/ CheckoutA(r) \/ Known(r) \/ LockKey(r) \/ Admit(r)
  BY <1>1, <1>3 DEF ErrorReturned, NoAnswer, Arrive, CheckoutA, Known, LockKey, Admit, Label
<1>4. CASE Finish(r) \/ StartStream(r) \/ StartChat(r) \/ LoadState(r) \/ CheckoutB(r) \/ Answer(r)
  BY <1>1, <1>4 DEF Finish, StartStream, StartChat, LoadState, CheckoutB, Answer, Label
<1>5. CASE SaveState(r) \/ StartOneshot(r) \/ CallFails(r) \/ CallSucceeds(r)
  BY <1>1, <1>5 DEF SaveState, StartOneshot, CallFails, CallSucceeds, Label
<1>6. CASE Reserve(r)
  BY <1>1, <1>6, <1>a DEF Reserve, Label
<1> QED
  BY <1>2, <1>3, <1>4, <1>5, <1>6, ActCases

\* A step ends with a result that exists.
LEMMA ResultTyped ==
    ASSUME Typed, NEW r \in Req, Act(r)
    PROVE  result' \in [Req -> Result]
<1>a. result \in [Req -> Result]
  BY DEF Typed, Result
<1> HIDE DEF Typed
<1>1. \A c \in Failure \cup {"ok", "not_found"} :
        result' = [result EXCEPT ![r] = c] => result' \in [Req -> Result]
  BY <1>a DEF Result
<1>2. CASE UNCHANGED result
  BY <1>2, <1>a
<1>3. CASE Breaks(r)
  BY <1>1, <1>3, BreaksFail DEF Fail
<1>4. CASE ErrorReturned(r) \/ LoadState(r) \/ Answer(r) \/ CallSucceeds(r)
  BY <1>1, <1>2, <1>4 DEF ErrorReturned, NoAnswer, LoadState, Answer, CallSucceeds, Failure
<1> QED
  BY <1>2, <1>3, <1>4, ActCases
  DEF Arrive, CheckoutA, Known, LockKey, Admit, Finish, StartStream, StartChat, CheckoutB,
      SaveState, StartOneshot, Reserve, CallFails, results, oneshot, admission

\* Candidates are only ever taken from what was configured.
LEMMA QueueTyped ==
    ASSUME Typed, NEW r \in Req, PathAt(r), Act(r)
    PROVE  queue' \in [Req -> Seq(Provider)]
<1>a. queue \in [Req -> Seq(Provider)] /\ load[r].prefer \in Seq(Provider)
  BY DEF Typed
<1>b. queue[r] \in Seq(Provider) /\ <<>> \in Seq(Provider)
  BY <1>a
<1>c. queue[r] # <<>> => Tail(queue[r]) \in Seq(Provider)
  BY <1>b
<1> HIDE DEF Typed
<1>1. \A s \in Seq(Provider) :
        queue' = [queue EXCEPT ![r] = s] => queue' \in [Req -> Seq(Provider)]
  BY <1>a
<1>2. CASE UNCHANGED queue
  BY <1>2, <1>a
<1>3. CASE StartOneshot(r)
  BY <1>1, <1>3, <1>a DEF StartOneshot
<1>4. CASE Reserve(r)
  BY <1>1, <1>2, <1>4, <1>c DEF Reserve
<1>5. CASE CallFails(r)
  BY <1>1, <1>5, <1>b, <1>c DEF CallFails, PathAt
<1>6. CASE Breaks(r)
  BY <1>2, <1>6, BreaksFail DEF Fail
<1> QED
  BY <1>2, <1>3, <1>4, <1>5, <1>6, ActCases
  DEF Arrive, CheckoutA, Known, LockKey, Admit, Finish, StartStream, StartChat, CheckoutB,
      SaveState, ErrorReturned, NoAnswer, LoadState, Answer, CallSucceeds, results, oneshot,
      admission

\* Locks are held by requests or by nobody.
LEMMA LocksTyped ==
    ASSUME TypeOK, NEW r \in Req, Act(r)
    PROVE  /\ adv' \in [Key -> Req \cup {None}]
           /\ holder' \in [Provider -> Req \cup {None}]
<1>a. adv \in [Key -> Req \cup {None}] /\ holder \in [Provider -> Req \cup {None}]
  BY DEF TypeOK
<1> HIDE DEF TypeOK
<1>1. CASE UNCHANGED <<adv, holder>>
  BY <1>1, <1>a
<1>2. CASE ReleaseLocks(r)
  BY <1>2, <1>a DEF ReleaseLocks
<1>3. CASE LockKey(r)
  BY <1>3, <1>a DEF LockKey, oneshot
<1>4. CASE Reserve(r)
  BY <1>4, <1>a DEF Reserve, admission
<1>5. CASE Breaks(r)
  BY <1>2, <1>5, BreaksFail DEF Fail
<1> QED
  BY <1>1, <1>2, <1>3, <1>4, <1>5, ActCases
  DEF Arrive, CheckoutA, Known, Admit, Finish, StartStream, StartChat, CheckoutB,
      SaveState, StartOneshot, CallFails, ErrorReturned, NoAnswer, LoadState, Answer,
      CallSucceeds, results, oneshot, admission

\* What is written is written by a request, for a key or a provider that exists.
LEMMA RowsTyped ==
    ASSUME TypeOK, NEW r \in Req, PathAt(r), CountingAt(r), Act(r)
    PROVE  /\ events' \subseteq [tx : Req, key : Key, at : 0..MaxClock]
           /\ slots' \subseteq [tx : Req, at : Provider]
           /\ usage' \subseteq [tx : Req, at : Provider, ok : BOOLEAN]
           /\ start' \in [Req -> 0..MaxClock]
<1>a. /\ events \subseteq [tx : Req, key : Key, at : 0..MaxClock]
      /\ slots \subseteq [tx : Req, at : Provider]
      /\ usage \subseteq [tx : Req, at : Provider, ok : BOOLEAN]
      /\ start \in [Req -> 0..MaxClock] /\ clock \in 0..MaxClock
  BY DEF TypeOK
<1>b. queue[r] \in Seq(Provider)
  BY DEF TypeOK
<1>c. queue[r] # <<>> => Head(queue[r]) \in Provider
  BY <1>b
<1> HIDE DEF TypeOK
<1>1. CASE UNCHANGED <<events, slots, usage, start>>
  BY <1>1, <1>a
<1>2. CASE Breaks(r)
  BY <1>2, <1>a, BreaksFail DEF Fail
<1>3. CASE CheckoutA(r)
  BY <1>3, <1>a DEF CheckoutA, oneshot
<1>4. CASE Admit(r)
  BY <1>4, <1>a DEF Admit, oneshot, CountingAt
<1>5. CASE Reserve(r)
  BY <1>5, <1>a, <1>c DEF Reserve, admission
<1>6. CASE CallFails(r)
  <2>1. PICK p \in Provider : p = Head(queue[r])
    BY <1>6, <1>c DEF CallFails, PathAt
  <2>2. [tx |-> r, at |-> p, ok |-> FALSE] \in [tx : Req, at : Provider, ok : BOOLEAN]
    OBVIOUS
  <2>3. usage' = usage \cup {[tx |-> r, at |-> p, ok |-> FALSE]}
    BY <1>6, <2>1 DEF CallFails
  <2>4. UNCHANGED <<events, start>> /\ slots' \subseteq slots
    BY <1>6 DEF CallFails, admission
  <2> QED
    BY <1>a, <2>2, <2>3, <2>4
<1>7. CASE CallSucceeds(r)
  <2>1. PICK p \in Provider : p = Head(queue[r])
    BY <1>7, <1>c DEF CallSucceeds, PathAt
  <2>2. [tx |-> r, at |-> p, ok |-> TRUE] \in [tx : Req, at : Provider, ok : BOOLEAN]
    OBVIOUS
  <2>3. usage' = usage \cup {[tx |-> r, at |-> p, ok |-> TRUE]}
    BY <1>7, <2>1 DEF CallSucceeds
  <2>4. UNCHANGED <<events, start>> /\ slots' \subseteq slots
    BY <1>7 DEF CallSucceeds, admission
  <2> QED
    BY <1>a, <2>2, <2>3, <2>4
<1> QED
  BY <1>1, <1>2, <1>3, <1>4, <1>5, <1>6, <1>7, ActCases
  DEF Arrive, Known, LockKey, Finish, StartStream, StartChat, CheckoutB, SaveState,
      StartOneshot, ErrorReturned, NoAnswer, LoadState, Answer, results, oneshot, admission

\* Only what was answered is stored.
LEMMA AnsweredTyped ==
    ASSUME TypeOK, stored \subseteq answered, NEW r \in Req, PathAt(r), Act(r)
    PROVE  answered' \subseteq Req /\ stored' \subseteq Req /\ stored' \subseteq answered'
<1>a. answered \subseteq Req /\ stored \subseteq Req
  BY DEF TypeOK
<1> HIDE DEF TypeOK
<1>1. CASE UNCHANGED <<answered, stored>>
  BY <1>1, <1>a
<1>2. CASE Breaks(r)
  BY <1>2, <1>a, BreaksFail DEF Fail, results
<1>3. CASE Answer(r)
  BY <1>3, <1>a DEF Answer
<1>4. CASE SaveState(r)
  BY <1>4, <1>a DEF SaveState, PathAt
<1> QED
  BY <1>1, <1>2, <1>3, <1>4, ActCases
  DEF Arrive, CheckoutA, Known, LockKey, Admit, Finish, StartStream, StartChat, CheckoutB,
      StartOneshot, ErrorReturned, NoAnswer, LoadState, Reserve, CallFails, CallSucceeds,
      results, oneshot, admission
-----------------------------------------------------------------------------
(* The inductive invariant.                                                *)

\* No request has arrived.
LEMMA InitialInv == Init => IInv
<1> SUFFICES ASSUME Init PROVE IInv
  OBVIOUS
<1>0. /\ pc = [r \in Req |-> "idle"] /\ conns = [r \in Req |-> 0] /\ events = {}
      /\ usage = {} /\ answered = {} /\ stored = {}
  BY DEF Init
<1>1. Leases = {}
  <2>1. \A lease \in Req \X (1..2) : lease[1] \in Req /\ ~(lease[2] <= 0)
    OBVIOUS
  <2>2. \A r \in Req : conns[r] = 0
    BY <1>0
  <2> QED
    BY <2>1, <2>2 DEF Leases
<1>2. InUse <= Pool
  BY <1>1, FS_EmptySet, BoundsAssumption DEF InUse
<1>3. TypeOK
  <2>1. 0 \in 0..MaxClock /\ 0 \in 0..2
    BY BoundsAssumption
  <2>2. queue \in [Req -> Seq(Provider)] /\ result \in [Req -> {None}]
    BY DEF Init
  <2> QED
    BY <1>2, <2>1, <2>2 DEF Init, TypeOK
<1>4. ASSUME NEW r \in Req PROVE Promises(r)
  BY <1>0, <1>4 DEF Promises, ConnsAt, CountingAt, LockedAt, EventAt, PathAt, WrittenAt,
     ServedAt, Unadmitted, Admitted
<1> QED
  BY <1>0, <1>3, <1>4 DEF IInv

\* Every step of a request keeps the invariant.
LEMMA ActKeeps ==
    ASSUME IInv, NEW r \in Req, Act(r)
    PROVE  IInv'
<1>1. TypeOK /\ Typed /\ Promises(r) /\ stored \subseteq answered
  BY ActTyped DEF IInv
<1>2. ConnsAt(r) /\ PathAt(r) /\ CountingAt(r)
  BY <1>1 DEF Promises
<1>3. UNCHANGED <<clock, load, clients>>
  BY <1>1, ActApart DEF Apart
<1>4. /\ clock \in 0..MaxClock /\ load \in Loads /\ clients \in SUBSET Key /\ InUse <= Pool
  BY <1>1 DEF TypeOK
<1>5. TypeOK'
  <2>1. pc' \in [Req -> Label]
    BY <1>1, LabelTyped
  <2>2. conns' \in [Req -> 0..2] /\ InUse' <= Pool
    BY <1>1, <1>2, <1>4, PoolStep
  <2>3. queue' \in [Req -> Seq(Provider)]
    BY <1>1, <1>2, QueueTyped
  <2>4. adv' \in [Key -> Req \cup {None}] /\ holder' \in [Provider -> Req \cup {None}]
    BY <1>1, LocksTyped
  <2>5. /\ events' \subseteq [tx : Req, key : Key, at : 0..MaxClock]
        /\ slots' \subseteq [tx : Req, at : Provider]
        /\ usage' \subseteq [tx : Req, at : Provider, ok : BOOLEAN]
        /\ start' \in [Req -> 0..MaxClock]
    BY <1>1, <1>2, RowsTyped
  <2>6. answered' \subseteq Req /\ stored' \subseteq Req
    BY <1>1, <1>2, AnsweredTyped
  <2>7. result' \in [Req -> {None, "ok", "error", "gone", "no_user", "unauthorized",
                             "too_many", "not_found"}]
    <3>1. Result = {None, "ok", "error", "gone", "no_user", "unauthorized", "too_many",
                    "not_found"}
      BY DEF Result, Failure
    <3> QED
      BY <1>1, <3>1, ResultTyped
  <2>8. pc' \in [Req -> {"idle", "checkout", "key", "limit", "count", "handler", "wantB",
                         "work", "save", "next", "call", "finish", "ended"}]
    BY <2>1 DEF Label
  <2>9. clock' \in 0..MaxClock /\ load' \in Loads /\ clients' \in SUBSET Key
    BY <1>3, <1>4
  <2> QED
    BY <2>2, <2>3, <2>4, <2>5, <2>6, <2>7, <2>8, <2>9 DEF TypeOK
<1>6. stored' \subseteq answered'
  BY <1>1, <1>2, AnsweredTyped
<1>7. \A q \in Req : Promises(q)'
  BY <1>1, OwnStands, OthersStand DEF IInv
<1> QED
  BY <1>5, <1>6, <1>7 DEF IInv

\* Revocation, the clock and stuttering do not touch what requests rely on.
LEMMA OutsideKeeps ==
    ASSUME IInv, (\E k \in Key : Revoke(k)) \/ Tick \/ UNCHANGED vars
    PROVE  IInv'
<1>1. /\ UNCHANGED <<load, pc, conns, start, adv, events, queue, holder, slots, usage, answered,
                     stored, result>>
      /\ clients' \subseteq clients
      /\ clock' = clock \/ (clock' = clock + 1 /\ clock < MaxClock)
  BY DEF Revoke, Tick, vars, admission, oneshot, results
<1>2. TypeOK /\ stored \subseteq answered
  BY DEF IInv
<1>3. clock' \in 0..MaxClock
  <2>1. clock \in 0..MaxClock /\ MaxClock \in Nat
    BY <1>2, BoundsAssumption DEF TypeOK
  <2> QED
    BY <2>1, <1>1
<1>4. InUse' = InUse
  BY <1>1 DEF InUse, Leases
<1>5. TypeOK'
  BY <1>1, <1>2, <1>3, <1>4 DEF TypeOK
<1>6. ASSUME NEW r \in Req PROVE Promises(r)'
  <2>1. Promises(r)
    BY DEF IInv
  <2> QED
    BY <2>1, <1>1 DEF Promises, ConnsAt, CountingAt, LockedAt, CommittedA, EventAt, PathAt,
       WrittenAt, ServedAt
<1> QED
  BY <1>1, <1>2, <1>5, <1>6 DEF IInv

\* Every step keeps the invariant.
LEMMA InductiveStep == IInv /\ [Next]_vars => IInv'
BY ActKeeps, OutsideKeeps DEF Next, Act

\* The invariant holds throughout.
LEMMA Inductive == Spec => []IInv
BY InitialInv, InductiveStep, PTL DEF Spec

-----------------------------------------------------------------------------
(* The theorems.                                                           *)

\* Types, and the pool: however many requests wait for a first or a second
\* connection, no more are lent than pool_size + max_overflow.
THEOREM TypeCorrect == Spec => []TypeOK
<1>1. IInv => TypeOK
  BY DEF IInv
<1> QED
  BY <1>1, Inductive, PTL

\* A client's request counts against its limit exactly when the client got
\* something for it, in whatever order the two sessions of it end.
THEOREM ServedIsCountedAlways == Spec => []ServedIsCounted
<1>1. IInv => ServedIsCounted
  BY DEF IInv, Promises, ServedAt, ServedIsCounted
<1> QED
  BY <1>1, Inductive, PTL

\* Nobody is told of an answer that is not in the database, and a conversation
\* goes on only from a turn that was answered.
THEOREM AccountsAgree == Spec => []AccountsMatch
<1>1. IInv => AccountsMatch
  <2> SUFFICES ASSUME IInv PROVE AccountsMatch
    OBVIOUS
  <2>1. answered \subseteq Req /\ stored \subseteq answered
    BY DEF IInv, TypeOK
  <2>2. \A r \in Req : WrittenAt(r)
    BY DEF IInv, Promises
  <2> QED
    BY <2>1, <2>2 DEF WrittenAt, AccountsMatch
<1> QED
  BY <1>1, Inductive, PTL
\* The limiter of a key counts as this module does.
LEMMA SameCardinality == \A S, k : Limiter(k)!Cardinality(S) = Cardinality(S)
BY DEF Limiter!Cardinality, Cardinality, Limiter!IsFiniteSet, IsFiniteSet

\* What a step does to the events of one key, seen by the limiter of the key.
Of(k) == {e \in events : e.key = k}

\* Only an admission adds an event.
LEMMA EventsShrink ==
    ASSUME NEW r \in Req, Act(r), ~Admit(r)
    PROVE  events' \subseteq events
<1>1. CASE Breaks(r)
  BY <1>1, BreaksFail DEF Fail
<1> QED
  BY <1>1, ActCases
  DEF Arrive, CheckoutA, Known, LockKey, Finish, StartStream, StartChat, CheckoutB, Answer,
      SaveState, StartOneshot, Reserve, CallFails, CallSucceeds, ErrorReturned, NoAnswer,
      LoadState, results, oneshot, admission

\* Under the key's lock a session sees every event of the key.
LEMMA SeesAll ==
    ASSUME IInv, NEW r \in Req, pc[r] = "count"
    PROVE  EventsSeen(r) = {e \in Of(load[r].cred) : e.at + Window >= start[r]}
<1>1. Promises(r) /\ \A e \in events : e.tx \in Req
  BY ActTyped DEF IInv, Typed
<1>2. load[r].cred \in Key /\ adv[load[r].cred] = r
  BY <1>1 DEF Promises, CountingAt
<1>3. ASSUME NEW e \in events, e.key = load[r].cred
      PROVE  e.tx = r \/ CommittedA(e.tx)
  <2>1. LockedAt(e.tx)
    BY <1>1 DEF IInv, Promises
  <2> QED
    BY <1>2, <1>3, <2>1 DEF LockedAt
<1> QED
  BY <1>3 DEF EventsSeen, Of

\* The admissions of each client look like the atomic ones of RateWindow: the
\* advisory lock is held from the count to the end of the session, so nothing
\* of the key is hidden from the request that counts.
THEOREM ClientLimiterImplemented == Spec => ImplementsLimiter
<1>1. Init => \A k \in Key : Limiter(k)!Init
  BY DEF Init, Limiter!Init
<1>2. IInv /\ [Next]_vars =>
        [\A k \in Key : \/ Limiter(k)!Next
                        \/ UNCHANGED {e \in events : e.key = k}]_events
  <2> SUFFICES ASSUME IInv, Next, events' # events, NEW k \in Key
               PROVE  Limiter(k)!Next \/ UNCHANGED Of(k)
    BY DEF vars, Of
  <2>1. PICK r \in Req : Act(r)
    BY DEF Next, Act, Revoke, Tick, admission
  <2>2. CASE ~Admit(r)
    <3>0. {e \in events' : e.key = k} \subseteq {e \in events : e.key = k}
      BY <2>1, <2>2, EventsShrink
    <3>1. PICK gone : gone = {e \in events : e.key = k} \ {e \in events' : e.key = k}
      OBVIOUS
    <3>2. Limiter(k)!Withdraw(gone) /\ gone \in SUBSET {e \in events : e.key = k}
      BY <3>0, <3>1 DEF Limiter!Withdraw
    <3>3. \E s \in SUBSET {e \in events : e.key = k} : Limiter(k)!Withdraw(s)
      BY <3>2
    <3> QED
      BY <3>3 DEF Limiter!Next
  <2>3. CASE Admit(r) /\ k # load[r].cred
    BY <2>3 DEF Admit, Of
  <2>4. CASE Admit(r) /\ k = load[r].cred
    <3>0. PICK e0 : e0 = [tx |-> r, key |-> k, at |-> start[r]]
      OBVIOUS
    <3>1. e0 \in [tx : Req, key : {k}, at : 0..MaxClock]
      BY <3>0 DEF IInv, TypeOK
    <3>2. Of(k)' = Of(k) \cup {e0}
      BY <2>4, <3>0 DEF Admit, Of
    <3>3. Cardinality({f \in Of(k) : f.at + Window >= e0.at}) < Rpm
      BY <2>4, <3>0, SeesAll DEF Admit
    <3>4. \A c \in {[window |-> Window, limit |-> Rpm]} :
            Limiter(k)!Cardinality({f \in Of(k) : f.at + c.window >= e0.at}) < c.limit
      BY <3>3, SameCardinality
    <3>5. Limiter(k)!Admit(e0)
      BY <3>2, <3>4 DEF Limiter!Admit, Of
    <3>6. \E e \in [tx : Req, key : {k}, at : 0..MaxClock] : Limiter(k)!Admit(e)
      BY <3>1, <3>5
    <3> QED
      BY <3>6 DEF Limiter!Next
  <2> QED
    BY <2>2, <2>3, <2>4
<1> QED
  BY <1>1, <1>2, Inductive, PTL DEF Spec, ImplementsLimiter
====
