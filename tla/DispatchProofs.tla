---- MODULE DispatchProofs ----
(***************************************************************************)
(* Proofs about module Dispatch, for any number of requests, streaming or  *)
(* not, any providers, chains of models, candidate orders and retries.     *)
(***************************************************************************)
EXTENDS Dispatch, InductionLemmas, FiniteSetTheorems, SequenceTheorems, TLAPS

\* An attempt has a candidate and a model, may still add a client error, and
\* has an outcome when it is recorded.
ReadyAt(r) ==
    /\ Calling(r) \/ pc[r] = "reserve" => queue[r] # <<>>
    /\ pc[r] \in {"reserve", "calling", "record"} =>
         chain[r] # <<>> /\ refusals[r] < MaxClientErrors
    /\ pc[r] = "record" => result[r] # NoError
AttemptReady == \A r \in Request : ReadyAt(r)

\* No provider is a candidate twice.
Distinct(s) == \A i, j \in DOMAIN s : s[i] = s[j] => i = j
CandidatesDistinct == \A r \in Request : Distinct(queue[r])

\* A stream of which the client has seen something is bound to its provider and
\* model, and never returns to the candidate loop.
Committed(r, pm) ==
    /\ sent[r] = {pm}
    /\ pc[r] \in {"calling", "record", "closing", "answered", "failed", "ended"}
    /\ pc[r] = "calling" => pm = <<Current(r), Head(chain[r])>>
VoiceAt(r) == sent[r] = {} \/ \E pm \in Provider \X Model : Committed(r, pm)
BoundToVoice == \A r \in Request : VoiceAt(r)

\* As long as no statement has failed, only the call under way has no event.
RecordedAt(r) ==
    pc[r] # "ended" /\ r \notin broken =>
        \A p \in called[r] :
            \/ p \in Events(r)
            \/ pc[r] \in {"calling", "record"} /\ p = Current(r)
CalledRecorded == \A r \in Request : RecordedAt(r)

\* Providers that called r a bad request, and those r has yet to try.
Refusers(r) == {e.provider : e \in {f \in usage : f.req = r /\ f.outcome = "client_error"}}
Ahead(r) == {queue[r][i] : i \in DOMAIN queue[r]}

\* Every client error counted comes from another provider, none of which is
\* still ahead (after a retry as "auto" the events of the first round remain).
CountedAt(r) ==
    pc[r] # "ended" /\ r \notin broken =>
        refusals[r] <= Cardinality(Refusers(r) \ Ahead(r))
RefusalsCounted == \A r \in Request : CountedAt(r)

\* Why a request has failed.
FailedAt(r) ==
    pc[r] = "failed" => queue[r] = <<>> \/ refusals[r] >= MaxClientErrors \/ sent[r] # {}
FailedForGood == \A r \in Request : FailedAt(r)

\* An ended request has left all its events or none (AllOrNothing).
AccountedAt(r) ==
    pc[r] = "ended" =>
        \/ Events(r) = {}
        \/ reply[r] = "answer" /\ called[r] \subseteq Events(r)

IInv ==
    /\ TypeOK
    /\ AttemptReady /\ CandidatesDistinct
    /\ WorkUnderLock
    /\ InFlightExact
    /\ BoundToVoice
    /\ CalledRecorded /\ AllOrNothing
    /\ RefusalsCounted /\ FailedForGood

-----------------------------------------------------------------------------
(* Sequences of distinct elements.                                         *)

\* A filter keeps the type and repeats nothing that was not repeated.
LEMMA OnlyKeeps ==
    ASSUME NEW T, NEW S, NEW s \in Seq(T)
    PROVE  /\ Only(s, S) \in Seq(T)
           /\ Distinct(s) => Distinct(Only(s, S))
<1> DEFINE q == Only(s, S)
<1>1. /\ q \in Seq(T)
      /\ \A j, k \in DOMAIN q :
            j < k => \E i, l \in DOMAIN s : i < l /\ s[i] = q[j] /\ s[l] = q[k]
  BY OnlySelects
<1> HIDE DEF q
<1>2. DOMAIN q \subseteq Nat /\ DOMAIN s \subseteq Nat
  BY <1>1, LenProperties
<1>3. ASSUME Distinct(s), NEW j \in DOMAIN q, NEW k \in DOMAIN q, j < k PROVE q[j] # q[k]
  <2>1. PICK i, l \in DOMAIN s : i < l /\ s[i] = q[j] /\ s[l] = q[k]
    BY <1>1, <1>3
  <2> QED
    BY <1>2, <1>3, <2>1 DEF Distinct
<1>4. Distinct(s) => Distinct(q)
  BY <1>2, <1>3 DEF Distinct
<1> QED
  BY <1>1, <1>4 DEF q

\* What is left of a sequence of distinct elements without its head.
LEMMA TailDistinct ==
    ASSUME NEW T, NEW q \in Seq(T), q # <<>>, Distinct(q)
    PROVE  /\ Tail(q) \in Seq(T) /\ Distinct(Tail(q))
           /\ Head(q) \in T /\ Head(q) = q[1] /\ 1 \in DOMAIN q
           /\ \A i \in DOMAIN Tail(q) :
                 Tail(q)[i] # Head(q) /\ \E j \in DOMAIN q : Tail(q)[i] = q[j]
BY HeadTailProperties, LenProperties, EmptySeq DEF Distinct

\* What follows the head of two or more elements is not empty.
LEMMA LongTail ==
    ASSUME NEW T, NEW q \in Seq(T), Len(q) > 1 PROVE Tail(q) # <<>>
<1>1. Len(q) \in Nat /\ q # <<>>
  BY LenProperties, EmptySeq
<1>2. Len(Tail(q)) = Len(q) - 1 /\ Tail(q) \in Seq(T)
  BY <1>1, HeadTailProperties
<1> DEFINE t == Tail(q)
<1> HIDE DEF t
<1>3. t \in Seq(T) /\ Len(t) # 0
  <2>1. t \in Seq(T) /\ Len(t) = Len(q) - 1
    BY <1>2 DEF t
  <2> QED
    BY <1>1, <2>1
<1>4. t # <<>>
  BY <1>3, EmptySeq
<1> QED
  BY <1>4 DEF t

-----------------------------------------------------------------------------
(* Types.                                                                  *)

Label == {"idle", "rank", "next", "reserve", "calling", "record",
          "closing", "answered", "failed", "ended"}

\* _models_for returns a sequence of models.
LEMMA ModelsTyped ==
    ASSUME TypeOK, NEW r \in Request, NEW p \in Provider
    PROVE  ModelsFor(r, p) \in Seq(Model)
<1>1. Chain[p] \in Seq(Model) /\ Chain[p] # <<>> /\ Pin \in Model
  BY DispatchAssumption
<1>2. Only(Chain[p], {m \in Model : cool[p][m] = NoError}) \in Seq(Model)
  BY <1>1, OnlyKeeps
<1>3. <<>> \in Seq(Model) /\ <<Pin>> \in Seq(Model) /\ <<Head(Chain[p])>> \in Seq(Model)
  BY <1>1, HeadTailProperties
<1> QED
  BY <1>2, <1>3 DEF ModelsFor

\* The current candidate and model of a request that has them.
LEMMA CurrentTyped ==
    ASSUME TypeOK, NEW r \in Request
    PROVE  /\ queue[r] # <<>> => Current(r) \in Provider /\ Tail(queue[r]) \in Seq(Provider)
           /\ chain[r] # <<>> => Head(chain[r]) \in Model /\ Tail(chain[r]) \in Seq(Model)
BY HeadTailProperties DEF TypeOK, Current

\* A model or a provider that is marked for a reason is still marked with one.
LEMMA CoolTyped ==
    ASSUME TypeOK, NEW p \in Provider, NEW m \in Model \cup {Whole},
           NEW reason \in {NoError, "unavailable", "quota"}, Cool(p, m, reason)
    PROVE  cool' \in [Provider -> [Model \cup {Whole} -> {NoError, "unavailable", "quota"}]]
<1> DEFINE R == {NoError, "unavailable", "quota"}
           D == Model \cup {Whole}
           after == [cool EXCEPT ![p][m] = reason]
<1>1. cool \in [Provider -> [D -> R]]
  BY DEF TypeOK
<1>2. [cool[p] EXCEPT ![m] = reason] \in [D -> R]
  BY <1>1
<1>3. after = [cool EXCEPT ![p] = [cool[p] EXCEPT ![m] = reason]]
  OBVIOUS
<1>4. after \in [Provider -> [D -> R]]
  BY <1>1, <1>2, <1>3
<1> QED
  BY <1>1, <1>4 DEF Cool

\* The same, whichever one is marked.
LEMMA SomeCoolTyped ==
    ASSUME TypeOK,
           \E p \in Provider, m \in Model \cup {Whole}, reason \in {NoError, "unavailable", "quota"} :
              Cool(p, m, reason)
    PROVE  cool' \in [Provider -> [Model \cup {Whole} -> {NoError, "unavailable", "quota"}]]
<1>1. PICK p \in Provider, m \in Model \cup {Whole}, reason \in {NoError, "unavailable", "quota"} :
         Cool(p, m, reason)
  OBVIOUS
<1> QED
  BY <1>1, CoolTyped

\* Providers are skipped for the reasons that models are marked with.
LEMMA ReasonsTyped ==
    ASSUME NEW p, NEW k PROVE SkipReasons(p, k) \subseteq {NoError, "unavailable", "quota"}
BY DEF SkipReasons

Outcome == ErrorKind \cup {NoError, "answer", "internal", "cancelled"}

\* The end of a request, with any outcome.
LEMMA EndTyped ==
    ASSUME TypeOK, NEW r \in Request,
           NEW outcome \in Outcome, End(r, outcome)
    PROVE  /\ streaming' = streaming /\ sent' = sent /\ called' = called
           /\ pc' \in [Request -> Label]
           /\ queue' \in [Request -> Seq(Provider)] /\ chain' \in [Request -> Seq(Model)]
           /\ retries' \in [Request -> 0..MaxRetries]
           /\ named' \subseteq Pinning \cup Foreign
           /\ result' \in [Request -> ErrorKind \cup {NoError, "answer"}]
           /\ refusals' \in [Request -> 0..MaxClientErrors]
           /\ reply' \in [Request -> Outcome]
           /\ skipped' \in [Request -> BOOLEAN]
<1>1. 0 \in 0..MaxRetries /\ 0 \in 0..MaxClientErrors
  BY DispatchAssumption DEF MaxClientErrors
<1>2. <<>> \in Seq(Provider) /\ <<>> \in Seq(Model)
  BY EmptySeq
<1> QED
  BY <1>1, <1>2 DEF TypeOK, End, Settle, Goto, Label, Outcome

\* A rollback leaves types alone.
LEMMA RollbackTyped ==
    ASSUME TypeOK, NEW r \in Request, Rollback(r)
    PROVE  /\ broken' \subseteq Request
           /\ holder' \in [Provider -> Request \cup {None}]
           /\ park' \subseteq Provider /\ saved' \subseteq Provider
           /\ usage' \subseteq [req : Request, provider : Provider, outcome : ErrorKind \cup {"answer"}]
BY DEF TypeOK, Rollback, Released, Restored

\* A request that ends leaves types, if the rest of the step does.
LEMMA EndUnwound ==
    ASSUME TypeOK, NEW r \in Request,
           \E outcome \in Outcome : End(r, outcome),
           inFlight' \in [Provider -> Nat], cool' = cool,
           broken' \subseteq Request, holder' \in [Provider -> Request \cup {None}],
           park' \subseteq Provider, saved' \subseteq Provider,
           usage' \subseteq [req : Request, provider : Provider, outcome : ErrorKind \cup {"answer"}]
    PROVE  TypeOK'
<1>1. PICK outcome \in Outcome : End(r, outcome)
  OBVIOUS
<1>2. /\ streaming' = streaming /\ sent' = sent /\ called' = called
      /\ pc' \in [Request -> Label]
      /\ queue' \in [Request -> Seq(Provider)] /\ chain' \in [Request -> Seq(Model)]
      /\ retries' \in [Request -> 0..MaxRetries]
      /\ named' \subseteq Pinning \cup Foreign
      /\ result' \in [Request -> ErrorKind \cup {NoError, "answer"}]
      /\ refusals' \in [Request -> 0..MaxClientErrors]
      /\ reply' \in [Request -> Outcome]
      /\ skipped' \in [Request -> BOOLEAN]
  BY <1>1, EndTyped
<1> QED
  BY <1>2 DEF TypeOK, Label, Outcome

\* The calls in flight to p.
InCall(p) == {r \in Request : Calling(r) /\ Current(r) = p}

\* The calls under way at a provider can be counted.
LEMMA InCallFinite ==
    ASSUME NEW p PROVE IsFiniteSet(InCall(p)) /\ Cardinality(InCall(p)) \in Nat
BY DispatchAssumption, FS_Subset, FS_CardinalityType DEF InCall

\* A call under way is counted, so that it can land.
LEMMA CallCountedOnce ==
    ASSUME IInv, NEW r \in Request, Calling(r)
    PROVE  /\ Current(r) \in Provider
           /\ inFlight[Current(r)] \in Nat \ {0}
           /\ Land(r) \in [Provider -> Nat]
<1>1. Current(r) \in Provider
  BY CurrentTyped DEF IInv, AttemptReady, ReadyAt
<1>2. r \in InCall(Current(r))
  BY DEF InCall
<1>3. Cardinality(InCall(Current(r))) # 0
  BY <1>2, InCallFinite, FS_EmptySet
<1>4. inFlight[Current(r)] = Cardinality(InCall(Current(r)))
  BY <1>1 DEF IInv, InFlightExact, InCall
<1>5. inFlight[Current(r)] \in Nat \ {0}
  BY <1>3, <1>4, InCallFinite
<1> QED
  BY <1>1, <1>5 DEF IInv, TypeOK, Land

\* Every step keeps types.
LEMMA TypeStep ==
    ASSUME IInv, [Next]_vars PROVE TypeOK'
<1>0. TypeOK
  BY DEF IInv
<1>a. pc \in [Request -> Label]
  BY <1>0 DEF TypeOK, Label
<1>b. queue \in [Request -> Seq(Provider)] /\ chain \in [Request -> Seq(Model)]
  BY <1>0 DEF TypeOK
<1>c. inFlight \in [Provider -> Nat] /\ holder \in [Provider -> Request \cup {None}]
  BY <1>0 DEF TypeOK
<1>d. retries \in [Request -> 0..MaxRetries] /\ 0 \in 0..MaxRetries
  BY <1>0, DispatchAssumption DEF TypeOK
<1>e. called \in [Request -> SUBSET Provider] /\ skipped \in [Request -> BOOLEAN]
  BY <1>0 DEF TypeOK
<1> USE DispatchAssumption DEF control, database, client, history
<1>1. ASSUME NEW r \in Request, Arrive(r) PROVE TypeOK'
  BY <1>0, <1>1 DEF Arrive, Goto, TypeOK
<1>2. ASSUME NEW r \in Request, Rank(r) PROVE TypeOK'
  <2>1. PICK ranking \in Rankings, blame \in {"rate_limited", "client_error"} :
           LET usable == Only(ranking, {p \in Provider : ~Parked(r, p)})
           IN  /\ queue' = [queue EXCEPT ![r] =
                            IF r \in NoFallback /\ usable # <<>> THEN <<Head(usable)>>
                            ELSE usable]
               /\ result' = [result EXCEPT ![r] =
                            IF usable # <<>> THEN NoError
                            ELSE IF ranking = <<>> THEN "client_error" ELSE blame]
               /\ Goto(r, IF usable = <<>> THEN "failed" ELSE "next")
    BY <1>2 DEF Rank
  <2> DEFINE usable == Only(ranking, {p \in Provider : ~Parked(r, p)})
  <2>2. usable \in Seq(Provider)
    BY OnlyKeeps
  <2> HIDE DEF usable
  <2>3. queue' \in [Request -> Seq(Provider)]
    <3>1. usable # <<>> => <<Head(usable)>> \in Seq(Provider)
      BY <2>2, HeadTailProperties
    <3> QED
      BY <1>0, <2>1, <2>2, <3>1 DEF TypeOK, usable
  <2>4. result' \in [Request -> ErrorKind \cup {NoError, "answer"}]
    BY <1>0, <2>1 DEF TypeOK, ErrorKind
  <2>5. pc' \in [Request -> Label]
    BY <1>0, <2>1 DEF TypeOK, Goto, Label
  <2>6. refusals' \in [Request -> 0..MaxClientErrors] /\ skipped' \in [Request -> BOOLEAN]
    BY <1>0, <1>2 DEF Rank, TypeOK, MaxClientErrors
  <2>7. UNCHANGED <<chain, retries, named, database, inFlight, cool, client, called>>
    BY <1>2 DEF Rank
  <2> QED
    BY <1>0, <2>3, <2>4, <2>5, <2>6, <2>7 DEF TypeOK, Label
<1>3. ASSUME NEW r \in Request, Choose(r) PROVE TypeOK'
  <2>1. Current(r) \in Provider /\ Tail(queue[r]) \in Seq(Provider)
    BY <1>0, <1>3, CurrentTyped DEF Choose, MoreToTry
  <2>2. ModelsFor(r, Current(r)) \in Seq(Model)
    BY <1>0, <2>1, ModelsTyped
  <2>3. chain' \in [Request -> Seq(Model)]
    BY <1>0, <1>3, <2>2 DEF Choose, TypeOK
  <2>4. queue' \in [Request -> Seq(Provider)] /\ skipped' \in [Request -> BOOLEAN]
    <3>1. \/ UNCHANGED <<queue, skipped>>
          \/ /\ queue' = [queue EXCEPT ![r] = Tail(@)]
             /\ skipped' = [skipped EXCEPT ![r] = TRUE]
      BY <1>3 DEF Choose, Skip
    <3> QED
      <4>1. CASE UNCHANGED <<queue, skipped>>
        BY <1>b, <1>e, <4>1
      <4>2. CASE /\ queue' = [queue EXCEPT ![r] = Tail(@)]
                 /\ skipped' = [skipped EXCEPT ![r] = TRUE]
        BY <1>b, <1>e, <2>1, <4>2
      <4> QED
        BY <3>1, <4>1, <4>2
  <2>5. pc' \in [Request -> Label]
    <3>1. pc' = pc \/ pc' = [pc EXCEPT ![r] = "reserve"]
      BY <1>3 DEF Choose, Goto
    <3> QED
      BY <1>a, <3>1 DEF Label
  <2>6. UNCHANGED <<retries, named, result, refusals, database, inFlight, cool, client, called>>
    BY <1>3 DEF Choose
  <2> QED
    BY <1>0, <2>3, <2>4, <2>5, <2>6 DEF TypeOK, Label
<1>4. ASSUME NEW r \in Request, Reserve(r) PROVE TypeOK'
  <2>1. Current(r) \in Provider /\ Tail(queue[r]) \in Seq(Provider) /\ <<>> \in Seq(Model)
    BY <1>0, <1>4, CurrentTyped, EmptySeq DEF Reserve, IInv, AttemptReady, ReadyAt
  <2>2. Budget(r) \in 0..MaxRetries
    BY DEF Budget
  <2>3. holder' = [holder EXCEPT ![Current(r)] = r]
    BY <1>4 DEF Reserve
  <2>4. UNCHANGED <<named, result, refusals, broken, park, saved, usage, cool, client>>
    BY <1>4 DEF Reserve
  <2>5. CASE /\ pc' = [pc EXCEPT ![r] = "calling"]
             /\ inFlight' = [inFlight EXCEPT ![Current(r)] = @ + 1]
             /\ retries' = [retries EXCEPT ![r] = Budget(r)]
             /\ called' = [called EXCEPT ![r] = @ \cup {Current(r)}]
             /\ UNCHANGED <<queue, skipped, chain>>
    <3>1. pc' \in [Request -> Label] /\ retries' \in [Request -> 0..MaxRetries]
      BY <1>a, <1>d, <2>2, <2>5 DEF Label
    <3>2. inFlight' \in [Provider -> Nat] /\ holder' \in [Provider -> Request \cup {None}]
      BY <1>c, <2>1, <2>3, <2>5
    <3>3. called' \in [Request -> SUBSET Provider]
      BY <1>e, <2>1, <2>5
    <3> QED
      BY <1>0, <2>4, <2>5, <3>1, <3>2, <3>3 DEF TypeOK, Label
  <2>6. CASE /\ pc' = [pc EXCEPT ![r] = "next"]
             /\ queue' = [queue EXCEPT ![r] = Tail(@)]
             /\ skipped' = [skipped EXCEPT ![r] = TRUE]
             /\ chain' = [chain EXCEPT ![r] = <<>>]
             /\ UNCHANGED <<retries, inFlight, called>>
    <3>1. pc' \in [Request -> Label]
      BY <1>a, <2>6 DEF Label
    <3>2. queue' \in [Request -> Seq(Provider)] /\ chain' \in [Request -> Seq(Model)]
      BY <1>b, <2>1, <2>6
    <3>3. skipped' \in [Request -> BOOLEAN] /\ holder' \in [Provider -> Request \cup {None}]
      BY <1>c, <1>e, <2>3, <2>6
    <3> QED
      BY <1>0, <2>4, <2>6, <3>1, <3>2, <3>3 DEF TypeOK, Label
  <2> QED
    BY <1>4, <2>5, <2>6 DEF Reserve, Goto, Skip
<1>5. ASSUME NEW r \in Request, NEW k \in Kinds, Retry(r, k) PROVE TypeOK'
  <2>1. retries[r] - 1 \in 0..MaxRetries
    BY <1>0, <1>5 DEF Retry, TypeOK
  <2>2. retries' \in [Request -> 0..MaxRetries]
    BY <1>0, <1>5, <2>1 DEF Retry, TypeOK
  <2> QED
    BY <1>0, <1>5, <2>2 DEF Retry, TypeOK
<1>6. ASSUME NEW r \in Request, Chunk(r) PROVE TypeOK'
  <2>1. Current(r) \in Provider /\ Head(chain[r]) \in Model
    BY <1>0, <1>6, CurrentTyped DEF Chunk, IInv, AttemptReady, ReadyAt, Calling
  <2>2. cool' \in [Provider -> [Model \cup {Whole} -> {NoError, "unavailable", "quota"}]]
    <3>1. CASE UNCHANGED cool
      BY <1>0, <3>1 DEF TypeOK
    <3>2. CASE Cool(Current(r), IF Current(r) \in PerModel THEN Head(chain[r]) ELSE Whole, "quota")
      BY <1>0, <2>1, <3>2, CoolTyped
    <3> QED
      BY <1>6, <3>1, <3>2 DEF Chunk
  <2>3. sent' \in [Request -> SUBSET (Provider \X Model)]
    <3>1. CASE sent' = sent
      BY <1>0, <3>1 DEF TypeOK
    <3>2. CASE sent' = [sent EXCEPT ![r] = @ \cup {<<Current(r), Head(chain[r])>>}]
      <4>1. sent[r] \cup {<<Current(r), Head(chain[r])>>} \in SUBSET (Provider \X Model)
        BY <1>0, <2>1 DEF TypeOK
      <4> QED
        BY <1>0, <3>2, <4>1 DEF TypeOK
    <3> QED
      BY <1>6, <3>1, <3>2 DEF Chunk
  <2> QED
    BY <1>0, <1>6, <2>2, <2>3 DEF Chunk, TypeOK
<1>7. ASSUME NEW r \in Request, NEW k \in Kinds, NextModel(r, k) PROVE TypeOK'
  <2>1. Current(r) \in Provider /\ Head(chain[r]) \in Model /\ Tail(chain[r]) \in Seq(Model)
    BY <1>0, <1>7, CurrentTyped DEF NextModel, IInv, AttemptReady, ReadyAt, Calling
  <2>2. PICK reason \in SkipReasons(Current(r), k) : Cool(Current(r), Head(chain[r]), reason)
    BY <1>7 DEF NextModel
  <2>3. cool' \in [Provider -> [Model \cup {Whole} -> {NoError, "unavailable", "quota"}]]
    <3>1. reason \in {NoError, "unavailable", "quota"} /\ Head(chain[r]) \in Model \cup {Whole}
      BY <2>1, ReasonsTyped
    <3>2. \E p \in Provider, m \in Model \cup {Whole}, why \in {NoError, "unavailable", "quota"} :
             Cool(p, m, why)
      BY <2>1, <2>2, <3>1
    <3> QED
      BY <1>0, <3>2, SomeCoolTyped
  <2>4. Budget(r) \in 0..MaxRetries
    BY DEF Budget
  <2> QED
    BY <1>0, <1>7, <2>1, <2>3, <2>4 DEF NextModel, TypeOK
<1>8. ASSUME NEW r \in Request, NEW k \in Kinds, Fail(r, k) PROVE TypeOK'
  <2>1. Current(r) \in Provider /\ Head(chain[r]) \in Model
    BY <1>0, <1>8, CurrentTyped DEF Fail, IInv, AttemptReady, ReadyAt, Calling
  <2>2. PICK reason \in SkipReasons(Current(r), k) :
           IF MayFallBack(r) THEN Cool(Current(r), Head(chain[r]), reason) ELSE UNCHANGED cool
    BY <1>8 DEF Fail
  <2>3. cool' \in [Provider -> [Model \cup {Whole} -> {NoError, "unavailable", "quota"}]]
    <3>1. CASE MayFallBack(r)
      <4>1. reason \in {NoError, "unavailable", "quota"} /\ Head(chain[r]) \in Model \cup {Whole}
        BY <2>1, ReasonsTyped
      <4>2. \E p \in Provider, m \in Model \cup {Whole}, why \in {NoError, "unavailable", "quota"} :
               Cool(p, m, why)
        BY <2>1, <2>2, <3>1, <4>1
      <4> QED
        BY <1>0, <4>2, SomeCoolTyped
    <3>2. CASE ~MayFallBack(r)
      BY <1>0, <2>2, <3>2 DEF TypeOK
    <3> QED
      BY <3>1, <3>2
  <2> QED
    BY <1>0, <1>8, <2>3 DEF Fail, Goto, TypeOK
<1>9. ASSUME NEW r \in Request, Answer(r) PROVE TypeOK'
  <2>1. Current(r) \in Provider /\ Head(chain[r]) \in Model
    BY <1>0, <1>9, CurrentTyped DEF Answer, IInv, AttemptReady, ReadyAt, Calling
  <2>2. cool' \in [Provider -> [Model \cup {Whole} -> {NoError, "unavailable", "quota"}]]
    <3>1. CASE UNCHANGED cool
      BY <1>0, <3>1 DEF TypeOK
    <3>2. CASE Cool(Current(r), IF Current(r) \in PerModel THEN Head(chain[r]) ELSE Whole, "quota")
      BY <1>0, <2>1, <3>2, CoolTyped
    <3> QED
      BY <1>9, <3>1, <3>2 DEF Answer
  <2> QED
    BY <1>0, <1>9, <2>2 DEF Answer, Goto, TypeOK
<1>10. ASSUME NEW r \in Request, Record(r) PROVE TypeOK'
  <2>1. Current(r) \in Provider /\ Tail(queue[r]) \in Seq(Provider) /\ <<>> \in Seq(Model)
    BY <1>0, <1>10, CurrentTyped, EmptySeq DEF Record, IInv, AttemptReady, ReadyAt, Calling
  <2>2. inFlight' \in [Provider -> Nat]
    BY <1>0, <1>10, CallCountedOnce DEF Record, Calling, TypeOK
  <2>3. result[r] \in ErrorKind \cup {"answer"}
    <3>1. result[r] # NoError
      BY <1>10 DEF Record, IInv, AttemptReady, ReadyAt
    <3>2. result[r] \in ErrorKind \cup {NoError, "answer"}
      BY <1>0 DEF TypeOK
    <3> QED
      BY <3>1, <3>2
  <2>4. refusals' \in [Request -> 0..MaxClientErrors]
    <3>1. refusals[r] < MaxClientErrors
      BY <1>10 DEF Record, IInv, AttemptReady, ReadyAt
    <3>2. refusals \in [Request -> 0..MaxClientErrors]
      BY <1>0 DEF TypeOK
    <3>3. refusals[r] + 1 \in 0..MaxClientErrors /\ refusals[r] + 0 \in 0..MaxClientErrors
      BY <3>1, <3>2 DEF MaxClientErrors
    <3> QED
      BY <1>10, <3>2, <3>3 DEF Record
  <2>5. [req |-> r, provider |-> Current(r), outcome |-> result[r]]
           \in [req : Request, provider : Provider, outcome : ErrorKind \cup {"answer"}]
    BY <2>1, <2>3
  <2>6. usage' \subseteq [req : Request, provider : Provider, outcome : ErrorKind \cup {"answer"}]
    BY <1>0, <1>10, <2>5 DEF Record, TypeOK
  <2>7. park' \subseteq Provider
    BY <1>0, <1>10, <2>1 DEF Record, ParkAfter, MayFallBack, TypeOK
  <2>8. broken' \subseteq Request
    BY <1>0, <1>10 DEF Record, Poison, TypeOK
  <2>9. pc' \in [Request -> Label] /\ queue' \in [Request -> Seq(Provider)]
    <3>1. pc' \in [Request -> Label]
      <4>1. \E l \in {"closing", "answered", "next", "failed"} : pc' = [pc EXCEPT ![r] = l]
        BY <1>10 DEF Record, Goto
      <4> QED
        BY <1>a, <4>1 DEF Label
    <3>2. queue' \in [Request -> Seq(Provider)]
      <4>1. queue' = queue \/ queue' = [queue EXCEPT ![r] = Tail(@)]
        BY <1>10 DEF Record
      <4> QED
        <5>1. CASE queue' = queue
          BY <1>b, <5>1
        <5>2. CASE queue' = [queue EXCEPT ![r] = Tail(@)]
          BY <1>b, <2>1, <5>2
        <5> QED
          BY <4>1, <5>1, <5>2
    <3> QED
      BY <3>1, <3>2
  <2>10. chain' \in [Request -> Seq(Model)] /\ retries' \in [Request -> 0..MaxRetries]
    BY <1>0, <1>10, <2>1 DEF Record, Settle, TypeOK
  <2>11. UNCHANGED <<streaming, sent, named, result, holder, saved, cool, reply, called, skipped>>
    BY <1>10 DEF Record
  <2> QED
    BY <1>0, <2>2, <2>4, <2>6, <2>7, <2>8, <2>9, <2>10, <2>11 DEF TypeOK, Label
<1>11. ASSUME NEW r \in Request, StreamFails(r) PROVE TypeOK'
  <2>1. inFlight' \in [Provider -> Nat]
    BY <1>11, CallCountedOnce DEF StreamFails, Calling
  <2>2. End(r, "internal") /\ "internal" \in Outcome /\ Rollback(r) /\ UNCHANGED cool
    BY <1>11 DEF StreamFails, Outcome
  <2> QED
    BY <1>0, <2>1, <2>2, RollbackTyped, EndUnwound
<1>12. ASSUME NEW r \in Request, Close(r) PROVE TypeOK'
  <2>1. inFlight' \in [Provider -> Nat]
    BY <1>12, CallCountedOnce DEF Close, Calling
  <2> QED
    BY <1>0, <1>12, <2>1 DEF Close, Goto, TypeOK
<1>13. ASSUME NEW r \in Request, Return(r) PROVE TypeOK'
  <2>1. holder' \in [Provider -> Request \cup {None}] /\ saved' \subseteq Provider
    BY <1>0, <1>13 DEF Return, Released, TypeOK
  <2>2. End(r, "answer") /\ UNCHANGED <<broken, park, usage, inFlight, cool>>
    BY <1>13 DEF Return
  <2> QED
    <3>1. /\ "answer" \in Outcome /\ broken' \subseteq Request /\ park' \subseteq Provider
          /\ usage' \subseteq [req : Request, provider : Provider, outcome : ErrorKind \cup {"answer"}]
          /\ inFlight' \in [Provider -> Nat] /\ cool' = cool
      BY <1>0, <2>2 DEF TypeOK, Outcome
    <3> QED
      BY <1>0, <2>1, <2>2, <3>1, EndUnwound
<1>14. ASSUME NEW r \in Request,
              ReturnUnrecorded(r) \/ CommitFails(r) \/ Raise(r) \/ Deadlock(r)
       PROVE  TypeOK'
  <2>1. \E outcome \in Outcome : End(r, outcome)
    BY <1>14 DEF ReturnUnrecorded, CommitFails, Raise, Deadlock, Outcome
  <2>2. Rollback(r) /\ inFlight' \in [Provider -> Nat] /\ cool' = cool
    BY <1>14, <1>c DEF ReturnUnrecorded, CommitFails, Raise, Deadlock
  <2> QED
    BY <1>0, <2>1, <2>2, RollbackTyped, EndUnwound
<1>15. ASSUME NEW r \in Request, Exhaust(r) PROVE TypeOK'
  BY <1>0, <1>15 DEF Exhaust, Goto, TypeOK, ErrorKind
<1>16. ASSUME NEW r \in Request, RetryAsAuto(r) PROVE TypeOK'
  BY <1>0, <1>16 DEF RetryAsAuto, Goto, TypeOK
<1>17. ASSUME NEW r \in Request, GiveUp(r) PROVE TypeOK'
  <2>1. result[r] \in Outcome
    BY <1>0 DEF TypeOK, Outcome
  <2>2. End(r, result[r]) /\ Rollback(r) /\ inFlight' \in [Provider -> Nat] /\ cool' = cool
    BY <1>17, <1>c DEF GiveUp
  <2> QED
    BY <1>0, <2>1, <2>2, RollbackTyped, EndUnwound
<1>18. ASSUME NEW r \in Request, Cancel(r) PROVE TypeOK'
  <2>1. inFlight' \in [Provider -> Nat]
    BY <1>0, <1>18, CallCountedOnce DEF Cancel, Landed, TypeOK
  <2>2. End(r, "cancelled") /\ "cancelled" \in Outcome /\ Rollback(r) /\ UNCHANGED cool
    BY <1>18 DEF Cancel, Outcome
  <2> QED
    BY <1>0, <2>1, <2>2, RollbackTyped, EndUnwound
<1>19. CASE Expire
  <2>1. park' \subseteq Provider /\ saved' \subseteq Provider
    BY <1>0, <1>19 DEF Expire, TypeOK
  <2>2. cool' \in [Provider -> [Model \cup {Whole} -> {NoError, "unavailable", "quota"}]]
    <3>1. CASE UNCHANGED cool
      BY <1>0, <3>1 DEF TypeOK
    <3>2. CASE \E p \in Provider, m \in Model \cup {Whole} :
                 cool[p][m] # NoError /\ cool' = [cool EXCEPT ![p][m] = NoError]
      <4>1. PICK p \in Provider, m \in Model \cup {Whole} :
               cool[p][m] # NoError /\ cool' = [cool EXCEPT ![p][m] = NoError]
        BY <3>2
      <4>2. [cool[p] EXCEPT ![m] = NoError] \in [Model \cup {Whole} -> {NoError, "unavailable", "quota"}]
        BY <1>0 DEF TypeOK
      <4>3. cool' = [cool EXCEPT ![p] = [cool[p] EXCEPT ![m] = NoError]]
        BY <4>1
      <4> QED
        BY <1>0, <4>2, <4>3 DEF TypeOK
    <3> QED
      BY <1>19, <3>1, <3>2 DEF Expire
  <2> QED
    BY <1>0, <1>19, <2>1, <2>2 DEF Expire, TypeOK
<1>20. CASE UNCHANGED vars
  BY <1>0, <1>20 DEF vars, TypeOK
<1> QED
  BY <1>1, <1>2, <1>3, <1>4, <1>5, <1>6, <1>7, <1>8, <1>9, <1>10, <1>11, <1>12, <1>13,
     <1>14, <1>15, <1>16, <1>17, <1>18, <1>19, <1>20
  DEF Next, Handle, Upstream

-----------------------------------------------------------------------------
(* A step belongs to one request and leaves the others as they are.        *)

Act(r) ==
    \/ Arrive(r) \/ Handle(r) \/ Upstream(r) \/ Chunk(r)
    \/ StreamFails(r) \/ Deadlock(r) \/ Cancel(r)

\* What the invariants say of request q is as it was.
Same(q) ==
    /\ pc'[q] = pc[q] /\ queue'[q] = queue[q] /\ chain'[q] = chain[q]
    /\ refusals'[q] = refusals[q] /\ result'[q] = result[q]
    /\ sent'[q] = sent[q] /\ called'[q] = called[q] /\ reply'[q] = reply[q]
    /\ (q \in broken') = (q \in broken)
    /\ {e \in usage' : e.req = q} = {e \in usage : e.req = q}

\* Everything about request r that a step may give another value.
Changed(r, l, q, c, n, k) ==
    /\ pc' = [pc EXCEPT ![r] = l] /\ queue' = [queue EXCEPT ![r] = q]
    /\ chain' = [chain EXCEPT ![r] = c]
    /\ refusals' = [refusals EXCEPT ![r] = n] /\ result' = [result EXCEPT ![r] = k]

\* What a change of one request does to its own fields and to the others.
LEMMA ChangedEntries ==
    ASSUME TypeOK, NEW r \in Request, NEW l, NEW q, NEW c, NEW n, NEW k,
           Changed(r, l, q, c, n, k)
    PROVE  /\ pc'[r] = l /\ queue'[r] = q /\ chain'[r] = c
           /\ refusals'[r] = n /\ result'[r] = k
           /\ \A o \in Request \ {r} :
                 /\ pc'[o] = pc[o] /\ queue'[o] = queue[o] /\ chain'[o] = chain[o]
                 /\ refusals'[o] = refusals[o] /\ result'[o] = result[o]
BY DEF TypeOK, Changed

\* The control state each action leaves its request with.
LEMMA ControlChanges ==
    ASSUME TypeOK, NEW r \in Request
    PROVE  /\ Arrive(r) => Changed(r, "rank", queue[r], chain[r], refusals[r], result[r])
           /\ Rank(r) => \E q, k, l : /\ Changed(r, l, q, chain[r], 0, k)
                                      /\ l = IF q = <<>> THEN "failed" ELSE "next"
           /\ Choose(r) => \/ /\ Changed(r, "reserve", queue[r], chain'[r], refusals[r], result[r])
                              /\ chain'[r] # <<>>
                           \/ Changed(r, "next", Tail(queue[r]), <<>>, refusals[r], result[r])
           /\ Reserve(r) =>
                \/ Changed(r, "calling", queue[r], chain[r], refusals[r], result[r])
                \/ Changed(r, "next", Tail(queue[r]), <<>>, refusals[r], result[r])
           /\ \A k \in Kinds : Retry(r, k) => Changed(r, "calling", queue[r], chain[r], refusals[r], result[r])
           /\ Chunk(r) => Changed(r, "calling", queue[r], chain[r], refusals[r], result[r])
           /\ \A k \in Kinds :
                NextModel(r, k) => Changed(r, "calling", queue[r], Tail(chain[r]), refusals[r], result[r])
           /\ \A k \in Kinds : Fail(r, k) => Changed(r, "record", queue[r], chain[r], refusals[r], k)
           /\ Answer(r) => Changed(r, "record", queue[r], chain[r], refusals[r], "answer")
           /\ Record(r) /\ result[r] = "answer" =>
                Changed(r, IF r \in streaming THEN "closing" ELSE "answered", queue[r], <<>>,
                        refusals[r], result[r])
           /\ Record(r) /\ result[r] # "answer" =>
                Changed(r, IF MayFallBack(r) THEN "next" ELSE "failed", Tail(queue[r]), <<>>,
                        refusals[r] + (IF result[r] = "client_error" THEN 1 ELSE 0), result[r])
           /\ Close(r) => Changed(r, "answered", queue[r], chain[r], refusals[r], result[r])
           /\ \A outcome : End(r, outcome) => Changed(r, "ended", <<>>, <<>>, 0, NoError)
           /\ Exhaust(r) => \E k : Changed(r, "failed", queue[r], chain[r], refusals[r], k)
           /\ RetryAsAuto(r) => Changed(r, "rank", queue[r], chain[r], refusals[r], result[r])
<1>a. pc \in [Request -> Label] /\ queue \in [Request -> Seq(Provider)]
  BY DEF TypeOK, Label
<1>b. chain \in [Request -> Seq(Model)] /\ refusals \in [Request -> 0..MaxClientErrors]
  BY DEF TypeOK
<1>c. result \in [Request -> ErrorKind \cup {NoError, "answer"}]
  BY DEF TypeOK
<1> USE <1>a, <1>b, <1>c DEF Changed, Goto, control
<1>1. Arrive(r) => Changed(r, "rank", queue[r], chain[r], refusals[r], result[r])
  BY DEF Arrive
<1>2. ASSUME Rank(r)
      PROVE  \E q, k, l : /\ Changed(r, l, q, chain[r], 0, k)
                          /\ l = IF q = <<>> THEN "failed" ELSE "next"
  <2>1. PICK q, k : /\ queue' = [queue EXCEPT ![r] = q] /\ result' = [result EXCEPT ![r] = k]
                     /\ pc' = [pc EXCEPT ![r] = IF q = <<>> THEN "failed" ELSE "next"]
    <3>1. PICK usable, k :
             /\ queue' = [queue EXCEPT ![r] =
                            IF r \in NoFallback /\ usable # <<>> THEN <<Head(usable)>> ELSE usable]
             /\ result' = [result EXCEPT ![r] = k]
             /\ pc' = [pc EXCEPT ![r] = IF usable = <<>> THEN "failed" ELSE "next"]
      BY <1>2 DEF Rank
    <3>2. <<Head(usable)>> # <<>>
      OBVIOUS
    <3> QED
      BY <3>1, <3>2
  <2>2. refusals' = [refusals EXCEPT ![r] = 0] /\ chain' = chain
    BY <1>2 DEF Rank
  <2>3. Changed(r, IF q = <<>> THEN "failed" ELSE "next", q, chain[r], 0, k)
    BY <2>1, <2>2
  <2> QED
    BY <2>3
<1>3. ASSUME Choose(r)
      PROVE  \/ /\ Changed(r, "reserve", queue[r], chain'[r], refusals[r], result[r])
                /\ chain'[r] # <<>>
             \/ Changed(r, "next", Tail(queue[r]), <<>>, refusals[r], result[r])
  BY <1>3 DEF Choose, Skip
<1>4. ASSUME Reserve(r)
      PROVE  \/ Changed(r, "calling", queue[r], chain[r], refusals[r], result[r])
             \/ Changed(r, "next", Tail(queue[r]), <<>>, refusals[r], result[r])
  BY <1>4 DEF Reserve, Skip
<1>5. ASSUME NEW k \in Kinds, Retry(r, k)
      PROVE  Changed(r, "calling", queue[r], chain[r], refusals[r], result[r])
  BY <1>5 DEF Retry
<1>6. Chunk(r) => Changed(r, "calling", queue[r], chain[r], refusals[r], result[r])
  BY DEF Chunk
<1>7. ASSUME NEW k \in Kinds, NextModel(r, k)
      PROVE  Changed(r, "calling", queue[r], Tail(chain[r]), refusals[r], result[r])
  BY <1>7 DEF NextModel
<1>8. ASSUME NEW k \in Kinds, Fail(r, k)
      PROVE  Changed(r, "record", queue[r], chain[r], refusals[r], k)
  BY <1>8 DEF Fail
<1>9. Answer(r) => Changed(r, "record", queue[r], chain[r], refusals[r], "answer")
  BY DEF Answer
<1>10. ASSUME Record(r), result[r] = "answer"
       PROVE  Changed(r, IF r \in streaming THEN "closing" ELSE "answered", queue[r], <<>>,
                      refusals[r], result[r])
  <2>1. refusals' = refusals
    <3>1. refusals' = [refusals EXCEPT ![r] = @ + 0]
      BY <1>10 DEF Record
    <3>2. refusals[r] \in 0..2
      BY <1>b DEF MaxClientErrors
    <3>3. refusals[r] + 0 = refusals[r]
      BY <3>2
    <3> QED
      BY <1>b, <3>1, <3>3
  <2>2. pc' = [pc EXCEPT ![r] = IF r \in streaming THEN "closing" ELSE "answered"]
    BY <1>10 DEF Record
  <2>3. queue' = queue /\ result' = result /\ chain' = [chain EXCEPT ![r] = <<>>]
    BY <1>10 DEF Record, Settle
  <2> QED
    BY <2>1, <2>2, <2>3
<1>11. ASSUME Record(r), result[r] # "answer"
       PROVE  Changed(r, IF MayFallBack(r) THEN "next" ELSE "failed", Tail(queue[r]), <<>>,
                      refusals[r] + (IF result[r] = "client_error" THEN 1 ELSE 0), result[r])
  BY <1>11 DEF Record, Settle
<1>12. Close(r) => Changed(r, "answered", queue[r], chain[r], refusals[r], result[r])
  BY DEF Close
<1>13. \A outcome : End(r, outcome) => Changed(r, "ended", <<>>, <<>>, 0, NoError)
  BY DEF End, Settle
<1>14. Exhaust(r) => \E k : Changed(r, "failed", queue[r], chain[r], refusals[r], k)
  BY DEF Exhaust
<1>15. RetryAsAuto(r) => Changed(r, "rank", queue[r], chain[r], refusals[r], result[r])
  BY DEF RetryAsAuto
<1> QED
  BY <1>1, <1>2, <1>3, <1>4, <1>5, <1>6, <1>7, <1>8, <1>9, <1>10, <1>11, <1>12, <1>13,
     <1>14, <1>15

\* The actions that end a request: all but Return roll back.
Ends(r) ==
    \/ StreamFails(r) \/ Return(r) \/ ReturnUnrecorded(r) \/ CommitFails(r)
    \/ GiveUp(r) \/ Raise(r) \/ Deadlock(r) \/ Cancel(r)

\* Every ending takes the request out of the queues and releases what it held.
LEMMA EndsChange ==
    ASSUME TypeOK, NEW r \in Request, Ends(r)
    PROVE  /\ \E outcome : End(r, outcome)
           /\ Return(r) \/ Rollback(r)
           /\ Changed(r, "ended", <<>>, <<>>, 0, NoError)
<1>1. PICK outcome : End(r, outcome)
  BY DEF Ends, StreamFails, Return, ReturnUnrecorded, CommitFails, GiveUp, Raise, Deadlock, Cancel
<1>2. Return(r) \/ Rollback(r)
  BY DEF Ends, StreamFails, ReturnUnrecorded, CommitFails, GiveUp, Raise, Deadlock, Cancel
<1> QED
  BY <1>1, <1>2, ControlChanges

\* The steps of a request, those that end it taken together.
LEMMA ActCases ==
    ASSUME NEW r, Act(r)
    PROVE  \/ Arrive(r) \/ Rank(r) \/ Choose(r) \/ Reserve(r)
           \/ \E k \in Kinds : Retry(r, k) \/ NextModel(r, k) \/ Fail(r, k)
           \/ Chunk(r) \/ Answer(r) \/ Record(r) \/ Close(r)
           \/ Exhaust(r) \/ RetryAsAuto(r) \/ Ends(r)
BY DEF Act, Handle, Upstream, Ends

\* A step of r leaves every other request as it is.
LEMMA OthersStand ==
    ASSUME TypeOK, NEW r \in Request, Act(r), NEW q \in Request, q # r
    PROVE  Same(q)
<1>1. \E l, s, c, n, k : Changed(r, l, s, c, n, k)
  <2>1. CASE Ends(r)
    BY <2>1, EndsChange
  <2>2. CASE Arrive(r) \/ Rank(r) \/ Choose(r) \/ Reserve(r) \/ Chunk(r) \/ Answer(r)
    BY <2>2, ControlChanges
  <2>3. CASE \E k \in Kinds : Retry(r, k) \/ NextModel(r, k) \/ Fail(r, k)
    BY <2>3, ControlChanges
  <2>4. CASE Record(r) \/ Close(r) \/ Exhaust(r) \/ RetryAsAuto(r)
    BY <2>4, ControlChanges
  <2> QED
    BY <2>1, <2>2, <2>3, <2>4, ActCases
<1>2. /\ pc'[q] = pc[q] /\ queue'[q] = queue[q] /\ chain'[q] = chain[q]
      /\ refusals'[q] = refusals[q] /\ result'[q] = result[q]
  BY <1>1, ChangedEntries
<1>3. /\ sent'[q] = sent[q] /\ called'[q] = called[q] /\ reply'[q] = reply[q]
  <2>a. /\ sent \in [Request -> SUBSET (Provider \X Model)]
        /\ called \in [Request -> SUBSET Provider]
        /\ reply \in [Request -> Outcome]
    BY DEF TypeOK, Outcome
  <2> USE <2>a DEF client, history
  <2>1. CASE Ends(r)
    BY <2>1, EndsChange DEF End
  <2>2. CASE Arrive(r) \/ Rank(r) \/ Choose(r) \/ Answer(r)
    BY <2>2 DEF Arrive, Rank, Choose, Answer
  <2>3. CASE Reserve(r)
    BY <2>3 DEF Reserve
  <2>4. CASE Chunk(r)
    BY <2>4 DEF Chunk
  <2>5. CASE \E k \in Kinds : Retry(r, k) \/ NextModel(r, k) \/ Fail(r, k)
    BY <2>5 DEF Retry, NextModel, Fail
  <2>6. CASE Record(r) \/ Close(r) \/ Exhaust(r) \/ RetryAsAuto(r)
    BY <2>6 DEF Record, Close, Exhaust, RetryAsAuto
  <2> QED
    BY <2>1, <2>2, <2>3, <2>4, <2>5, <2>6, ActCases
<1>4. /\ (q \in broken') = (q \in broken)
      /\ {e \in usage' : e.req = q} = {e \in usage : e.req = q}
  <2> USE DEF database
  <2>1. CASE Ends(r)
    <3>1. CASE Rollback(r)
      BY <3>1 DEF Rollback
    <3>2. CASE Return(r)
      BY <3>2 DEF Return
    <3> QED
      BY <2>1, <3>1, <3>2, EndsChange
  <2>2. CASE Arrive(r) \/ Rank(r) \/ Choose(r) \/ Answer(r) \/ Reserve(r) \/ Chunk(r)
    BY <2>2 DEF Arrive, Rank, Choose, Answer, Reserve, Chunk
  <2>3. CASE \E k \in Kinds : Retry(r, k) \/ NextModel(r, k) \/ Fail(r, k)
    BY <2>3 DEF Retry, NextModel, Fail
  <2>4. CASE Record(r)
    <3>1. \/ UNCHANGED usage
          \/ usage' = usage \cup {[req |-> r, provider |-> Current(r), outcome |-> result[r]]}
      BY <2>4 DEF Record
    <3>2. broken' = broken \/ broken' = broken \cup {r}
      BY <2>4 DEF Record, Poison
    <3> QED
      BY <3>1, <3>2
  <2>5. CASE Close(r) \/ Exhaust(r) \/ RetryAsAuto(r)
    BY <2>5 DEF Close, Exhaust, RetryAsAuto
  <2> QED
    BY <2>1, <2>2, <2>3, <2>4, <2>5, ActCases
<1> QED
  BY <1>2, <1>3, <1>4 DEF Same

\* Expire and stuttering leave all requests as they are.
LEMMA IdleStand ==
    ASSUME Expire \/ UNCHANGED vars, NEW q PROVE Same(q)
<1> USE DEF vars, control, database, client, history
<1>1. UNCHANGED <<pc, queue, chain, refusals, result, sent, called, reply, broken, usage>>
  BY DEF Expire
<1> QED
  BY <1>1 DEF Same

\* What the invariants promise about one request.
Promises(q) ==
    /\ ReadyAt(q) /\ Distinct(queue[q]) /\ VoiceAt(q)
    /\ RecordedAt(q) /\ CountedAt(q) /\ FailedAt(q) /\ AccountedAt(q)

\* The promises of all requests are the conjuncts of the invariant.
LEMMA AllPromised ==
    (\A q \in Request : Promises(q)) <=>
      /\ AttemptReady /\ CandidatesDistinct /\ BoundToVoice
      /\ CalledRecorded /\ RefusalsCounted /\ FailedForGood /\ AllOrNothing
BY DEF Promises, AttemptReady, CandidatesDistinct, BoundToVoice, CalledRecorded,
       RefusalsCounted, FailedForGood, AllOrNothing, AccountedAt

\* The promises to a request that is left as it is stand.
LEMMA SameKeeps ==
    ASSUME NEW q \in Request, Promises(q), Same(q) PROVE Promises(q)'
<1> USE DEF Same
<1>0. Events(q)' = Events(q) /\ Refusers(q)' = Refusers(q) /\ Ahead(q)' = Ahead(q)
  <2>1. Events(q)' = Events(q)
    BY DEF Events
  <2>2. Refusers(q)' = Refusers(q)
    <3>1. {f \in usage' : f.req = q /\ f.outcome = "client_error"} =
          {f \in usage : f.req = q /\ f.outcome = "client_error"}
      OBVIOUS
    <3> QED
      BY <3>1 DEF Refusers
  <2>3. Ahead(q)' = Ahead(q)
    BY DEF Ahead
  <2> QED
    BY <2>1, <2>2, <2>3
<1>1. ReadyAt(q)' /\ Distinct(queue[q])'
  BY DEF Promises, ReadyAt, Calling, Distinct
<1>2. VoiceAt(q)'
  BY DEF Promises, VoiceAt, Committed, Current
<1>3. RecordedAt(q)' /\ AccountedAt(q)'
  BY <1>0 DEF Promises, RecordedAt, AccountedAt, Current
<1>4. CountedAt(q)' /\ FailedAt(q)'
  BY <1>0 DEF Promises, CountedAt, FailedAt
<1> QED
  BY <1>1, <1>2, <1>3, <1>4 DEF Promises

-----------------------------------------------------------------------------
(* The promises to the request that takes the step.                        *)

\* It keeps what it needs for its next step, and a reason when it fails.
LEMMA ReadyStep ==
    ASSUME IInv, NEW r \in Request, Act(r)
    PROVE  ReadyAt(r)' /\ FailedAt(r)'
<1>0. TypeOK /\ ReadyAt(r) /\ FailedAt(r)
  BY DEF IInv, AttemptReady, FailedForGood
<1> USE <1>0 DEF ReadyAt, FailedAt, Calling
<1>1. CASE Arrive(r) \/ RetryAsAuto(r)
  BY <1>1, ControlChanges, ChangedEntries
<1>2. CASE Rank(r)
  <2>1. PICK q, k, l : /\ Changed(r, l, q, chain[r], 0, k)
                       /\ l = IF q = <<>> THEN "failed" ELSE "next"
    BY <1>2, ControlChanges
  <2>2. pc'[r] = l /\ queue'[r] = q
    BY <2>1, ChangedEntries
  <2> QED
    BY <2>1, <2>2
<1>3. CASE Choose(r)
  <2>1. queue[r] # <<>> /\ refusals[r] < MaxClientErrors
    BY <1>3 DEF Choose, MoreToTry
  <2>2. \/ /\ Changed(r, "reserve", queue[r], chain'[r], refusals[r], result[r])
           /\ chain'[r] # <<>>
        \/ Changed(r, "next", Tail(queue[r]), <<>>, refusals[r], result[r])
    BY <1>3, ControlChanges
  <2>3. \/ /\ pc'[r] = "reserve" /\ queue'[r] = queue[r] /\ chain'[r] # <<>>
           /\ refusals'[r] = refusals[r]
        \/ pc'[r] = "next"
    BY <2>2, ChangedEntries
  <2> QED
    BY <2>1, <2>3
<1>4. CASE Reserve(r)
  <2>1. \/ /\ pc'[r] = "calling" /\ queue'[r] = queue[r] /\ chain'[r] = chain[r]
           /\ refusals'[r] = refusals[r]
        \/ pc'[r] = "next"
    BY <1>4, ControlChanges, ChangedEntries
  <2> QED
    BY <1>4, <2>1 DEF Reserve
<1>5. CASE Chunk(r) \/ \E k \in Kinds : Retry(r, k)
  <2>1. Changed(r, "calling", queue[r], chain[r], refusals[r], result[r])
    BY <1>5, ControlChanges
  <2>2. /\ pc'[r] = "calling" /\ queue'[r] = queue[r] /\ chain'[r] = chain[r]
        /\ refusals'[r] = refusals[r]
    BY <2>1, ChangedEntries
  <2>3. pc[r] = "calling"
    BY <1>5 DEF Chunk, Retry
  <2> QED
    BY <2>2, <2>3
<1>6. ASSUME NEW k \in Kinds, NextModel(r, k) PROVE ReadyAt(r)' /\ FailedAt(r)'
  <2>1. Changed(r, "calling", queue[r], Tail(chain[r]), refusals[r], result[r])
    BY <1>6, ControlChanges
  <2>2. /\ pc'[r] = "calling" /\ queue'[r] = queue[r] /\ chain'[r] = Tail(chain[r])
        /\ refusals'[r] = refusals[r]
    BY <2>1, ChangedEntries
  <2>3. pc[r] = "calling" /\ Len(chain[r]) > 1 /\ chain[r] \in Seq(Model)
    BY <1>6 DEF NextModel, TypeOK
  <2>4. Tail(chain[r]) # <<>>
    BY <2>3, LongTail
  <2> QED
    BY <2>2, <2>3, <2>4
<1>7. ASSUME NEW k \in Kinds \cup {"answer"},
             Changed(r, "record", queue[r], chain[r], refusals[r], k), pc[r] = "calling"
      PROVE  ReadyAt(r)' /\ FailedAt(r)'
  <2>1. /\ pc'[r] = "record" /\ queue'[r] = queue[r] /\ chain'[r] = chain[r]
        /\ refusals'[r] = refusals[r] /\ result'[r] = k
    BY <1>7, ChangedEntries
  <2>2. k # NoError
    BY DispatchAssumption DEF ErrorKind, NoError
  <2> QED
    BY <1>7, <2>1, <2>2
<1>8. CASE Answer(r) \/ \E k \in Kinds : Fail(r, k)
  BY <1>7, <1>8, ControlChanges DEF Answer, Fail
<1>9. CASE Record(r)
  <2>1. CASE result[r] = "answer"
    <3>1. pc'[r] \in {"closing", "answered"} /\ queue'[r] = queue[r]
      BY <1>9, <2>1, ControlChanges, ChangedEntries
    <3>2. queue[r] # <<>>
      BY <1>9 DEF Record
    <3> QED
      BY <3>1, <3>2
  <2>2. CASE result[r] # "answer"
    <3>1. pc'[r] = IF MayFallBack(r) THEN "next" ELSE "failed"
      BY <1>9, <2>2, ControlChanges, ChangedEntries
    <3>2. sent' = sent
      BY <1>9 DEF Record, client
    <3> QED
      BY <3>1, <3>2 DEF MayFallBack
  <2> QED
    BY <2>1, <2>2
<1>10. CASE Close(r)
  BY <1>10, ControlChanges, ChangedEntries
<1>11. CASE Exhaust(r)
  <2>1. pc'[r] = "failed" /\ queue'[r] = queue[r] /\ refusals'[r] = refusals[r]
    BY <1>11, ControlChanges, ChangedEntries
  <2>2. queue[r] = <<>> \/ refusals[r] >= MaxClientErrors
    <3>1. refusals[r] \in 0..2
      BY DEF TypeOK, MaxClientErrors
    <3> QED
      BY <1>11, <3>1 DEF Exhaust, MoreToTry, MaxClientErrors
  <2> QED
    BY <2>1, <2>2
<1>12. CASE Ends(r)
  BY <1>12, EndsChange, ChangedEntries
<1> QED
  BY <1>1, <1>2, <1>3, <1>4, <1>5, <1>6, <1>8, <1>9, <1>10, <1>11, <1>12, ActCases

\* Its candidates remain distinct.
LEMMA DistinctStep ==
    ASSUME IInv, NEW r \in Request, Act(r)
    PROVE  Distinct(queue[r])'
<1>0. TypeOK /\ Distinct(queue[r]) /\ queue \in [Request -> Seq(Provider)]
  BY DEF IInv, CandidatesDistinct, TypeOK
<1>1. CASE queue'[r] = queue[r]
  BY <1>0, <1>1 DEF Distinct
<1>2. CASE queue'[r] = <<>>
  BY <1>2 DEF Distinct
<1>3. CASE queue'[r] = Tail(queue[r]) /\ queue[r] # <<>>
  BY <1>0, <1>3, TailDistinct
<1>4. CASE Rank(r)
  <2>1. PICK ranking \in Rankings :
           \E usable : /\ usable = Only(ranking, {p \in Provider : ~Parked(r, p)})
                       /\ queue' = [queue EXCEPT ![r] =
                            IF r \in NoFallback /\ usable # <<>> THEN <<Head(usable)>> ELSE usable]
    BY <1>4 DEF Rank
  <2>2. PICK usable : /\ usable = Only(ranking, {p \in Provider : ~Parked(r, p)})
                      /\ queue' = [queue EXCEPT ![r] =
                           IF r \in NoFallback /\ usable # <<>> THEN <<Head(usable)>> ELSE usable]
    BY <2>1
  <2>3. ranking \in Seq(Provider) /\ Distinct(ranking)
    BY DispatchAssumption DEF Distinct
  <2>4. Distinct(usable)
    BY <2>2, <2>3, OnlyKeeps
  <2>5. Distinct(<<Head(usable)>>)
    BY DEF Distinct
  <2>6. queue'[r] \in {usable, <<Head(usable)>>}
    BY <1>0, <2>2
  <2> QED
    BY <2>4, <2>5, <2>6
<1>5. ASSUME Choose(r) \/ Reserve(r) \/ Record(r) PROVE queue[r] # <<>>
  BY <1>5 DEF Choose, MoreToTry, Reserve, Record, IInv, AttemptReady, ReadyAt, Calling
<1>6. CASE Choose(r) \/ Reserve(r)
  <2>1. queue'[r] \in {queue[r], Tail(queue[r])}
    <3>1. PICK q \in {queue[r], Tail(queue[r])} : \E l, c :
             Changed(r, l, q, c, refusals[r], result[r])
      BY <1>0, <1>6, ControlChanges
    <3> QED
      BY <1>0, <3>1, ChangedEntries
  <2> QED
    BY <1>1, <1>3, <1>5, <1>6, <2>1
<1>7. CASE Record(r)
  <2>1. CASE result[r] = "answer"
    BY <1>0, <1>1, <1>7, <2>1, ControlChanges, ChangedEntries
  <2>2. CASE result[r] # "answer"
    <3>1. queue'[r] = Tail(queue[r])
      <4>1. Changed(r, IF MayFallBack(r) THEN "next" ELSE "failed", Tail(queue[r]), <<>>,
                    refusals[r] + (IF result[r] = "client_error" THEN 1 ELSE 0), result[r])
        BY <1>0, <1>7, <2>2, ControlChanges
      <4> QED
        BY <1>0, <4>1 DEF Changed
    <3> QED
      BY <1>3, <1>5, <1>7, <3>1
  <2> QED
    BY <2>1, <2>2
<1>8. CASE Arrive(r) \/ Chunk(r) \/ Answer(r) \/ Close(r) \/ Exhaust(r) \/ RetryAsAuto(r)
  BY <1>0, <1>1, <1>8, ControlChanges, ChangedEntries
<1>9. CASE \E k \in Kinds : Retry(r, k) \/ NextModel(r, k) \/ Fail(r, k)
  BY <1>0, <1>1, <1>9, ControlChanges, ChangedEntries
<1>10. CASE Ends(r)
  BY <1>0, <1>2, <1>10, EndsChange, ChangedEntries
<1> QED
  BY <1>4, <1>6, <1>7, <1>8, <1>9, <1>10, ActCases

\* Once the client has seen something, the request keeps to its provider and
\* model.
LEMMA VoiceStep ==
    ASSUME IInv, NEW r \in Request, Act(r)
    PROVE  VoiceAt(r)'
<1>0. TypeOK /\ ReadyAt(r) /\ VoiceAt(r) /\ sent \in [Request -> SUBSET (Provider \X Model)]
  BY DEF IInv, AttemptReady, BoundToVoice, TypeOK
<1> DEFINE Free == {"calling", "record", "closing", "answered", "failed", "ended"}
<1>1. CASE Chunk(r)
  <2>1. Current(r) \in Provider /\ Head(chain[r]) \in Model
    BY <1>0, <1>1, CurrentTyped DEF Chunk, ReadyAt, Calling
  <2>2. /\ pc'[r] = "calling" /\ pc[r] = "calling"
        /\ queue'[r] = queue[r] /\ chain'[r] = chain[r]
    BY <1>0, <1>1, ControlChanges, ChangedEntries DEF Chunk
  <2>a. PICK pm \in Provider \X Model : pm = <<Current(r), Head(chain[r])>>
    BY <2>1
  <2>3. pm = <<Current(r), Head(chain[r])>> /\ pm = <<Current(r)', Head(chain'[r])>>
    BY <2>2, <2>a DEF Current
  <2>4. sent[r] \in {{}, {pm}}
    BY <1>0, <2>2, <2>3 DEF VoiceAt, Committed
  <2>5. sent' \in {sent, [sent EXCEPT ![r] = @ \cup {pm}]}
    BY <1>1, <2>3 DEF Chunk
  <2>6. sent'[r] \in {{}, {pm}}
    BY <1>0, <2>4, <2>5
  <2>7. Committed(r, pm)' \/ sent'[r] = {}
    BY <2>2, <2>3, <2>6 DEF Committed
  <2> QED
    BY <2>7 DEF VoiceAt
<1>2. ASSUME ~Chunk(r) PROVE sent' = sent
  <2> USE DEF client
  <2>1. CASE Ends(r)
    <3>1. PICK outcome : End(r, outcome)
      BY <1>0, <2>1, EndsChange
    <3> QED
      BY <3>1 DEF End
  <2>2. CASE \E k \in Kinds : Retry(r, k) \/ NextModel(r, k) \/ Fail(r, k)
    BY <2>2 DEF Retry, NextModel, Fail
  <2>3. CASE Arrive(r) \/ Rank(r) \/ Choose(r) \/ Reserve(r) \/ Answer(r)
    BY <2>3 DEF Arrive, Rank, Choose, Reserve, Answer
  <2>4. CASE Record(r) \/ Close(r) \/ Exhaust(r) \/ RetryAsAuto(r)
    BY <2>4 DEF Record, Close, Exhaust, RetryAsAuto
  <2> QED
    BY <1>2, <2>1, <2>2, <2>3, <2>4, ActCases
<1>3. ASSUME sent' = sent, sent[r] = {} PROVE VoiceAt(r)'
  BY <1>3 DEF VoiceAt
<1>4. ASSUME sent' = sent, NEW pm \in Provider \X Model, Committed(r, pm), pc'[r] \in Free,
             pc'[r] = "calling" =>
               pc[r] = "calling" /\ queue'[r] = queue[r] /\ chain'[r] = chain[r]
      PROVE  VoiceAt(r)'
  <2>1. Committed(r, pm)'
    BY <1>4 DEF Committed, Current
  <2> QED
    BY <2>1 DEF VoiceAt
<1>5. ASSUME ~Chunk(r), NEW pm \in Provider \X Model, Committed(r, pm) PROVE VoiceAt(r)'
  <2>1. sent[r] # {} /\ pc[r] \in Free
    BY <1>5 DEF Committed
  <2>2. CASE \E k \in Kinds : Retry(r, k)
    <3>1. pc[r] = "calling" /\ pc'[r] = "calling" /\ queue'[r] = queue[r] /\ chain'[r] = chain[r]
      BY <1>0, <2>2, ControlChanges, ChangedEntries DEF Retry
    <3> QED
      BY <1>2, <1>4, <1>5, <3>1
  <2>3. CASE Answer(r) \/ \E k \in Kinds : Fail(r, k)
    <3>1. pc'[r] = "record"
      BY <1>0, <2>3, ControlChanges, ChangedEntries
    <3> QED
      BY <1>2, <1>4, <1>5, <3>1
  <2>4. CASE Record(r)
    <3>1. pc'[r] \in {"closing", "answered", "failed"}
      <4>1. CASE result[r] = "answer"
        BY <1>0, <2>4, <4>1, ControlChanges, ChangedEntries
      <4>2. CASE result[r] # "answer"
        BY <1>0, <2>1, <2>4, <4>2, ControlChanges, ChangedEntries DEF MayFallBack
      <4> QED
        BY <4>1, <4>2
    <3> QED
      BY <1>2, <1>4, <1>5, <3>1
  <2>5. CASE Close(r)
    <3>1. pc'[r] = "answered"
      BY <1>0, <2>5, ControlChanges, ChangedEntries
    <3> QED
      BY <1>2, <1>4, <1>5, <3>1
  <2>6. CASE Ends(r)
    <3>1. pc'[r] = "ended"
      BY <1>0, <2>6, EndsChange, ChangedEntries
    <3> QED
      BY <1>2, <1>4, <1>5, <3>1
  <2>7. ~(\E k \in Kinds : NextModel(r, k)) /\ ~RetryAsAuto(r)
    BY <2>1 DEF NextModel, RetryAsAuto, Unknown, MayFallBack
  <2>8. ~Arrive(r) /\ ~Rank(r) /\ ~Choose(r) /\ ~Reserve(r) /\ ~Exhaust(r)
    BY <2>1 DEF Arrive, Rank, Choose, Reserve, Exhaust
  <2> QED
    BY <1>5, <2>2, <2>3, <2>4, <2>5, <2>6, <2>7, <2>8, ActCases
<1>6. ASSUME ~Chunk(r) PROVE VoiceAt(r)'
  BY <1>0, <1>2, <1>3, <1>5, <1>6 DEF VoiceAt
<1> QED
  BY <1>1, <1>6

\* The usage events of its request after a rollback: none.
LEMMA RollbackErases ==
    ASSUME NEW r, Rollback(r) PROVE Events(r)' = {}
BY DEF Rollback, Events

\* What each action does to the usage events and the transaction of its request.
LEMMA EventChanges ==
    ASSUME NEW r \in Request, Act(r), ~Ends(r), ~Record(r)
    PROVE  usage' = usage /\ broken' = broken
<1> USE DEF database
<1>1. CASE Arrive(r) \/ Rank(r) \/ Choose(r) \/ Answer(r) \/ Reserve(r) \/ Chunk(r)
  BY <1>1 DEF Arrive, Rank, Choose, Answer, Reserve, Chunk
<1>2. CASE \E k \in Kinds : Retry(r, k) \/ NextModel(r, k) \/ Fail(r, k)
  BY <1>2 DEF Retry, NextModel, Fail
<1>3. CASE Close(r) \/ Exhaust(r) \/ RetryAsAuto(r)
  BY <1>3 DEF Close, Exhaust, RetryAsAuto
<1> QED
  BY <1>1, <1>2, <1>3, ActCases

\* Where a recorded attempt leads.
LEMMA RecordLeads ==
    ASSUME TypeOK, NEW r \in Request, Record(r)
    PROVE  /\ pc[r] = "record" /\ pc'[r] \in {"closing", "answered", "next", "failed"}
           /\ result[r] = "answer" => queue'[r] = queue[r] /\ refusals'[r] = refusals[r]
           /\ result[r] # "answer" =>
                /\ queue'[r] = Tail(queue[r])
                /\ refusals'[r] = refusals[r] + (IF result[r] = "client_error" THEN 1 ELSE 0)
<1>1. CASE result[r] = "answer"
  <2>1. Changed(r, IF r \in streaming THEN "closing" ELSE "answered", queue[r], <<>>,
                refusals[r], result[r])
    BY <1>1, ControlChanges
  <2> QED
    BY <1>1, <2>1, ChangedEntries DEF Record
<1>2. CASE result[r] # "answer"
  <2>1. Changed(r, IF MayFallBack(r) THEN "next" ELSE "failed", Tail(queue[r]), <<>>,
                refusals[r] + (IF result[r] = "client_error" THEN 1 ELSE 0), result[r])
    BY <1>2, ControlChanges
  <2>2. pc'[r] = (IF MayFallBack(r) THEN "next" ELSE "failed") /\ queue'[r] = Tail(queue[r])
    BY <2>1 DEF Changed, TypeOK
  <2>3. refusals'[r] = refusals[r] + (IF result[r] = "client_error" THEN 1 ELSE 0)
    BY <2>1 DEF Changed, TypeOK
  <2> QED
    BY <1>2, <2>2, <2>3 DEF Record
<1> QED
  BY <1>1, <1>2

\* A provider called has its event, and an ended request all of them or none.
LEMMA RecordedStep ==
    ASSUME IInv, NEW r \in Request, Act(r)
    PROVE  RecordedAt(r)' /\ AccountedAt(r)'
<1>0. TypeOK /\ RecordedAt(r)
  BY DEF IInv, CalledRecorded
<1>a. called \in [Request -> SUBSET Provider] /\ reply \in [Request -> Outcome]
  BY <1>0 DEF TypeOK, Outcome
<1>1. CASE Ends(r)
  <2>1. pc'[r] = "ended"
    BY <1>0, <1>1, EndsChange, ChangedEntries
  <2>2. RecordedAt(r)'
    BY <2>1 DEF RecordedAt
  <2>3. CASE Rollback(r)
    BY <2>2, <2>3, RollbackErases DEF AccountedAt
  <2>4. CASE Return(r)
    <3>1. pc[r] = "answered" /\ r \notin broken /\ usage' = usage
      BY <2>4 DEF Return
    <3>2. called[r] \subseteq Events(r)
      BY <1>0, <3>1 DEF RecordedAt
    <3>3. reply'[r] = "answer" /\ called' = called
      BY <1>a, <2>4 DEF Return, End
    <3>4. Events(r)' = Events(r)
      BY <3>1 DEF Events
    <3>5. AccountedAt(r)'
      BY <3>2, <3>3, <3>4 DEF AccountedAt
    <3> QED
      BY <2>2, <3>5
  <2> QED
    BY <1>0, <1>1, <2>3, <2>4, EndsChange
<1>2. ASSUME ~Ends(r) PROVE pc[r] # "ended" /\ pc'[r] # "ended"
  <2>1. CASE \E k \in Kinds : Retry(r, k) \/ NextModel(r, k) \/ Fail(r, k)
    BY <1>0, <2>1, ControlChanges, ChangedEntries DEF Retry, NextModel, Fail
  <2>2. CASE Arrive(r) \/ Choose(r) \/ Reserve(r) \/ Chunk(r) \/ Answer(r)
    BY <1>0, <2>2, ControlChanges, ChangedEntries DEF Arrive, Choose, Reserve, Chunk, Answer
  <2>3. CASE Rank(r)
    <3>1. pc'[r] \in {"failed", "next"}
      BY <1>0, <2>3 DEF Rank, Goto, TypeOK
    <3> QED
      BY <2>3, <3>1 DEF Rank
  <2>4. CASE Record(r)
    BY <1>0, <2>4, RecordLeads
  <2>5. CASE Close(r) \/ Exhaust(r) \/ RetryAsAuto(r)
    BY <1>0, <2>5, ControlChanges, ChangedEntries DEF Close, Exhaust, RetryAsAuto
  <2> QED
    BY <1>2, <2>1, <2>2, <2>3, <2>4, <2>5, ActCases
<1>3. ASSUME Reserve(r), ~Ends(r) PROVE RecordedAt(r)'
  <2>1. ~Record(r) /\ pc[r] = "reserve"
    BY <1>3 DEF Reserve, Record
  <2>2. usage' = usage /\ broken' = broken
    BY <1>3, <2>1, EventChanges
  <2>3. \/ /\ pc'[r] = "calling" /\ queue'[r] = queue[r]
           /\ called'[r] = called[r] \cup {Current(r)}
        \/ called'[r] = called[r]
    BY <1>0, <1>a, <1>3 DEF Reserve, Goto, TypeOK
  <2>4. r \notin broken => called[r] \subseteq Events(r)
    BY <1>0, <2>1 DEF RecordedAt
  <2> QED
    BY <2>2, <2>3, <2>4 DEF RecordedAt, Events, Current
<1>4. CASE Record(r)
  <2>1. pc[r] = "record" /\ pc'[r] \notin {"calling", "record"} /\ called' = called
    BY <1>0, <1>4, RecordLeads DEF Record
  <2>2. \/ r \in broken'
        \/ /\ broken' = broken
           /\ usage' = usage \cup {[req |-> r, provider |-> Current(r), outcome |-> result[r]]}
    BY <1>4 DEF Record, Poison
  <2>3. ASSUME r \notin broken' PROVE \A p \in called[r] : p \in Events(r)'
    <3>1. \A p \in called[r] : p \in Events(r) \/ p = Current(r)
      BY <1>0, <2>1, <2>2, <2>3 DEF RecordedAt
    <3>2. Events(r) \subseteq Events(r)' /\ Current(r) \in Events(r)'
      BY <2>2, <2>3 DEF Events
    <3> QED
      BY <3>1, <3>2
  <2>4. RecordedAt(r)'
    BY <2>1, <2>3 DEF RecordedAt
  <2>5. AccountedAt(r)'
    BY <1>0, <1>4, RecordLeads DEF AccountedAt
  <2> QED
    BY <2>4, <2>5
<1>5. ASSUME ~Ends(r), ~Reserve(r), ~Record(r) PROVE RecordedAt(r)'
  <2>1. usage' = usage /\ broken' = broken
    BY <1>5, EventChanges
  <2> USE DEF history
  <2>2. CASE \E k \in Kinds : Retry(r, k) \/ NextModel(r, k) \/ Fail(r, k)
    <3>1. called' = called
      BY <2>2 DEF Retry, NextModel, Fail
    <3>2. pc[r] = "calling" /\ pc'[r] \in {"calling", "record"} /\ queue'[r] = queue[r]
      BY <1>0, <2>2, ControlChanges, ChangedEntries DEF Retry, NextModel, Fail
    <3> QED
      BY <1>0, <2>1, <3>1, <3>2 DEF RecordedAt, Events, Current
  <2>3. CASE Chunk(r) \/ Answer(r)
    <3>1. called' = called
      BY <2>3 DEF Chunk, Answer
    <3>2. pc[r] = "calling" /\ pc'[r] \in {"calling", "record"} /\ queue'[r] = queue[r]
      BY <1>0, <2>3, ControlChanges, ChangedEntries DEF Chunk, Answer
    <3> QED
      BY <1>0, <2>1, <3>1, <3>2 DEF RecordedAt, Events, Current
  <2>4. CASE \/ Arrive(r) \/ Rank(r) \/ Choose(r) \/ Close(r) \/ Exhaust(r) \/ RetryAsAuto(r)
    <3>1. called' = called /\ pc[r] \notin {"calling", "record", "ended"}
      BY <2>4 DEF Arrive, Rank, Choose, Close, Exhaust, RetryAsAuto
    <3> QED
      BY <1>0, <2>1, <3>1 DEF RecordedAt, Events
  <2> QED
    BY <1>5, <2>2, <2>3, <2>4, ActCases
<1>6. ASSUME ~Ends(r) PROVE AccountedAt(r)'
  BY <1>2, <1>6 DEF AccountedAt
<1> QED
  BY <1>1, <1>3, <1>4, <1>5, <1>6

\* There are finitely many providers to call it a bad request.
LEMMA RefusersFinite ==
    ASSUME TypeOK, NEW r
    PROVE  /\ Refusers(r) \subseteq Provider
           /\ IsFiniteSet(Refusers(r) \ Ahead(r))
           /\ Cardinality(Refusers(r) \ Ahead(r)) \in Nat
<1>1. Refusers(r) \subseteq Provider
  BY DEF TypeOK, Refusers
<1> QED
  BY <1>1, DispatchAssumption, FS_Subset, FS_CardinalityType

\* The candidates still ahead once the first is dropped.
LEMMA DroppedAhead ==
    ASSUME NEW q \in Seq(Provider), q # <<>>, Distinct(q)
    PROVE  /\ {Tail(q)[i] : i \in DOMAIN Tail(q)} \subseteq {q[i] : i \in DOMAIN q} \ {Head(q)}
           /\ Head(q) \in {q[i] : i \in DOMAIN q}
BY TailDistinct

\* Nothing but a recorded client error raises the count of client errors, and no
\* refusal is forgotten.
LEMMA CountedStep ==
    ASSUME IInv, TypeOK', NEW r \in Request, Act(r)
    PROVE  CountedAt(r)'
<1>0. TypeOK /\ CountedAt(r) /\ Distinct(queue[r]) /\ queue[r] \in Seq(Provider)
  BY DEF IInv, RefusalsCounted, CandidatesDistinct, TypeOK
<1>a. Cardinality(Refusers(r) \ Ahead(r)) \in Nat /\ refusals[r] \in 0..2
  BY <1>0, RefusersFinite DEF TypeOK, MaxClientErrors
<1>b. /\ IsFiniteSet(Refusers(r)' \ Ahead(r)')
      /\ Cardinality(Refusers(r)' \ Ahead(r)') \in Nat
  <2>1. Refusers(r)' \subseteq Provider
    BY DEF TypeOK, Refusers
  <2> QED
    BY <2>1, DispatchAssumption, FS_Subset, FS_CardinalityType
<1>1. CASE Ends(r)
  BY <1>0, <1>1, EndsChange, ChangedEntries DEF CountedAt
\* No new refusal is counted, and the candidates are the same or fewer.
<1>2. ASSUME refusals'[r] = refusals[r], usage' = usage, broken' = broken, pc[r] # "ended",
             Ahead(r)' \subseteq Ahead(r)
      PROVE  CountedAt(r)'
  <2>1. Refusers(r)' = Refusers(r)
    BY <1>2 DEF Refusers
  <2>2. Cardinality(Refusers(r) \ Ahead(r)) <= Cardinality(Refusers(r)' \ Ahead(r)')
    BY <1>2, <1>b, <2>1, FS_Subset
  <2> QED
    BY <1>0, <1>2, <1>a, <1>b, <2>2 DEF CountedAt
<1>3. CASE Rank(r)
  <2>1. refusals'[r] = 0
    BY <1>0, <1>3 DEF Rank, TypeOK
  <2> QED
    BY <1>b, <2>1 DEF CountedAt
<1>4. ASSUME \/ queue'[r] = queue[r]
             \/ queue'[r] = Tail(queue[r]) /\ queue[r] # <<>>
      PROVE  Ahead(r)' \subseteq Ahead(r)
  BY <1>0, <1>4, DroppedAhead DEF Ahead
<1>5. CASE ~Ends(r) /\ ~Record(r) /\ ~Rank(r)
  <2>1. usage' = usage /\ broken' = broken
    BY <1>5, EventChanges
  <2>2. CASE Choose(r) \/ Reserve(r)
    <3>1. queue[r] # <<>> /\ pc[r] # "ended"
      BY <2>2 DEF Choose, MoreToTry, Reserve, IInv, AttemptReady, ReadyAt
    <3>2. PICK q \in {queue[r], Tail(queue[r])} : \E l, c :
             Changed(r, l, q, c, refusals[r], result[r])
      BY <1>0, <2>2, ControlChanges
    <3>3. queue'[r] = q /\ refusals'[r] = refusals[r]
      BY <1>0, <3>2, ChangedEntries
    <3> QED
      BY <1>2, <1>4, <2>1, <3>1, <3>3
  <2>3. CASE \E k \in Kinds : Retry(r, k) \/ NextModel(r, k) \/ Fail(r, k)
    <3>1. queue'[r] = queue[r] /\ refusals'[r] = refusals[r]
      BY <1>0, <2>3, ControlChanges, ChangedEntries
    <3>2. pc[r] # "ended"
      BY <2>3 DEF Retry, NextModel, Fail
    <3> QED
      BY <1>2, <1>4, <2>1, <3>1, <3>2
  <2>4. CASE Arrive(r) \/ Chunk(r) \/ Answer(r) \/ Close(r) \/ Exhaust(r) \/ RetryAsAuto(r)
    <3>1. queue'[r] = queue[r] /\ refusals'[r] = refusals[r]
      BY <1>0, <2>4, ControlChanges, ChangedEntries
    <3>2. pc[r] # "ended"
      BY <2>4 DEF Arrive, Chunk, Answer, Close, Exhaust, RetryAsAuto
    <3> QED
      BY <1>2, <1>4, <2>1, <3>1, <3>2
  <2> QED
    BY <1>5, <2>2, <2>3, <2>4, ActCases
<1>6. CASE Record(r)
  <2> DEFINE event == [req |-> r, provider |-> Current(r), outcome |-> result[r]]
  <2>1. /\ pc[r] = "record" /\ queue[r] # <<>>
        /\ \/ r \in broken'
           \/ broken' = broken /\ usage' = usage \cup {event}
    BY <1>6 DEF Record, Poison, IInv, AttemptReady, ReadyAt, Calling
  <2>2. SUFFICES ASSUME r \notin broken' PROVE CountedAt(r)'
    BY DEF CountedAt
  <2>3. refusals[r] <= Cardinality(Refusers(r) \ Ahead(r))
    BY <1>0, <2>1, <2>2 DEF CountedAt
  <2>4. usage' = usage \cup {event}
    BY <2>1, <2>2
  <2>5. Refusers(r) \subseteq Refusers(r)'
    BY <2>4 DEF Refusers
  <2>6. Ahead(r)' \subseteq Ahead(r)
    BY <1>0, <1>4, <1>6, <2>1, RecordLeads
  <2>7. Refusers(r) \ Ahead(r) \subseteq Refusers(r)' \ Ahead(r)'
    BY <2>5, <2>6
  <2>8. CASE result[r] # "client_error"
    <3>1. refusals'[r] = refusals[r]
      <4>1. refusals'[r] = refusals[r] \/ refusals'[r] = refusals[r] + 0
        BY <1>0, <1>6, <2>8, RecordLeads
      <4> QED
        BY <1>a, <4>1
    <3>2. Cardinality(Refusers(r) \ Ahead(r)) <= Cardinality(Refusers(r)' \ Ahead(r)')
      BY <1>b, <2>7, FS_Subset
    <3> QED
      BY <1>a, <1>b, <2>3, <3>1, <3>2 DEF CountedAt
  <2>9. CASE result[r] = "client_error"
    <3>1. refusals'[r] = refusals[r] + 1 /\ queue'[r] = Tail(queue[r])
      BY <1>0, <1>6, <2>9, RecordLeads
    <3>2. Current(r) \in Ahead(r) /\ Current(r) \notin Ahead(r)'
      BY <1>0, <2>1, <3>1, DroppedAhead DEF Ahead, Current
    <3>3. Current(r) \in Refusers(r)'
      <4>1. /\ event.req = r /\ event.provider = Current(r)
            /\ event.outcome = "client_error" /\ event \in usage'
        BY <2>4, <2>9
      <4> HIDE DEF event
      <4>2. event \in {f \in usage' : f.req = r /\ f.outcome = "client_error"}
        BY <4>1
      <4> QED
        BY <4>1, <4>2 DEF Refusers
    <3> DEFINE old == Refusers(r) \ Ahead(r)
               new == Refusers(r)' \ Ahead(r)'
    <3>4. Current(r) \notin old /\ old \cup {Current(r)} \subseteq new
      BY <2>7, <3>2, <3>3
    <3>5. IsFiniteSet(old) /\ IsFiniteSet(old \cup {Current(r)})
      BY <1>0, RefusersFinite, FS_AddElement
    <3> HIDE DEF old, new
    <3>6. Cardinality(old \cup {Current(r)}) = Cardinality(old) + 1
      BY <3>4, <3>5, FS_AddElement
    <3>7. Cardinality(old) + 1 <= Cardinality(new)
      BY <1>b, <3>4, <3>6, FS_Subset DEF new
    <3>8. refusals'[r] <= Cardinality(Refusers(r)' \ Ahead(r)')
      BY <1>a, <1>b, <2>3, <3>1, <3>7 DEF old, new
    <3> QED
      BY <3>8 DEF CountedAt
  <2> QED
    BY <2>8, <2>9
<1> QED
  BY <1>1, <1>3, <1>5, <1>6

-----------------------------------------------------------------------------
(* The row locks and the counters of calls in flight.                      *)

\* A step takes a free row or releases rows of its own request.
LEMMA HolderChanges ==
    ASSUME TypeOK, NEW r \in Request, Act(r), NEW p \in Provider, holder[p] \notin {None, r}
    PROVE  holder'[p] = holder[p]
<1>a. holder \in [Provider -> Request \cup {None}]
  BY DEF TypeOK
<1> USE <1>a DEF database
<1>1. CASE Ends(r)
  BY <1>1, EndsChange DEF Rollback, Return, Released
<1>2. CASE Reserve(r)
  BY <1>2 DEF Reserve
<1>3. CASE Arrive(r) \/ Rank(r) \/ Choose(r) \/ Answer(r) \/ Chunk(r)
  BY <1>3 DEF Arrive, Rank, Choose, Answer, Chunk
<1>4. CASE \E k \in Kinds : Retry(r, k) \/ NextModel(r, k) \/ Fail(r, k)
  BY <1>4 DEF Retry, NextModel, Fail
<1>5. CASE Record(r) \/ Close(r) \/ Exhaust(r) \/ RetryAsAuto(r)
  BY <1>5 DEF Record, Close, Exhaust, RetryAsAuto
<1> QED
  BY <1>1, <1>2, <1>3, <1>4, <1>5, ActCases

\* A request whose call is under way stays at the same provider, under its lock.
LEMMA CallKept ==
    ASSUME TypeOK, NEW r \in Request, Act(r), ~Reserve(r), Calling(r)'
    PROVE  Calling(r) /\ queue'[r] = queue[r] /\ holder' = holder
<1> USE DEF Calling, database
<1>1. CASE Ends(r)
  BY <1>1, EndsChange, ChangedEntries
<1>2. CASE \E k \in Kinds : Retry(r, k) \/ NextModel(r, k) \/ Fail(r, k)
  <2>1. queue'[r] = queue[r]
    BY <1>2, ControlChanges, ChangedEntries
  <2> QED
    BY <1>2, <2>1 DEF Retry, NextModel, Fail
<1>3. CASE Chunk(r) \/ Answer(r)
  <2>1. queue'[r] = queue[r]
    BY <1>3, ControlChanges, ChangedEntries
  <2> QED
    BY <1>3, <2>1 DEF Chunk, Answer
<1>4. CASE Record(r)
  <2>1. result[r] = "answer"
    <3>1. ASSUME result[r] # "answer" PROVE pc'[r] \in {"next", "failed"}
      BY <1>4, <3>1 DEF Record, Goto, TypeOK
    <3> QED
      BY <3>1
  <2> QED
    BY <1>4, <2>1, RecordLeads DEF Record
<1>5. CASE Arrive(r) \/ Choose(r) \/ Close(r) \/ Exhaust(r) \/ RetryAsAuto(r)
  BY <1>5, ControlChanges, ChangedEntries
<1>6. CASE Rank(r)
  <2>1. pc'[r] \in {"failed", "next"}
    BY <1>6 DEF Rank, Goto, TypeOK
  <2> QED
    BY <2>1
<1> QED
  BY <1>1, <1>2, <1>3, <1>4, <1>5, <1>6, ActCases

\* Uncommitted work stays behind its row lock.
LEMMA LockStep ==
    ASSUME IInv, NEW r \in Request, Act(r)
    PROVE  WorkUnderLock'
<1>0. TypeOK /\ WorkUnderLock
  BY DEF IInv
<1>a. holder \in [Provider -> Request \cup {None}] /\ reply \in [Request -> Outcome]
  BY <1>0 DEF TypeOK, Outcome
<1>b. usage \subseteq [req : Request, provider : Provider, outcome : ErrorKind \cup {"answer"}]
  BY <1>0 DEF TypeOK
<1> USE <1>a, DispatchAssumption DEF database
<1>1. ASSUME NEW q \in Request, Calling(q)' PROVE holder'[Current(q)'] = q
  <2>1. CASE q # r
    <3>1. Calling(q) /\ Current(q)' = Current(q)
      BY <1>0, <1>1, <2>1, OthersStand DEF Same, Calling, Current
    <3>2. Current(q) \in Provider /\ holder[Current(q)] = q
      BY <1>0, <3>1, CurrentTyped DEF WorkUnderLock, IInv, AttemptReady, ReadyAt
    <3>3. holder[Current(q)] \notin {None, r}
      BY <2>1, <3>2
    <3> QED
      BY <1>0, <3>1, <3>2, <3>3, HolderChanges
  <2>2. CASE q = r /\ Reserve(r)
    <3>1. queue'[r] = queue[r] \/ pc'[r] = "next"
      BY <1>0, <2>2, ControlChanges, ChangedEntries
    <3>2. holder' = [holder EXCEPT ![Current(r)] = r]
      BY <2>2 DEF Reserve
    <3>3. Current(r) \in Provider
      BY <1>0, <2>2, CurrentTyped DEF Reserve, IInv, AttemptReady, ReadyAt
    <3>4. queue'[r] = queue[r]
      BY <1>1, <2>2, <3>1 DEF Calling
    <3> QED
      BY <2>2, <3>2, <3>3, <3>4 DEF Current
  <2>3. CASE q = r /\ ~Reserve(r)
    BY <1>0, <1>1, <2>3, CallKept DEF WorkUnderLock, Current
  <2> QED
    BY <2>1, <2>2, <2>3
<1>2. CASE Ends(r)
  <2>1. CASE Rollback(r)
    <3>1. ASSUME NEW p \in Provider, (p \in park') # (p \in saved') PROVE holder'[p] # None
      BY <1>0, <2>1, <3>1 DEF Rollback, Released, Restored, WorkUnderLock
    <3>2. ASSUME NEW e \in usage' PROVE reply'[e.req] = "answer" \/ holder'[e.provider] = e.req
      <4>1. e \in usage /\ e.req # r /\ e.req \in Request /\ e.provider \in Provider
        BY <1>b, <2>1, <3>2 DEF Rollback
      <4>2. reply'[e.req] = reply[e.req]
        BY <1>0, <4>1, OthersStand DEF Same
      <4>3. holder[e.provider] = e.req => holder'[e.provider] = e.req
        BY <1>0, <4>1, HolderChanges
      <4> QED
        BY <1>0, <4>1, <4>2, <4>3 DEF WorkUnderLock
    <3> QED
      BY <1>1, <3>1, <3>2 DEF WorkUnderLock
  <2>2. CASE Return(r)
    <3>1. ASSUME NEW p \in Provider, (p \in park') # (p \in saved') PROVE holder'[p] # None
      BY <1>0, <2>2, <3>1 DEF Return, Released, WorkUnderLock
    <3>2. ASSUME NEW e \in usage' PROVE reply'[e.req] = "answer" \/ holder'[e.provider] = e.req
      <4>1. e \in usage /\ e.req \in Request /\ e.provider \in Provider
        BY <1>b, <2>2, <3>2 DEF Return
      <4>2. CASE e.req = r
        BY <2>2, <4>2 DEF Return, End
      <4>3. CASE e.req # r
        <5>1. reply'[e.req] = reply[e.req]
          BY <1>0, <4>1, <4>3, OthersStand DEF Same
        <5>2. holder[e.provider] = e.req => holder'[e.provider] = e.req
          BY <1>0, <4>1, <4>3, HolderChanges
        <5> QED
          BY <1>0, <4>1, <5>1, <5>2 DEF WorkUnderLock
      <4> QED
        BY <4>2, <4>3
    <3> QED
      BY <1>1, <3>1, <3>2 DEF WorkUnderLock
  <2> QED
    BY <1>0, <1>2, <2>1, <2>2, EndsChange
<1>3. ASSUME ~Ends(r) PROVE reply' = reply /\ saved' = saved
  <2> USE DEF client
  <2>1. CASE Arrive(r) \/ Rank(r) \/ Choose(r) \/ Answer(r) \/ Reserve(r) \/ Chunk(r)
    BY <2>1 DEF Arrive, Rank, Choose, Answer, Reserve, Chunk
  <2>2. CASE \E k \in Kinds : Retry(r, k) \/ NextModel(r, k) \/ Fail(r, k)
    BY <2>2 DEF Retry, NextModel, Fail
  <2>3. CASE Record(r) \/ Close(r) \/ Exhaust(r) \/ RetryAsAuto(r)
    BY <2>3 DEF Record, Close, Exhaust, RetryAsAuto
  <2> QED
    BY <1>3, <2>1, <2>2, <2>3, ActCases
<1>4. CASE Reserve(r) /\ ~Ends(r)
  <2>1. /\ holder' = [holder EXCEPT ![Current(r)] = r] /\ holder[Current(r)] \in {None, r}
        /\ park' = park /\ usage' = usage
    BY <1>4 DEF Reserve
  <2>2. ASSUME NEW p \in Provider, (p \in park') # (p \in saved') PROVE holder'[p] # None
    BY <1>0, <1>3, <1>4, <2>1, <2>2 DEF WorkUnderLock
  <2>3. ASSUME NEW e \in usage' PROVE reply'[e.req] = "answer" \/ holder'[e.provider] = e.req
    <3>1. e \in usage /\ e.req \in Request /\ e.provider \in Provider
      BY <1>b, <2>1, <2>3
    <3> QED
      BY <1>0, <1>3, <1>4, <2>1, <3>1 DEF WorkUnderLock
  <2> QED
    BY <1>1, <2>2, <2>3 DEF WorkUnderLock
<1>5. CASE Record(r) /\ ~Ends(r)
  <2>1. Current(r) \in Provider /\ holder[Current(r)] = r /\ holder' = holder
    BY <1>0, <1>5, CurrentTyped DEF Record, WorkUnderLock, Calling, IInv, AttemptReady, ReadyAt
  <2>2. /\ \A p \in Provider \ {Current(r)} : p \in park' <=> p \in park
        /\ usage' \subseteq usage \cup {[req |-> r, provider |-> Current(r), outcome |-> result[r]]}
    BY <1>5 DEF Record, ParkAfter
  <2>3. ASSUME NEW p \in Provider, (p \in park') # (p \in saved') PROVE holder'[p] # None
    BY <1>0, <1>3, <1>5, <2>1, <2>2, <2>3 DEF WorkUnderLock
  <2>4. ASSUME NEW e \in usage' PROVE reply'[e.req] = "answer" \/ holder'[e.provider] = e.req
    BY <1>0, <1>3, <1>5, <2>1, <2>2, <2>4 DEF WorkUnderLock
  <2> QED
    BY <1>1, <2>3, <2>4 DEF WorkUnderLock
<1>6. CASE ~Ends(r) /\ ~Record(r) /\ ~Reserve(r)
  <2>1. UNCHANGED <<park, usage, holder>>
    <3>1. CASE Arrive(r) \/ Rank(r) \/ Choose(r) \/ Answer(r) \/ Chunk(r)
      BY <3>1 DEF Arrive, Rank, Choose, Answer, Chunk
    <3>2. CASE \E k \in Kinds : Retry(r, k) \/ NextModel(r, k) \/ Fail(r, k)
      BY <3>2 DEF Retry, NextModel, Fail
    <3>3. CASE Close(r) \/ Exhaust(r) \/ RetryAsAuto(r)
      BY <3>3 DEF Close, Exhaust, RetryAsAuto
    <3> QED
      BY <1>6, <3>1, <3>2, <3>3, ActCases
  <2> QED
    BY <1>0, <1>1, <1>3, <1>6, <2>1 DEF WorkUnderLock
<1> QED
  BY <1>2, <1>4, <1>5, <1>6

\* A call lands exactly when its request stops calling.
LEMMA LandsOnce ==
    ASSUME TypeOK, NEW r \in Request, Act(r), ~Reserve(r)
    PROVE  inFlight' = IF Calling(r) /\ ~Calling(r)' THEN Land(r) ELSE inFlight
<1> USE DEF Calling
<1>1. CASE Ends(r)
  <2>1. ~Calling(r)'
    BY <1>1, EndsChange, ChangedEntries
  <2>2. CASE StreamFails(r) \/ Cancel(r)
    BY <2>1, <2>2 DEF StreamFails, Cancel, Landed
  <2>3. CASE Return(r) \/ ReturnUnrecorded(r) \/ CommitFails(r) \/ GiveUp(r) \/ Raise(r) \/ Deadlock(r)
    BY <2>1, <2>3 DEF Return, ReturnUnrecorded, CommitFails, GiveUp, Raise, Deadlock, Waits
  <2> QED
    BY <1>1, <2>2, <2>3 DEF Ends
<1>2. CASE \E k \in Kinds : Retry(r, k) \/ NextModel(r, k) \/ Fail(r, k)
  <2>1. pc'[r] \in {"calling", "record"}
    BY <1>2, ControlChanges, ChangedEntries
  <2>2. inFlight' = inFlight
    BY <1>2 DEF Retry, NextModel, Fail
  <2> QED
    BY <2>1, <2>2
<1>3. CASE Chunk(r) \/ Answer(r)
  <2>1. pc'[r] \in {"calling", "record"}
    BY <1>3, ControlChanges, ChangedEntries
  <2>2. inFlight' = inFlight
    BY <1>3 DEF Chunk, Answer
  <2> QED
    BY <2>1, <2>2
<1>4. CASE Record(r)
  <2>1. pc[r] = "record"
    BY <1>4 DEF Record
  <2>2. CASE r \in streaming /\ result[r] = "answer"
    <3>1. pc'[r] = "closing" /\ inFlight' = inFlight
      BY <1>4, <2>2 DEF Record, Goto, TypeOK
    <3> QED
      BY <3>1
  <2>3. CASE ~(r \in streaming /\ result[r] = "answer")
    <3>1. pc'[r] \in {"answered", "next", "failed"}
      BY <1>4, <2>3 DEF Record, Goto, TypeOK
    <3>2. inFlight' = Land(r)
      BY <1>4, <2>3 DEF Record
    <3> QED
      BY <2>1, <3>1, <3>2
  <2> QED
    BY <2>2, <2>3
<1>5. CASE Close(r)
  <2>1. pc'[r] = "answered"
    BY <1>5, ControlChanges, ChangedEntries
  <2> QED
    BY <1>5, <2>1 DEF Close
<1>6. CASE Arrive(r) \/ Rank(r) \/ Choose(r) \/ Exhaust(r) \/ RetryAsAuto(r)
  BY <1>6 DEF Arrive, Rank, Choose, Exhaust, RetryAsAuto
<1> QED
  BY <1>1, <1>2, <1>3, <1>4, <1>5, <1>6, ActCases

\* The counters follow the calls.
LEMMA FlightStep ==
    ASSUME IInv, NEW r \in Request, Act(r)
    PROVE  InFlightExact'
<1>0. TypeOK /\ inFlight \in [Provider -> Nat]
  BY DEF IInv, TypeOK
<1>1. \A p \in Provider : inFlight[p] = Cardinality(InCall(p))
  BY DEF IInv, InFlightExact, InCall
<1>2. \A q \in Request \ {r} : Calling(q)' = Calling(q) /\ Current(q)' = Current(q)
  BY <1>0, OthersStand DEF Same, Calling, Current
<1> SUFFICES ASSUME NEW p \in Provider PROVE inFlight'[p] = Cardinality(InCall(p)')
  BY DEF InFlightExact, InCall
\* Nothing that concerns p changes.
<1>3. ASSUME inFlight'[p] = inFlight[p], (r \in InCall(p)') = (r \in InCall(p))
      PROVE  inFlight'[p] = Cardinality(InCall(p)')
  <2>1. InCall(p)' = InCall(p)
    BY <1>2, <1>3 DEF InCall
  <2> QED
    BY <1>1, <1>3, <2>1
<1>4. ASSUME inFlight'[p] = inFlight[p] + 1, r \in InCall(p)', r \notin InCall(p)
      PROVE  inFlight'[p] = Cardinality(InCall(p)')
  <2>1. InCall(p)' = InCall(p) \cup {r}
    BY <1>2, <1>4 DEF InCall
  <2>2. Cardinality(InCall(p) \cup {r}) = Cardinality(InCall(p)) + 1
    BY <1>4, InCallFinite, FS_AddElement
  <2> QED
    BY <1>1, <1>4, <2>1, <2>2
<1>5. ASSUME inFlight'[p] = inFlight[p] - 1, r \notin InCall(p)', r \in InCall(p)
      PROVE  inFlight'[p] = Cardinality(InCall(p)')
  <2>1. InCall(p)' = InCall(p) \ {r}
    BY <1>2, <1>5 DEF InCall
  <2>2. Cardinality(InCall(p) \ {r}) = Cardinality(InCall(p)) - 1
    BY <1>5, InCallFinite, FS_RemoveElement
  <2> QED
    BY <1>1, <1>5, <2>1, <2>2
<1>6. CASE Reserve(r)
  <2>1. ~Calling(r) /\ Current(r) \in Provider
    BY <1>0, <1>6, CurrentTyped DEF Reserve, Calling, IInv, AttemptReady, ReadyAt
  <2>2. CASE /\ pc' = [pc EXCEPT ![r] = "calling"]
             /\ inFlight' = [inFlight EXCEPT ![Current(r)] = @ + 1]
             /\ queue' = queue
    <3>1. Calling(r)' /\ Current(r)' = Current(r)
      BY <1>0, <2>2 DEF Calling, Current, TypeOK
    <3>2. CASE p = Current(r)
      BY <1>0, <1>4, <2>1, <2>2, <3>1, <3>2 DEF InCall
    <3>3. CASE p # Current(r)
      BY <1>0, <1>3, <2>1, <2>2, <3>1, <3>3 DEF InCall
    <3> QED
      BY <3>2, <3>3
  <2>3. CASE pc' = [pc EXCEPT ![r] = "next"] /\ inFlight' = inFlight
    <3>1. ~Calling(r)'
      BY <1>0, <2>3 DEF Calling, TypeOK
    <3> QED
      BY <1>3, <2>1, <2>3, <3>1 DEF InCall
  <2> QED
    BY <1>6, <2>2, <2>3 DEF Reserve, Goto
<1>7. CASE ~Reserve(r)
  <2>1. CASE Calling(r)'
    <3>1. Calling(r) /\ Current(r)' = Current(r) /\ inFlight' = inFlight
      BY <1>0, <1>7, <2>1, CallKept, LandsOnce DEF Current
    <3> QED
      BY <1>3, <2>1, <3>1 DEF InCall
  <2>2. CASE ~Calling(r) /\ ~Calling(r)'
    BY <1>0, <1>3, <1>7, <2>2, LandsOnce DEF InCall
  <2>3. CASE Calling(r) /\ ~Calling(r)'
    <3>1. inFlight' = [inFlight EXCEPT ![Current(r)] = @ - 1]
      BY <1>0, <1>7, <2>3, LandsOnce DEF Land
    <3>2. CASE p = Current(r)
      BY <1>0, <1>5, <2>3, <3>1, <3>2 DEF InCall
    <3>3. CASE p # Current(r)
      BY <1>0, <1>3, <2>3, <3>1, <3>3 DEF InCall
    <3> QED
      BY <3>2, <3>3
  <2> QED
    BY <2>1, <2>2, <2>3
<1> QED
  BY <1>6, <1>7

-----------------------------------------------------------------------------
(* The invariant.                                                          *)

\* No request has begun, and no provider has been called.
LEMMA InitialInv ==
    ASSUME Init PROVE IInv
<1> USE DispatchAssumption DEF Init
<1>1. TypeOK
  <2>1. <<>> \in Seq(Provider) /\ <<>> \in Seq(Model)
    BY EmptySeq
  <2>2. 0 \in 0..MaxRetries /\ 0 \in 0..MaxClientErrors
    BY DEF MaxClientErrors
  <2> QED
    BY <2>1, <2>2 DEF TypeOK
<1>2. AttemptReady /\ CandidatesDistinct /\ FailedForGood
  BY DEF AttemptReady, ReadyAt, Calling, CandidatesDistinct, Distinct, FailedForGood, FailedAt
<1>3. WorkUnderLock
  BY DEF WorkUnderLock, Calling
<1>4. InFlightExact
  <2>1. \A p \in Provider : {r \in Request : Calling(r) /\ Current(r) = p} = {}
    BY DEF Calling
  <2> QED
    BY <2>1, FS_EmptySet DEF InFlightExact
<1>5. BoundToVoice /\ CalledRecorded /\ AllOrNothing
  BY DEF BoundToVoice, VoiceAt, CalledRecorded, RecordedAt, AllOrNothing
<1>6. RefusalsCounted
  <2>1. ASSUME NEW r \in Request PROVE refusals[r] <= Cardinality(Refusers(r) \ Ahead(r))
    <3>1. Cardinality(Refusers(r) \ Ahead(r)) \in Nat
      BY <1>1, RefusersFinite
    <3>2. refusals[r] = 0
      OBVIOUS
    <3> HIDE DEF Init
    <3> QED
      BY <3>1, <3>2
  <2> QED
    BY <2>1 DEF RefusalsCounted, CountedAt
<1> QED
  BY <1>1, <1>2, <1>3, <1>4, <1>5, <1>6 DEF IInv

\* Every step keeps the invariant: one conjunct after the other.
LEMMA InductiveStep ==
    ASSUME IInv, [Next]_vars PROVE IInv'
<1>1. TypeOK'
  BY TypeStep
<1>2. \A q \in Request : Promises(q)
  BY AllPromised DEF IInv
<1>3. ASSUME NEW r \in Request, Act(r) PROVE IInv'
  <2>1. Promises(r)'
    <3>1. ReadyAt(r)' /\ FailedAt(r)' /\ Distinct(queue[r])' /\ VoiceAt(r)'
      BY <1>3, ReadyStep, DistinctStep, VoiceStep
    <3>2. RecordedAt(r)' /\ AccountedAt(r)' /\ CountedAt(r)'
      BY <1>1, <1>3, RecordedStep, CountedStep
    <3> QED
      BY <3>1, <3>2 DEF Promises
  <2>2. ASSUME NEW q \in Request, q # r PROVE Promises(q)'
    BY <1>2, <1>3, <2>2, OthersStand, SameKeeps DEF IInv
  <2>3. \A q \in Request : Promises(q)'
    BY <2>1, <2>2
  <2>4. WorkUnderLock' /\ InFlightExact'
    BY <1>3, LockStep, FlightStep
  <2> QED
    BY <1>1, <2>3, <2>4
    DEF IInv, Promises, AttemptReady, CandidatesDistinct, BoundToVoice, CalledRecorded,
        RefusalsCounted, FailedForGood, AllOrNothing, AccountedAt
<1>4. ASSUME Expire \/ UNCHANGED vars PROVE IInv'
  <2>1. \A q \in Request : Same(q)
    BY <1>4, IdleStand
  <2>2. \A q \in Request : Promises(q)'
    BY <1>2, <2>1, SameKeeps
  <2>3. /\ UNCHANGED <<pc, queue, holder, reply, usage, inFlight>>
        /\ \A p \in Provider : (p \in park') # (p \in saved') => (p \in park) # (p \in saved)
    BY <1>4 DEF Expire, vars, control, database, client, history
  <2>4. WorkUnderLock' /\ InFlightExact'
    BY <2>3 DEF IInv, WorkUnderLock, InFlightExact, Calling, Current
  <2> QED
    BY <1>1, <2>2, <2>4
    DEF IInv, Promises, AttemptReady, CandidatesDistinct, BoundToVoice, CalledRecorded,
        RefusalsCounted, FailedForGood, AllOrNothing, AccountedAt
<1>5. (\E r \in Request : Act(r)) \/ Expire \/ UNCHANGED vars
  BY DEF Next, Act
<1> QED
  BY <1>3, <1>4, <1>5

\* The invariant holds throughout.
LEMMA Inductive == Spec => []IInv
<1>1. Init => IInv
  BY InitialInv
<1>2. IInv /\ [Next]_vars => IInv'
  BY InductiveStep
<1> QED
  BY <1>1, <1>2, PTL DEF Spec

-----------------------------------------------------------------------------
(* What holds of every run of the orchestrator.                            *)

\* Every variable keeps its type; in particular no in-flight counter ever goes
\* below zero, and no request counts more than two client errors.
THEOREM TypeCorrect == Spec => []TypeOK
<1>1. IInv => TypeOK
  BY DEF IInv
<1> QED
  BY <1>1, Inductive, PTL

\* The in-flight counters of the load balancer are exact on every path out of a
\* call: answer, error, cancellation, a stream left by its reader.
THEOREM InFlightIsExact == Spec => []InFlightExact
<1>1. IInv => InFlightExact
  BY DEF IInv
<1> QED
  BY <1>1, Inductive, PTL

\* Providers are called, and their health and usage written, under their row
\* lock, whatever the order of the candidates and however the requests interleave.
THEOREM WorkStaysUnderLock == Spec => []WorkUnderLock
<1>1. IInv => WorkUnderLock
  BY DEF IInv
<1> QED
  BY <1>1, Inductive, PTL

\* A request leaves the event of every provider it called or none at all, though
\* any statement of its transaction, and its commit, may fail.
THEOREM AllOrNothingLeft == Spec => []AllOrNothing
<1>1. IInv => AllOrNothing
  BY DEF IInv
<1> QED
  BY <1>1, Inductive, PTL

\* All the text that a client sees of a stream comes from one provider and model.
THEOREM OneVoiceHeard == Spec => []OneVoice
<1>1. IInv => OneVoice
  <2> SUFFICES ASSUME IInv, NEW r \in Request PROVE Cardinality(sent[r]) <= 1
    BY DEF OneVoice
  <2>1. CASE sent[r] = {}
    BY <2>1, FS_EmptySet
  <2>2. CASE \E pm \in Provider \X Model : Committed(r, pm)
    <3>1. PICK pm : sent[r] = {pm}
      BY <2>2 DEF Committed
    <3> QED
      <4>1. Cardinality({pm}) = 1
        BY FS_Singleton
      <4> QED
        BY <3>1, <4>1
  <2> QED
    BY <2>1, <2>2 DEF IInv, BoundToVoice, VoiceAt
<1> QED
  BY <1>1, Inductive, PTL

\* A request that fails with candidates left and nothing sent was called a bad
\* request by two different providers.
THEOREM TwoProvidersAgree == Spec => []TwoAgree
<1>1. IInv => TwoAgree
  <2> SUFFICES ASSUME IInv, NEW r \in Request, pc[r] = "failed", queue[r] # <<>>,
                      r \notin broken, sent[r] = {}
               PROVE  Cardinality(Refusers(r)) >= 2
    BY DEF TwoAgree, Refusers
  <2>0. TypeOK
    BY DEF IInv
  <2>1. refusals[r] >= MaxClientErrors
    BY DEF IInv, FailedForGood, FailedAt
  <2>2. refusals[r] <= Cardinality(Refusers(r) \ Ahead(r))
    BY DEF IInv, RefusalsCounted, CountedAt
  <2>3. /\ IsFiniteSet(Refusers(r))
        /\ Cardinality(Refusers(r)) \in Nat /\ Cardinality(Refusers(r) \ Ahead(r)) \in Nat
    BY <2>0, RefusersFinite, DispatchAssumption, FS_Subset, FS_CardinalityType
  <2>4. Cardinality(Refusers(r) \ Ahead(r)) <= Cardinality(Refusers(r))
    <3>1. Refusers(r) \ Ahead(r) \subseteq Refusers(r)
      OBVIOUS
    <3> QED
      BY <2>3, <3>1, FS_Subset
  <2>5. refusals[r] \in 0..2
    BY <2>0 DEF TypeOK, MaxClientErrors
  <2> QED
    BY <2>1, <2>2, <2>3, <2>4, <2>5 DEF MaxClientErrors
<1> QED
  BY <1>1, Inductive, PTL
====
