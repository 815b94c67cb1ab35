---- MODULE SupportProofs ----
(***************************************************************************)
(* Proofs about the small components that run MCSupport puts side by side: *)
(* the strategy cache, the streams of the adapters, the daily rollup, the  *)
(* chains of stored responses, the events of a response's stream, the      *)
(* refusals of a provider and the routing of a request, each for itself.   *)
(* What conversations say is in ConversationProofs.                        *)
(***************************************************************************)
EXTENDS StrategyCache, Rollup, AdapterStream, Responses, ResponseEvents, Refusals, Routing,
        InductionLemmas, SequenceTheorems, FiniteSetTheorems, TLAPS

(* ------------------------- the strategy cache -------------------------- *)

Cached == Value \cup {NoEntry}

\* The value was in force at some moment from t0 on.
HeldSince(value, t0) == \E t \in 0..now : t >= t0 /\ value \in held[t]

CacheTyped ==
    /\ now \in 0..MaxNow
    /\ strategy \in Value
    /\ held \in [0..MaxNow -> SUBSET Value]
    /\ cache \in [Process -> [value : Cached, at : 0..MaxNow] \cup {NoEntry}]
    /\ lookup \in [Lookup -> [pc : {"unasked", "asking", "read", "answered"},
                              on : Process \cup {NoEntry}, since : 0..MaxNow, value : Cached]]
    /\ admin \in [pc : {"closed", "open"}, value : Cached]
    /\ admin.pc = "open" => admin.value \in Value

\* An entry is stamped with a time before its value was read, and so is what a
\* look-up has read: the invalidations do not matter.
CacheInv ==
    /\ CacheTyped
    /\ strategy \in held[now]
    /\ \A p \in Process : cache[p] # NoEntry => HeldSince(cache[p].value, cache[p].at)
    /\ \A l \in Lookup :
         /\ lookup[l].pc \in {"asking", "read"} => lookup[l].on \in Process
         /\ lookup[l].pc # "unasked" => lookup[l].since <= now
         /\ lookup[l].pc = "read" => HeldSince(lookup[l].value, lookup[l].since)
         /\ lookup[l].pc = "answered" => HeldSince(lookup[l].value, lookup[l].since - TTL + 1)

\* At first nobody has asked for anything.
LEMMA CacheInitial == CacheInit => CacheInv
<1> SUFFICES ASSUME CacheInit PROVE CacheInv
  OBVIOUS
<1>1. 0 \in 0..MaxNow
  BY TTLAssumption
<1>2. CacheTyped
  BY <1>1 DEF CacheInit, CacheTyped, Cached, Value, Unasked, NoWrite
<1> QED
  BY <1>1, <1>2 DEF CacheInit, CacheInv, Unasked

\* The clock and the history only grow.
HistoryGrows ==
    /\ now' \in 0..MaxNow /\ now <= now'
    /\ held' \in [0..MaxNow -> SUBSET Value]
    /\ \A t \in 0..now : held[t] \subseteq held'[t]

\* What was in force at some moment was so for ever.
LEMMA HeldStays ==
    ASSUME CacheTyped, HistoryGrows, NEW v, NEW t0, HeldSince(v, t0)
    PROVE  \E t \in 0..now' : t >= t0 /\ v \in held'[t]
<1>1. PICK t \in 0..now : t >= t0 /\ v \in held[t]
  BY DEF HeldSince
<1>2. t \in 0..now' /\ v \in held'[t]
  BY <1>1 DEF HistoryGrows, CacheTyped
<1> QED
  BY <1>1, <1>2

\* A step that changes neither entries nor look-ups.
LEMMA TimePasses ==
    ASSUME CacheInv, HistoryGrows, CacheTyped', (strategy \in held[now])',
           lookup' = lookup, \A p \in Process : cache'[p] \in {cache[p], NoEntry}
    PROVE  CacheInv'
<1>1. CacheTyped
  BY DEF CacheInv
<1>2. ASSUME NEW p \in Process, cache'[p] # NoEntry
      PROVE  HeldSince(cache[p].value, cache[p].at)'
  <2>1. cache'[p] = cache[p] /\ HeldSince(cache[p].value, cache[p].at)
    BY <1>2 DEF CacheInv
  <2>2. PICK v, t0 : v = cache[p].value /\ t0 = cache[p].at
    OBVIOUS
  <2>3. \E t \in 0..now' : t >= t0 /\ v \in held'[t]
    BY <1>1, <2>1, <2>2, HeldStays
  <2> QED
    BY <2>1, <2>2, <2>3 DEF HeldSince
<1>3. ASSUME NEW l \in Lookup
      PROVE  /\ lookup'[l].pc \in {"asking", "read"} => lookup'[l].on \in Process
             /\ lookup'[l].pc # "unasked" => lookup'[l].since <= now'
             /\ lookup'[l].pc = "read" => HeldSince(lookup[l].value, lookup[l].since)'
             /\ lookup'[l].pc = "answered" => HeldSince(lookup[l].value, lookup[l].since - TTL + 1)'
  <2>0. PICK v, t0, t1 : v = lookup[l].value /\ t0 = lookup[l].since /\ t1 = lookup[l].since - TTL + 1
    OBVIOUS
  <2>1. lookup[l].since \in 0..MaxNow /\ now \in 0..MaxNow /\ now' \in 0..MaxNow /\ now <= now'
    BY <1>1 DEF CacheTyped, HistoryGrows
  <2>2. CASE lookup[l].pc = "read"
    <3>1. HeldSince(v, t0)
      BY <2>0, <2>2 DEF CacheInv
    <3>2. \E t \in 0..now' : t >= t0 /\ v \in held'[t]
      BY <1>1, <3>1, HeldStays
    <3> QED
      BY <2>0, <2>1, <2>2, <3>2 DEF CacheInv, HeldSince
  <2>3. CASE lookup[l].pc = "answered"
    <3>1. HeldSince(v, t1)
      BY <2>0, <2>3 DEF CacheInv
    <3>2. \E t \in 0..now' : t >= t1 /\ v \in held'[t]
      BY <1>1, <3>1, HeldStays
    <3> QED
      BY <2>0, <2>1, <2>3, <3>2 DEF CacheInv, HeldSince
  <2> QED
    BY <2>1, <2>2, <2>3 DEF CacheInv
<1> QED
  BY <1>2, <1>3 DEF CacheInv

\* A step of one look-up, while clock and history stand still.
LEMMA LookupMoves ==
    ASSUME CacheInv, NEW l \in Lookup, NEW x,
           UNCHANGED <<now, strategy, held, admin>>,
           lookup' = [lookup EXCEPT ![l] = x],
           x \in [pc : {"unasked", "asking", "read", "answered"},
                  on : Process \cup {NoEntry}, since : 0..MaxNow, value : Cached],
           x.pc \in {"asking", "read"} => x.on \in Process,
           x.pc # "unasked" => x.since <= now,
           x.pc = "read" => HeldSince(x.value, x.since),
           x.pc = "answered" => HeldSince(x.value, x.since - TTL + 1),
           cache' \in [Process -> [value : Cached, at : 0..MaxNow] \cup {NoEntry}],
           \A p \in Process : cache'[p] # NoEntry => HeldSince(cache'[p].value, cache'[p].at)
    PROVE  CacheInv'
<1>1. lookup \in [Lookup -> [pc : {"unasked", "asking", "read", "answered"},
                             on : Process \cup {NoEntry}, since : 0..MaxNow, value : Cached]]
  BY DEF CacheInv, CacheTyped
<1>2. CacheTyped'
  BY <1>1 DEF CacheInv, CacheTyped
<1>3. \A m \in Lookup : lookup'[m] = IF m = l THEN x ELSE lookup[m]
  BY <1>1
<1>4. \A v, t0 : HeldSince(v, t0) => \E t \in 0..now' : t >= t0 /\ v \in held'[t]
  BY DEF HeldSince
<1>5. ASSUME NEW m \in Lookup
      PROVE  /\ lookup'[m].pc \in {"asking", "read"} => lookup'[m].on \in Process
             /\ lookup'[m].pc # "unasked" => lookup'[m].since <= now'
             /\ lookup'[m].pc = "read" => HeldSince(lookup[m].value, lookup[m].since)'
             /\ lookup'[m].pc = "answered" => HeldSince(lookup[m].value, lookup[m].since - TTL + 1)'
  BY <1>3, <1>4 DEF CacheInv, HeldSince
<1>6. ASSUME NEW p \in Process, cache'[p] # NoEntry
      PROVE  HeldSince(cache[p].value, cache[p].at)'
  BY <1>4, <1>6 DEF HeldSince
<1> QED
  BY <1>2, <1>5, <1>6 DEF CacheInv

\* Every step keeps the invariant.
LEMMA CacheStep == CacheInv /\ [CacheNext]_cacheVars => CacheInv'
<1> SUFFICES ASSUME CacheInv, [CacheNext]_cacheVars PROVE CacheInv'
  OBVIOUS
<1> DEFINE Where == {"unasked", "asking", "read", "answered"}
           Look == [pc : Where, on : Process \cup {NoEntry}, since : 0..MaxNow, value : Cached]
           Entry == [value : Cached, at : 0..MaxNow] \cup {NoEntry}
<1>a. /\ now \in 0..MaxNow /\ strategy \in Value /\ held \in [0..MaxNow -> SUBSET Value]
      /\ cache \in [Process -> Entry] /\ lookup \in [Lookup -> Look]
      /\ admin \in [pc : {"closed", "open"}, value : Cached]
      /\ admin.pc = "open" => admin.value \in Value
      /\ strategy \in held[now]
  BY DEF CacheInv, CacheTyped
<1>b. \A p \in Process : cache[p] # NoEntry => HeldSince(cache[p].value, cache[p].at)
  BY DEF CacheInv
<1>c. \A l \in Lookup :
         /\ lookup[l].pc \in {"asking", "read"} => lookup[l].on \in Process
         /\ lookup[l].pc # "unasked" => lookup[l].since <= now
         /\ lookup[l].pc = "read" => HeldSince(lookup[l].value, lookup[l].since)
         /\ lookup[l].pc = "answered" => HeldSince(lookup[l].value, lookup[l].since - TTL + 1)
  BY DEF CacheInv
<1>d. MaxNow \in Nat /\ TTL \in Nat \ {0}
  BY TTLAssumption
<1>e. Value \subseteq Cached /\ NoEntry \in Cached
  BY DEF Cached
<1>1. CASE Tick
  <2>1. now < MaxNow /\ now' = now + 1 /\ held' = [held EXCEPT ![now + 1] = {strategy}]
        /\ UNCHANGED <<strategy, cache, lookup, admin>>
    BY <1>1 DEF Tick
  <2>2. now + 1 \in 0..MaxNow /\ now <= now + 1 /\ now + 1 \notin 0..now
    BY <2>1, <1>a, <1>d
  <2>3. HistoryGrows /\ held'[now'] = {strategy}
    BY <2>1, <2>2, <1>a DEF HistoryGrows
  <2>4. CacheTyped'
    BY <2>1, <2>3, <1>a DEF CacheTyped, HistoryGrows
  <2> QED
    BY <2>1, <2>3, <2>4, TimePasses
<1>2. CASE CommitStrategy
  <2>1. /\ admin.value \in Value /\ strategy' = admin.value
        /\ held' = [held EXCEPT ![now] = held[now] \cup {admin.value}]
        /\ admin' = NoWrite /\ UNCHANGED <<now, cache, lookup>>
    BY <1>2, <1>a DEF CommitStrategy
  <2>2. HistoryGrows /\ strategy' \in held'[now']
    BY <2>1, <1>a DEF HistoryGrows
  <2>3. CacheTyped'
    BY <2>1, <2>2, <1>a, <1>e DEF CacheTyped, HistoryGrows, NoWrite
  <2> QED
    BY <2>1, <2>2, <2>3, TimePasses
<1>3. CASE RollBackStrategy \/ UNCHANGED cacheVars
  <2>1. admin' \in {NoWrite, admin} /\ UNCHANGED <<now, strategy, held, cache, lookup>>
    BY <1>3 DEF RollBackStrategy, cacheVars
  <2>2. HistoryGrows
    BY <2>1, <1>a DEF HistoryGrows
  <2>3. CacheTyped'
    BY <2>1, <1>a, <1>e DEF CacheTyped, NoWrite
  <2> QED
    BY <2>1, <2>2, <2>3, <1>a, TimePasses
<1>4. ASSUME NEW p \in AdminProcess, NEW v \in Value, WriteAndInvalidate(p, v)
      PROVE  CacheInv'
  <2>1. /\ admin' = [pc |-> "open", value |-> v]
        /\ cache' = [q \in Process |-> IF q = p THEN NoEntry ELSE cache[q]]
        /\ UNCHANGED <<now, strategy, held, lookup>>
    BY <1>4 DEF WriteAndInvalidate
  <2>2. HistoryGrows
    BY <2>1, <1>a DEF HistoryGrows
  <2>3. CacheTyped'
    BY <2>1, <1>a, <1>e DEF CacheTyped
  <2> QED
    BY <2>1, <2>2, <2>3, <1>a, TimePasses
<1>5. CASE \E p \in AdminProcess :
             \/ \E d \in Definition : CreateStrategy(p, d) \/ UpdateStrategy(p, d)
             \/ DeleteStrategy(p)
  BY <1>4, <1>5 DEF CreateStrategy, UpdateStrategy, DeleteStrategy, Value
<1>6. ASSUME NEW l \in Lookup, NEW p \in Process, Hit(l, p)
      PROVE  CacheInv'
  <2>1. /\ cache[p] # NoEntry /\ now - cache[p].at < TTL
        /\ lookup' = [lookup EXCEPT ![l] = [pc |-> "answered", on |-> p, since |-> now,
                                            value |-> cache[p].value]]
        /\ UNCHANGED <<now, strategy, held, cache, admin>>
    BY <1>6 DEF Hit, Fresh
  <2>2. cache[p] \in [value : Cached, at : 0..MaxNow] /\ HeldSince(cache[p].value, cache[p].at)
    BY <2>1, <1>a, <1>b
  <2>3. PICK v \in Cached, t0 \in 0..MaxNow : v = cache[p].value /\ t0 = cache[p].at
    BY <2>2
  <2>4. PICK t \in 0..now : t >= t0 /\ v \in held[t]
    BY <2>2, <2>3 DEF HeldSince
  <2>5. HeldSince(v, now - TTL + 1)
    BY <2>1, <2>3, <2>4, <1>a, <1>d DEF HeldSince
  <2>6. PICK x : x = [pc |-> "answered", on |-> p, since |-> now, value |-> v]
    OBVIOUS
  <2>7. x \in Look /\ x.pc = "answered" /\ x.since = now /\ x.value = v
    BY <2>3, <2>6, <1>a
  <2>8. HeldSince(x.value, x.since - TTL + 1)
    BY <2>5, <2>7
  <2>9. lookup' = [lookup EXCEPT ![l] = x]
    BY <2>1, <2>3, <2>6
  <2>10. now <= now
    BY <1>a
  <2> QED
    BY <2>1, <2>7, <2>8, <2>9, <2>10, <1>a, <1>b, LookupMoves
<1>7. ASSUME NEW l \in Lookup, NEW p \in Process, Miss(l, p)
      PROVE  CacheInv'
  <2>1. PICK x : x = [pc |-> "asking", on |-> p, since |-> now, value |-> NoEntry]
    OBVIOUS
  <2>2. x \in Look /\ x.pc = "asking" /\ x.on = p /\ x.since = now
    BY <2>1, <1>a, <1>e
  <2>3. lookup' = [lookup EXCEPT ![l] = x] /\ UNCHANGED <<now, strategy, held, cache, admin>>
    BY <1>7, <2>1 DEF Miss
  <2>4. now <= now
    BY <1>a
  <2> QED
    BY <2>2, <2>3, <2>4, <1>a, <1>b, LookupMoves
<1>8. ASSUME NEW l \in Lookup, ReadRow(l)
      PROVE  CacheInv'
  <2>1. lookup[l] \in Look /\ lookup[l].pc = "asking" /\ lookup[l].on \in Process
        /\ lookup[l].since \in 0..now
    BY <1>8, <1>a, <1>c DEF ReadRow
  <2>2. PICK x : x = [pc |-> "read", on |-> lookup[l].on, since |-> lookup[l].since,
                      value |-> strategy]
    OBVIOUS
  <2>3. x \in Look /\ x.pc = "read" /\ x.on \in Process /\ x.since \in 0..now /\ x.value = strategy
    BY <2>1, <2>2, <1>a, <1>e
  <2>4. now \in 0..now
    BY <1>a
  <2>5. HeldSince(x.value, x.since)
    BY <2>3, <2>4, <1>a DEF HeldSince
  <2>6. lookup' = [lookup EXCEPT ![l] = x] /\ UNCHANGED <<now, strategy, held, cache, admin>>
    <3>1. /\ lookup' = [lookup EXCEPT ![l].pc = "read", ![l].value = strategy]
          /\ UNCHANGED <<now, strategy, held, cache, admin>>
      BY <1>8 DEF ReadRow
    <3>2. lookup' = [lookup EXCEPT ![l] = [lookup[l] EXCEPT !.pc = "read", !.value = strategy]]
      BY <3>1, <1>a, Zenon
    <3>3. PICK y : y = [lookup[l] EXCEPT !.pc = "read"]
      OBVIOUS
    <3>4. y = [pc |-> "read", on |-> lookup[l].on, since |-> lookup[l].since,
               value |-> lookup[l].value]
      BY <2>1, <3>3
    <3>5. x = [y EXCEPT !.value = strategy]
      BY <2>2, <3>4
    <3>6. x = [lookup[l] EXCEPT !.pc = "read", !.value = strategy]
      BY <3>3, <3>5, Zenon
    <3> QED
      BY <3>1, <3>2, <3>6
  <2>7. x.since <= now
    BY <2>3
  <2> QED
    BY <2>3, <2>5, <2>6, <2>7, <1>a, <1>b, LookupMoves
<1>9. ASSUME NEW l \in Lookup, Keep(l)
      PROVE  CacheInv'
  <2>1. /\ lookup[l] \in Look /\ lookup[l].pc = "read" /\ lookup[l].on \in Process
        /\ lookup[l].since <= now /\ HeldSince(lookup[l].value, lookup[l].since)
    BY <1>9, <1>a, <1>c DEF Keep
  <2>2. PICK x : x = [pc |-> "answered", on |-> lookup[l].on, since |-> lookup[l].since,
                      value |-> lookup[l].value]
    OBVIOUS
  <2>3. /\ x \in Look /\ x.pc = "answered" /\ x.since = lookup[l].since
        /\ x.value = lookup[l].value /\ x.since \in 0..MaxNow
    BY <2>1, <2>2
  <2>4. HeldSince(x.value, x.since - TTL + 1)
    <3>1. PICK t \in 0..now : t >= x.since /\ x.value \in held[t]
      BY <2>1, <2>3 DEF HeldSince
    <3>2. t >= x.since - TTL + 1
      BY <3>1, <2>3, <1>a, <1>d
    <3> QED
      BY <3>1, <3>2 DEF HeldSince
  <2>5. PICK e : e = [value |-> lookup[l].value, at |-> lookup[l].since]
    OBVIOUS
  <2>6. e \in [value : Cached, at : 0..MaxNow] /\ e.value = x.value /\ e.at = x.since
    BY <2>1, <2>3, <2>5
  <2>7. HeldSince(e.value, e.at)
    BY <2>1, <2>3, <2>6
  <2>8. /\ cache' = [cache EXCEPT ![lookup[l].on] = e]
        /\ lookup' = [lookup EXCEPT ![l] = x] /\ UNCHANGED <<now, strategy, held, admin>>
    <3>1. /\ cache' = [cache EXCEPT ![lookup[l].on] = e]
          /\ lookup' = [lookup EXCEPT ![l].pc = "answered"]
          /\ UNCHANGED <<now, strategy, held, admin>>
      BY <1>9, <2>5 DEF Keep, Stamp
    <3>2. x = [lookup[l] EXCEPT !.pc = "answered"]
      BY <2>1, <2>2
    <3> QED
      BY <3>1, <3>2
  <2>9. /\ cache' \in [Process -> Entry]
        /\ \A p \in Process : cache'[p] = e \/ cache'[p] = cache[p]
    BY <2>8, <2>6, <1>a
  <2>10. \A p \in Process : cache'[p] # NoEntry => HeldSince(cache'[p].value, cache'[p].at)
    BY <2>7, <2>9, <1>b
  <2>11. x.since <= now
    BY <2>1, <2>3
  <2> QED
    BY <2>3, <2>4, <2>8, <2>9, <2>10, <2>11, LookupMoves
<1>10. ASSUME NEW l \in Lookup, Use(l)
      PROVE  CacheInv'
  <2>1. PICK x : x = Unasked
    OBVIOUS
  <2>2. x \in Look /\ x.pc = "unasked"
    BY <2>1, <1>d, <1>e DEF Unasked
  <2>3. lookup' = [lookup EXCEPT ![l] = x] /\ UNCHANGED <<now, strategy, held, cache, admin>>
    BY <1>10, <2>1 DEF Use
  <2> QED
    BY <2>2, <2>3, <1>a, <1>b, LookupMoves
<1> QED
  BY <1>1, <1>2, <1>3, <1>5, <1>6, <1>7, <1>8, <1>9, <1>10 DEF CacheNext

\* However look-ups, invalidations and commits follow each other in whatever
\* processes, nobody is routed by a strategy older than one time to live.
THEOREM NothingStale == CacheSpec => []FreshWithinTTL
<1>1. CacheInv => FreshWithinTTL
  <2> SUFFICES ASSUME CacheInv, NEW l \in Lookup, lookup[l].pc = "answered"
               PROVE  \E t \in 0..now : t > lookup[l].since - TTL /\ lookup[l].value \in held[t]
    BY DEF FreshWithinTTL
  <2>1. lookup[l].since \in 0..MaxNow /\ TTL \in Nat /\ now \in 0..MaxNow /\ MaxNow \in Nat
    BY TTLAssumption DEF CacheInv, CacheTyped
  <2>2. PICK t \in 0..now : t >= lookup[l].since - TTL + 1 /\ lookup[l].value \in held[t]
    BY DEF CacheInv, HeldSince
  <2>3. t > lookup[l].since - TTL
    BY <2>1, <2>2
  <2> QED
    BY <2>2, <2>3
<1> QED
  BY <1>1, CacheInitial, CacheStep, PTL DEF CacheSpec

(* -------------------------- the adapters' streams ---------------------- *)

StreamInv ==
    /\ HalfToldIsKept
    /\ garbled \in Nat /\ glitches \in Nat /\ saw = spoken /\ saw \in BOOLEAN
    /\ reader = "asking" => ~spoken /\ garbled = 0 /\ denied = {}
    /\ reader = "reading" => garbled < MaxParseErrors /\ denied \cap Understood = {}
    /\ garbled <= glitches \/ glitches >= MaxParseErrors

\* The smaller of two numbers is one of them and above neither.
LEMMA SmallerOfTwo ==
    ASSUME NEW a \in Nat, NEW b \in Nat
    PROVE  Min({a, b}) \in {a, b} /\ Min({a, b}) <= a /\ Min({a, b}) <= b
<1>1. \E x \in {a, b} : \A y \in {a, b} : x <= y
  <2>1. CASE a <= b
    BY <2>1
  <2>2. CASE b <= a
    BY <2>2
  <2> QED
    BY <2>1, <2>2
<1> QED
  BY <1>1 DEF Min

\* A stream begins with nothing said and nothing garbled.
LEMMA StreamInitial == StreamInit => StreamInv
<1> SUFFICES ASSUME StreamInit PROVE StreamInv
  OBVIOUS
<1>1. /\ reader = "asking" /\ garbled = 0 /\ glitches = 0
      /\ ~saw /\ ~spoken /\ denied = {} /\ saw = spoken /\ saw \in BOOLEAN
  BY DEF StreamInit
<1>2. HalfToldIsKept
  BY <1>1 DEF HalfToldIsKept
<1> QED
  BY <1>1, <1>2 DEF StreamInv

\* Every line keeps the invariant.
LEMMA StreamKeeps == StreamInv /\ [StreamNext]_streamVars => StreamInv'
<1> SUFFICES ASSUME StreamInv, [StreamNext]_streamVars PROVE StreamInv'
  OBVIOUS
<1> USE StreamAssumption DEF StreamInv, HalfToldIsKept
<1>1. CASE Refused
  BY <1>1 DEF Refused, Deny, Understood
<1>2. CASE Accepted
  BY <1>2 DEF Accepted, Understood
<1>3. CASE NetworkFails
  <2>1. denied \cap Understood = {}
    BY <1>3 DEF NetworkFails
  <2> QED
    BY <1>3, <2>1 DEF NetworkFails, Understood
<1>4. CASE Garbled
  <2>1. /\ reader = "reading" /\ garbled' = garbled + 1
        /\ reader' = IF garbled' >= MaxParseErrors THEN "parsing" ELSE "reading"
        /\ UNCHANGED <<adapter, saw, spoken, denied>>
    BY <1>4 DEF Garbled
  <2>2. garbled \in Nat /\ glitches \in Nat /\ denied \cap Understood = {}
        /\ (garbled <= glitches \/ glitches >= MaxParseErrors)
    BY <2>1
  <2>3. PICK m : m = Min({glitches + 1, MaxParseErrors})
    OBVIOUS
  <2>4. m \in {glitches + 1, MaxParseErrors} /\ m <= glitches + 1 /\ m <= MaxParseErrors
    BY <2>2, <2>3, SmallerOfTwo
  <2>5. glitches' = m
    BY <1>4, <2>3 DEF Garbled
  <2>6. glitches' \in Nat /\ (garbled' <= glitches' \/ glitches' >= MaxParseErrors)
    BY <2>1, <2>2, <2>4, <2>5
  <2>7. Understood' = Understood
    BY <2>1 DEF Understood
  <2> QED
    BY <2>1, <2>2, <2>6, <2>7
<1>5. CASE Bare
  BY <1>5 DEF Bare, PassOver, Understood
<1>10. CASE BlockedPrompt
  BY <1>10 DEF BlockedPrompt, PassOver, Deny, Understood
<1>6. CASE ErrorFrame
  <2>1. CASE adapter = "openai" /\ ~saw
    BY <1>6, <2>1 DEF ErrorFrame, Deny, Understood
  <2>2. CASE ~(adapter = "openai" /\ ~saw)
    <3>1. denied' \cap Understood' = {}
      BY <1>6, <2>2 DEF ErrorFrame, PassOver, Deny, Understood
    <3> QED
      BY <1>6, <2>2, <3>1 DEF ErrorFrame, PassOver
  <2> QED
    BY <2>1, <2>2
<1>7. CASE Ends
  BY <1>7 DEF Ends, Understood
<1>8. ASSUME NEW says \in BOOLEAN, NEW filtered \in BOOLEAN, Chunk(says, filtered)
      PROVE  StreamInv'
  <2>1. /\ reader = "reading" /\ garbled' = 0 /\ glitches' = 0
        /\ denied \cap Understood = {} /\ saw = spoken /\ saw \in BOOLEAN
        /\ Understood' = Understood
    BY <1>8 DEF Chunk, Understood
  <2>2. CASE filtered /\ ~saw
    <3>1. reader' = "content_filtered" /\ UNCHANGED <<saw, spoken>>
      BY <1>8, <2>2 DEF Chunk
    <3> QED
      BY <2>1, <2>2, <3>1
  <2>3. CASE ~(filtered /\ ~saw)
    <3>1. saw' = (saw \/ says) /\ spoken' = (spoken \/ says) /\ reader' = reader
      BY <1>8, <2>3 DEF Chunk, Saw
    <3>2. denied' = denied
      BY <1>8, <2>1, <2>3 DEF Chunk, Deny
    <3> QED
      BY <2>1, <3>1, <3>2
  <2> QED
    BY <2>2, <2>3
<1>9. CASE UNCHANGED streamVars
  BY <1>9 DEF streamVars, Understood
<1> QED
  BY <1>1, <1>2, <1>3, <1>4, <1>5, <1>6, <1>7, <1>8, <1>9, <1>10 DEF StreamNext

\* In whatever order good, bare, garbled and failing lines arrive, a half told
\* answer is never refused; a no before any text ends the stream as a refusal if
\* the adapter recognises it, and is not served as an answer otherwise; and
\* only lines garbled one after another break a stream.
THEOREM HalfTold == StreamSpec => []HalfToldIsKept
<1>1. StreamInv => HalfToldIsKept
  BY DEF StreamInv
<1> QED
  BY <1>1, StreamInitial, StreamKeeps, PTL DEF StreamSpec

(* ---------------------------- the daily rollup ------------------------- *)

\* Rows of a day: committed, deleted or inserted by a pass; and what rows count.
On(d) == {r \in rollup : r.day = d}
Del(p, d) == {r \in pass[p].deleted : r.day = d}
Ins(p, d) == {r \in pass[p].inserted : r.day = d}
Counts(R) == UNION {r.of : r \in R}

Landed(e) == usage[e].in \in {"table", "purged"}

\* What a pass has read of a day, or written.
Seen(p, d) ==
    IF pass[p].pc = "inserting" /\ pass[p].day = d THEN pass[p].snapshot ELSE Counts(Ins(p, d))

\* The pass is through with the day.
Finished(p, d) == d < pass[p].day \/ pass[p].pc = "purge"

Comparable(S, T) == S \subseteq T \/ T \subseteq S

\* A row counts events of its group and its day, at least one.
RowOK(r) ==
    /\ r.of # {} /\ r.of \subseteq UsageEvent
    /\ \A e \in r.of : account[e] = r.account /\ usage[e].at = r.day /\ Landed(e)

\* Rows of one day are of one pass and have different keys.
OnePass(R) ==
    \A r, s \in R : r.day = s.day => r.by = s.by /\ (r # s => ~SameKey(r, s))

Row == [day : Int, account : {account[e] : e \in UsageEvent}, of : SUBSET UsageEvent, by : Pod]
Pass ==
    [pc : {"asleep", "delete", "deleting", "insert", "inserting", "purge"}, base : Int, day : Int,
     snapshot : SUBSET (Row \cup UsageEvent), deleted : SUBSET Row, inserted : SUBSET Row]

RollupTyped ==
    /\ today \in Nat
    /\ usage \in [UsageEvent -> [at : Int, in : {"none", "open", "table", "purged"}]]
    /\ rollup \subseteq Row
    /\ pass \in [Pod -> Pass]
    /\ counted \subseteq UsageEvent

\* A pass works on yesterday and today as they were when it woke, one after the
\* other, and the world is at most a day further.
InTime(p) ==
    /\ pass[p].pc = "asleep" => pass[p].deleted = {} /\ pass[p].inserted = {}
    /\ pass[p].pc # "asleep" =>
         /\ pass[p].base \in {today - 1, today}
         /\ pass[p].day \in {pass[p].base - 1, pass[p].base}
    /\ pass[p].pc = "purge" => pass[p].day = pass[p].base
    /\ \A r \in pass[p].deleted \cup pass[p].inserted :
         r.day \in {pass[p].base - 1, pass[p].base} /\ r.day <= pass[p].day
    /\ pass[p].pc \in {"delete", "deleting", "insert", "inserting"} => Ins(p, pass[p].day) = {}
    /\ pass[p].pc \in {"delete", "deleting"} => Del(p, pass[p].day) = {}
    /\ pass[p].pc = "deleting" => \A r \in pass[p].snapshot : r.day = pass[p].day
    /\ pass[p].pc = "inserting" =>
         \A e \in pass[p].snapshot : e \in UsageEvent /\ usage[e].at = pass[p].day /\ Landed(e)

\* The rows are what they should be; those a pass deleted are still there and its
\* alone until it ends.
RowsRight ==
    /\ \A r \in rollup : RowOK(r)
    /\ OnePass(rollup)
    /\ \A p \in Pod :
         /\ \A r \in pass[p].inserted : RowOK(r) /\ r.by = p
         /\ OnePass(pass[p].inserted)
         /\ pass[p].deleted \subseteq rollup
         /\ \A q \in Pod \ {p} : pass[p].deleted \cap pass[q].deleted = {}

\* What passes read of a day grows with time.
ReadsGrow ==
    \A d \in Int : \A p \in Pod :
        /\ Comparable(Seen(p, d), Counts(On(d)))
        /\ \A q \in Pod : Comparable(Seen(p, d), Seen(q, d))

\* Who has inserted rows of a day is alone with it, and has counted all that was
\* counted before; likewise who has deleted some, once it has read the events.
Replaces ==
    \A d \in Int : \A p \in Pod :
        /\ pass[p].pc = "inserting" /\ pass[p].day = d /\ Del(p, d) # {} =>
             Counts(On(d)) \subseteq pass[p].snapshot
        /\ Finished(p, d) /\ (Del(p, d) # {} \/ Ins(p, d) # {}) =>
             On(d) \subseteq pass[p].deleted /\ Counts(On(d)) \subseteq Counts(Ins(p, d))
        /\ \A q \in Pod \ {p} : Ins(p, d) = {} \/ Ins(q, d) = {}

RollupInv ==
    /\ RollupTyped
    /\ \A e \in UsageEvent : usage[e].in = "purged" => usage[e].at < today - KeepEvents
    /\ \A p \in Pod : InTime(p)
    /\ RowsRight /\ ReadsGrow /\ Replaces
    /\ CountedStays /\ \A e \in counted : Landed(e)

\* At first there is no event, no row and no open pass.
LEMMA RollupInitial == RollupInit => RollupInv
<1> SUFFICES ASSUME RollupInit PROVE RollupInv
  OBVIOUS
<1>1. /\ today = 0 /\ rollup = {} /\ counted = {}
      /\ \A e \in UsageEvent : usage[e] = [at |-> 0, in |-> "none"]
      /\ \A p \in Pod : /\ pass[p].pc = "asleep" /\ pass[p].deleted = {} /\ pass[p].inserted = {}
                        /\ pass[p].snapshot = {} /\ pass[p].base = 0 /\ pass[p].day = 0
  BY DEF RollupInit, Asleep
<1>2. RollupTyped
  <2>1. usage \in [UsageEvent -> [at : Int, in : {"none", "open", "table", "purged"}]]
    BY DEF RollupInit
  <2>2. Asleep \in Pass
    BY DEF Asleep, Pass
  <2> QED
    BY <1>1, <2>1, <2>2 DEF RollupInit, RollupTyped
<1>3. \A p \in Pod : InTime(p)
  BY <1>1 DEF InTime
<1>4. RowsRight /\ ReadsGrow /\ Replaces
  BY <1>1 DEF RowsRight, OnePass, ReadsGrow, Replaces, Comparable, Seen, Counts, On, Ins, Del
<1>5. CountedStays /\ \A e \in counted : Landed(e)
  BY <1>1 DEF CountedStays
<1> QED
  BY <1>1, <1>2, <1>3, <1>4, <1>5 DEF RollupInv

\* The fields of a pass.
LEMMA PassFields ==
    ASSUME RollupTyped, NEW p \in Pod
    PROVE  /\ pass[p] \in Pass /\ pass[p].base \in Int /\ pass[p].day \in Int
           /\ pass[p].pc \in {"asleep", "delete", "deleting", "insert", "inserting", "purge"}
           /\ pass[p].snapshot \subseteq Row \cup UsageEvent
           /\ pass[p].deleted \subseteq Row /\ pass[p].inserted \subseteq Row
<1>1. pass[p] \in Pass
  BY DEF RollupTyped
<1> QED
  BY <1>1 DEF Pass

\* A step of the world around the passes: events are recorded and land, days go by.
LEMMA WorldMoves ==
    ASSUME RollupInv, UNCHANGED <<account, rollup, pass, counted>>,
           today' \in Nat, today <= today',
           usage' \in [UsageEvent -> [at : Int, in : {"none", "open", "table", "purged"}]],
           \A e \in UsageEvent : Landed(e) => Landed(e)' /\ usage'[e].at = usage[e].at,
           \A e \in UsageEvent : usage'[e].in = "purged" => usage[e].in = "purged",
           \A p \in Pod : pass[p].pc # "asleep" => pass[p].base \in {today' - 1, today'}
    PROVE  RollupInv'
<1>1. RollupTyped /\ today \in Nat
  BY DEF RollupInv, RollupTyped
<1>2. RollupTyped'
  BY <1>1 DEF RollupTyped, Pass, Row
<1>3. KeepEvents \in Nat /\ KeepRollups \in Nat
  BY RetentionAssumption
<1>4. \A e \in UsageEvent : usage'[e].in = "purged" => usage'[e].at < today' - KeepEvents
  <2> SUFFICES ASSUME NEW e \in UsageEvent, usage'[e].in = "purged"
               PROVE  usage'[e].at < today' - KeepEvents
    OBVIOUS
  <2>1. usage[e].in = "purged" /\ usage'[e].at = usage[e].at /\ usage'[e].at \in Int
    BY DEF Landed
  <2>2. usage[e].at < today - KeepEvents
    BY <2>1 DEF RollupInv
  <2> QED
    BY <1>1, <1>3, <2>1, <2>2
<1>5. ASSUME NEW p \in Pod PROVE InTime(p)'
  <2>1. InTime(p)
    BY DEF RollupInv
  <2> QED
    BY <2>1 DEF InTime, Ins, Del
<1>6. RowsRight'
  <2>1. \A r : RowOK(r) => RowOK(r)'
    BY DEF RowOK
  <2>2. RowsRight
    BY DEF RollupInv
  <2> QED
    BY <2>1, <2>2 DEF RowsRight, OnePass
<1>7. ReadsGrow' /\ Replaces'
  <2>1. ReadsGrow /\ Replaces
    BY DEF RollupInv
  <2>2. ReadsGrow'
    <3>1. \A d \in Int : Counts(On(d))' = Counts(On(d))
      BY DEF Counts, On
    <3>2. \A d \in Int : \A p \in Pod : Seen(p, d)' = Seen(p, d)
      BY DEF Seen, Counts, Ins
    <3> QED
      BY <2>1, <3>1, <3>2 DEF ReadsGrow, Comparable
  <2>3. Replaces'
    BY <2>1 DEF Replaces, Finished, Counts, On, Ins, Del
  <2> QED
    BY <2>2, <2>3
<1>8. CountedStays' /\ \A e \in counted' : Landed(e)'
  <2> SUFFICES ASSUME NEW e \in counted
               PROVE  /\ Landed(e)'
                      /\ usage'[e].at >= today' - KeepRollups =>
                           \E r \in rollup : r.day = usage'[e].at /\ e \in r.of
    BY DEF CountedStays
  <2>1. e \in UsageEvent /\ Landed(e)
    BY DEF RollupInv, RollupTyped
  <2>2. Landed(e)' /\ usage'[e].at = usage[e].at /\ usage'[e].at \in Int
    BY <2>1
  <2>3. usage'[e].at >= today' - KeepRollups => usage[e].at >= today - KeepRollups
    BY <1>1, <1>3, <2>2
  <2> QED
    BY <2>2, <2>3 DEF RollupInv, CountedStays
<1> QED
  BY <1>2, <1>4, <1>5, <1>6, <1>7, <1>8 DEF RollupInv

\* A step of one pass that commits nothing: it has to be right for its own.
LEMMA PassMoves ==
    ASSUME RollupInv, NEW p \in Pod, UNCHANGED <<today, account, usage, rollup, counted>>,
           pass' \in [Pod -> Pass], \A q \in Pod \ {p} : pass'[q] = pass[q],
           InTime(p)',
           \A r \in pass'[p].inserted : RowOK(r) /\ r.by = p,
           OnePass(pass'[p].inserted),
           pass'[p].deleted \subseteq rollup,
           \A q \in Pod \ {p} : pass'[p].deleted \cap pass[q].deleted = {},
           \A d \in Int :
             /\ Comparable(Seen(p, d)', Counts(On(d)))
             /\ \A q \in Pod \ {p} : Comparable(Seen(p, d)', Seen(q, d))
             /\ pass'[p].pc = "inserting" /\ pass'[p].day = d /\ Del(p, d)' # {} =>
                  Counts(On(d)) \subseteq pass'[p].snapshot
             /\ Finished(p, d)' /\ (Del(p, d)' # {} \/ Ins(p, d)' # {}) =>
                  On(d) \subseteq pass'[p].deleted /\ Counts(On(d)) \subseteq Counts(Ins(p, d)')
             /\ \A q \in Pod \ {p} : Ins(p, d)' = {} \/ Ins(q, d) = {}
    PROVE  RollupInv'
<1>1. RollupTyped'
  BY DEF RollupInv, RollupTyped, Pass, Row
<1>2. ASSUME NEW q \in Pod PROVE InTime(q)'
  <2>1. CASE q # p
    <3>1. InTime(q) /\ pass'[q] = pass[q]
      BY <2>1 DEF RollupInv
    <3> QED
      BY <3>1 DEF InTime, Ins, Del, Landed
  <2> QED
    BY <2>1
<1>3. RowsRight'
  <2>1. \A r : RowOK(r)' <=> RowOK(r)
    BY DEF RowOK, Landed
  <2>2. RowsRight
    BY DEF RollupInv
  <2>3. (\A r \in rollup : RowOK(r))' /\ OnePass(rollup)'
    BY <2>1, <2>2 DEF RowsRight, OnePass
  <2>4. ASSUME NEW q \in Pod
        PROVE  /\ \A r \in pass'[q].inserted : RowOK(r)' /\ r.by = q
               /\ OnePass(pass'[q].inserted) /\ pass'[q].deleted \subseteq rollup'
    BY <2>1, <2>2 DEF RowsRight
  <2>5. \A q \in Pod : \A s \in Pod \ {q} : pass'[q].deleted \cap pass'[s].deleted = {}
    BY <2>2 DEF RowsRight
  <2> QED
    BY <2>3, <2>4, <2>5 DEF RowsRight, OnePass
<1>4. ASSUME NEW d \in Int
      PROVE  /\ On(d)' = On(d) /\ Counts(On(d))' = Counts(On(d))
             /\ \A q \in Pod \ {p} :
                  /\ Ins(q, d)' = Ins(q, d) /\ Del(q, d)' = Del(q, d)
                  /\ Counts(Ins(q, d))' = Counts(Ins(q, d))
                  /\ Seen(q, d)' = Seen(q, d)
                  /\ Finished(q, d)' = Finished(q, d)
             /\ Counts(Ins(p, d))' = Counts(Ins(p, d)')
  BY DEF On, Counts, Ins, Del, Seen, Finished
<1>5. ReadsGrow'
  <2> SUFFICES ASSUME NEW d \in Int, NEW q \in Pod
               PROVE  /\ Comparable(Seen(q, d)', Counts(On(d))')
                      /\ \A s \in Pod : Comparable(Seen(q, d)', Seen(s, d)')
    BY DEF ReadsGrow, Comparable
  <2>1. ReadsGrow
    BY DEF RollupInv
  <2>2. \A S, T : Comparable(S, T) => Comparable(T, S)
    BY DEF Comparable
  <2>3. \A S : Comparable(S, S)
    BY DEF Comparable
  <2> QED
    BY <1>4, <2>1, <2>2, <2>3 DEF ReadsGrow
<1>6. Replaces'
  <2> SUFFICES ASSUME NEW d \in Int, NEW q \in Pod
               PROVE  /\ pass'[q].pc = "inserting" /\ pass'[q].day = d /\ Del(q, d)' # {} =>
                           Counts(On(d))' \subseteq pass'[q].snapshot
                      /\ Finished(q, d)' /\ (Del(q, d)' # {} \/ Ins(q, d)' # {}) =>
                           On(d)' \subseteq pass'[q].deleted
                           /\ Counts(On(d))' \subseteq Counts(Ins(q, d))'
                      /\ \A s \in Pod \ {q} : Ins(q, d)' = {} \/ Ins(s, d)' = {}
    BY DEF Replaces
  <2>1. Replaces
    BY DEF RollupInv
  <2>2. CASE q = p
    BY <1>4, <2>2
  <2>3. CASE q # p
    BY <1>4, <2>1, <2>3 DEF Replaces
  <2> QED
    BY <2>2, <2>3
<1>7. /\ CountedStays' /\ \A e \in counted' : Landed(e)'
      /\ \A e \in UsageEvent : usage'[e].in = "purged" => usage'[e].at < today' - KeepEvents
  BY DEF RollupInv, CountedStays, Landed
<1> QED
  BY <1>1, <1>2, <1>3, <1>5, <1>6, <1>7 DEF RollupInv

\* A step of a pass that reads no events and inserts no rows, or forgets it all.
LEMMA QuietMoves ==
    ASSUME RollupInv, NEW p \in Pod, UNCHANGED <<today, account, usage, rollup, counted>>,
           pass' \in [Pod -> Pass], \A q \in Pod \ {p} : pass'[q] = pass[q],
           InTime(p)', pass'[p].pc # "inserting",
           \/ pass'[p].inserted = {} /\ pass'[p].deleted = {}
           \/ /\ pass[p].pc # "inserting" /\ pass'[p].pc # "purge" /\ pass'[p].day = pass[p].day
              /\ pass'[p].inserted = pass[p].inserted
              /\ pass[p].deleted \subseteq pass'[p].deleted /\ pass'[p].deleted \subseteq rollup
              /\ \A q \in Pod \ {p} : pass'[p].deleted \cap pass[q].deleted = {}
              /\ \A r \in pass'[p].deleted \ pass[p].deleted : r.day = pass[p].day
    PROVE  RollupInv'
<1>1. RowsRight /\ ReadsGrow /\ Replaces /\ pass[p].day \in Int
  BY PassFields DEF RollupInv
<1>2. /\ \A r \in pass'[p].inserted : RowOK(r) /\ r.by = p
      /\ OnePass(pass'[p].inserted)
      /\ pass'[p].deleted \subseteq rollup
      /\ \A q \in Pod \ {p} : pass'[p].deleted \cap pass[q].deleted = {}
  <2>1. pass'[p].inserted = {} \/ pass'[p].inserted = pass[p].inserted
    OBVIOUS
  <2>2. OnePass({})
    BY DEF OnePass
  <2> QED
    BY <1>1, <2>1, <2>2 DEF RowsRight
<1>3. ASSUME NEW d \in Int
      PROVE  /\ Comparable(Seen(p, d)', Counts(On(d)))
             /\ \A q \in Pod \ {p} : Comparable(Seen(p, d)', Seen(q, d))
             /\ Finished(p, d)' /\ (Del(p, d)' # {} \/ Ins(p, d)' # {}) =>
                  On(d) \subseteq pass'[p].deleted /\ Counts(On(d)) \subseteq Counts(Ins(p, d)')
             /\ \A q \in Pod \ {p} : Ins(p, d)' = {} \/ Ins(q, d) = {}
  <2>1. CASE pass'[p].inserted = {} /\ pass'[p].deleted = {}
    <3>1. Ins(p, d)' = {} /\ Del(p, d)' = {}
      BY <2>1 DEF Ins, Del
    <3>2. Seen(p, d)' = {}
      BY <2>1 DEF Seen, Ins, Counts
    <3> QED
      BY <3>1, <3>2 DEF Comparable
  <2>2. CASE ~(pass'[p].inserted = {} /\ pass'[p].deleted = {})
    <3>1. /\ pass[p].pc # "inserting" /\ pass'[p].pc # "purge" /\ pass'[p].day = pass[p].day
          /\ pass'[p].inserted = pass[p].inserted /\ pass[p].deleted \subseteq pass'[p].deleted
          /\ \A r \in pass'[p].deleted \ pass[p].deleted : r.day = pass[p].day
      BY <2>2
    <3>2. Ins(p, d)' = Ins(p, d)
      BY <3>1 DEF Ins
    <3>3. Seen(p, d)' = Seen(p, d)
      <4>1. Seen(p, d)' = Counts(Ins(p, d)')
        BY DEF Seen, Counts
      <4> QED
        BY <3>1, <3>2, <4>1 DEF Seen
    <3>4. Finished(p, d)' => Finished(p, d) /\ d # pass[p].day
      BY <1>1, <3>1 DEF Finished
    <3>5. Finished(p, d)' => Del(p, d)' = Del(p, d)
      BY <3>1, <3>4 DEF Del
    <3> QED
      BY <1>1, <3>1, <3>2, <3>3, <3>4, <3>5 DEF ReadsGrow, Replaces
  <2> QED
    BY <2>1, <2>2
<1> QED
  BY <1>2, <1>3, PassMoves

\* The quiet steps, in that sense: a pod wakes, its DELETE starts and ends, the
\* transaction is rolled back.
LEMMA WakeKeeps ==
    ASSUME RollupInv, NEW p \in Pod, Wake(p)
    PROVE  RollupInv'
<1>1. today \in Nat /\ RollupTyped
  BY DEF RollupInv, RollupTyped
<1>2. PICK x : x = [Asleep EXCEPT !.pc = "delete", !.base = today, !.day = today - 1]
  OBVIOUS
<1>3. /\ x.pc = "delete" /\ x.base = today /\ x.day = today - 1
      /\ x.snapshot = {} /\ x.deleted = {} /\ x.inserted = {}
  BY <1>2 DEF Asleep
<1>4. x \in Pass
  <2>1. PICK y : y = [Asleep EXCEPT !.pc = "delete"]
    OBVIOUS
  <2>2. PICK z : z = [y EXCEPT !.base = today]
    OBVIOUS
  <2>3. x = [z EXCEPT !.day = today - 1]
    BY <1>2, <2>1, <2>2, Zenon
  <2>4. y = [pc |-> "delete", base |-> 0, day |-> 0, snapshot |-> {}, deleted |-> {}, inserted |-> {}]
    BY <2>1 DEF Asleep
  <2>5. z = [pc |-> "delete", base |-> today, day |-> 0, snapshot |-> {}, deleted |-> {}, inserted |-> {}]
    BY <2>2, <2>4
  <2> QED
    BY <1>1, <2>3, <2>5 DEF Pass
<1>5. pass' = [pass EXCEPT ![p] = x] /\ UNCHANGED <<today, account, usage, rollup, counted>>
  BY <1>2 DEF Wake
<1>6. pass' \in [Pod -> Pass] /\ pass'[p] = x /\ \A q \in Pod \ {p} : pass'[q] = pass[q]
  BY <1>1, <1>4, <1>5 DEF RollupTyped
<1>7. InTime(p)'
  BY <1>1, <1>3, <1>5, <1>6 DEF InTime, Ins, Del
<1> QED
  BY <1>3, <1>5, <1>6, <1>7, QuietMoves

LEMMA StartDeleteKeeps ==
    ASSUME RollupInv, NEW p \in Pod, StartDelete(p)
    PROVE  RollupInv'
<1>1. RollupTyped /\ InTime(p) /\ RowsRight
  BY DEF RollupInv
<1>2. PICK R : R = {r \in rollup : r.day = pass[p].day}
  OBVIOUS
<1>3. /\ pass[p].pc = "delete"
      /\ pass' = [pass EXCEPT ![p].pc = "deleting", ![p].snapshot = R]
      /\ UNCHANGED <<today, account, usage, rollup, counted>>
  BY <1>2 DEF StartDelete
<1>4. R \subseteq rollup /\ R \subseteq Row /\ \A r \in R : r.day = pass[p].day
  BY <1>1, <1>2 DEF RollupTyped
<1>5. /\ pass' \in [Pod -> Pass] /\ \A q \in Pod \ {p} : pass'[q] = pass[q]
      /\ pass'[p].pc = "deleting" /\ pass'[p].snapshot = R
      /\ pass'[p].base = pass[p].base /\ pass'[p].day = pass[p].day
      /\ pass'[p].deleted = pass[p].deleted /\ pass'[p].inserted = pass[p].inserted
  BY <1>1, <1>3, <1>4 DEF RollupTyped, Pass
<1>6. InTime(p)'
  BY <1>1, <1>3, <1>4, <1>5 DEF InTime, Ins, Del
<1> QED
  BY <1>1, <1>3, <1>5, <1>6, QuietMoves DEF RowsRight

LEMMA EndDeleteKeeps ==
    ASSUME RollupInv, NEW p \in Pod, EndDelete(p)
    PROVE  RollupInv'
<1>1. RollupTyped /\ InTime(p) /\ RowsRight
  BY DEF RollupInv
<1>2. PICK R : R = pass[p].snapshot \cap rollup
  OBVIOUS
<1>3. /\ pass[p].pc = "deleting"
      /\ \A q \in Pod \ {p} : R \cap pass[q].deleted = {}
      /\ pass' = [pass EXCEPT ![p].pc = "insert", ![p].snapshot = {},
                              ![p].deleted = pass[p].deleted \cup R]
      /\ UNCHANGED <<today, account, usage, rollup, counted>>
  BY <1>2, <1>1 DEF EndDelete, RollupTyped
<1>4. R \subseteq rollup /\ R \subseteq Row /\ \A r \in R : r.day = pass[p].day
  BY <1>1, <1>2, <1>3 DEF RollupTyped, InTime
<1>5. /\ pass' \in [Pod -> Pass] /\ \A q \in Pod \ {p} : pass'[q] = pass[q]
      /\ pass'[p].pc = "insert" /\ pass'[p].snapshot = {}
      /\ pass'[p].base = pass[p].base /\ pass'[p].day = pass[p].day
      /\ pass'[p].deleted = pass[p].deleted \cup R /\ pass'[p].inserted = pass[p].inserted
  BY <1>1, <1>3, <1>4 DEF RollupTyped, Pass
<1>6. InTime(p)'
  <2>1. /\ pass[p].base \in {today - 1, today} /\ pass[p].day \in {pass[p].base - 1, pass[p].base}
        /\ pass[p].day \in Int
    BY <1>1, <1>3, PassFields DEF InTime
  <2>2. \A r \in pass'[p].deleted \cup pass'[p].inserted :
          r.day \in {pass[p].base - 1, pass[p].base} /\ r.day <= pass[p].day
    BY <1>1, <1>4, <1>5, <2>1 DEF InTime
  <2>3. Ins(p, pass[p].day)' = {}
    BY <1>1, <1>3, <1>5 DEF InTime, Ins
  <2> QED
    BY <1>3, <1>5, <2>1, <2>2, <2>3 DEF InTime, Ins, Del
<1>7. /\ pass[p].deleted \subseteq pass'[p].deleted /\ pass'[p].deleted \subseteq rollup
      /\ \A q \in Pod \ {p} : pass'[p].deleted \cap pass[q].deleted = {}
      /\ \A r \in pass'[p].deleted \ pass[p].deleted : r.day = pass[p].day
  BY <1>1, <1>3, <1>4, <1>5 DEF RowsRight
<1> QED
  BY <1>3, <1>5, <1>6, <1>7, QuietMoves

LEMMA RollBackKeeps ==
    ASSUME RollupInv, NEW p \in Pod, RollBack(p)
    PROVE  RollupInv'
<1>1. RollupTyped
  BY DEF RollupInv
<1>2. /\ Asleep.pc = "asleep" /\ Asleep.snapshot = {} /\ Asleep.deleted = {}
      /\ Asleep.inserted = {} /\ Asleep \in Pass
  BY DEF Asleep, Pass
<1>3. pass' = [pass EXCEPT ![p] = Asleep] /\ UNCHANGED <<today, account, usage, rollup, counted>>
  BY DEF RollBack
<1>4. pass' \in [Pod -> Pass] /\ pass'[p] = Asleep /\ \A q \in Pod \ {p} : pass'[q] = pass[q]
  BY <1>1, <1>2, <1>3 DEF RollupTyped
<1>5. InTime(p)'
  BY <1>2, <1>4 DEF InTime
<1> QED
  BY <1>2, <1>3, <1>4, <1>5, QuietMoves

\* Of a day the purge has not come near, nothing has ever been counted or read
\* that a read would not find again.
LEMMA ReadFindsAll ==
    ASSUME RollupInv, NEW d \in Int, d >= today - 2, NEW S,
           S = {e \in UsageEvent : usage[e].in = "table" /\ usage[e].at = d}
    PROVE  Counts(On(d)) \subseteq S /\ \A q \in Pod : Seen(q, d) \subseteq S
<1>1. KeepEvents \in Nat /\ KeepEvents > 1 /\ today \in Nat /\ RowsRight
  BY RetentionAssumption DEF RollupInv, RollupTyped
<1>2. ASSUME NEW e \in UsageEvent, Landed(e), usage[e].at = d
      PROVE  e \in S
  <2>1. usage[e].in # "purged"
    BY <1>1, <1>2 DEF RollupInv
  <2> QED
    BY <1>2, <2>1 DEF Landed
<1>3. ASSUME NEW R, \A r \in R : RowOK(r) /\ r.day = d
      PROVE  Counts(R) \subseteq S
  <2> SUFFICES ASSUME NEW r \in R, NEW e \in r.of PROVE e \in S
    BY DEF Counts
  <2>1. e \in UsageEvent /\ usage[e].at = d /\ Landed(e)
    BY <1>3 DEF RowOK
  <2> QED
    BY <1>2, <2>1
<1>4. Counts(On(d)) \subseteq S
  <2>1. \A r \in On(d) : RowOK(r) /\ r.day = d
    BY <1>1 DEF On, RowsRight
  <2> QED
    BY <1>3, <2>1
<1>5. ASSUME NEW q \in Pod PROVE Seen(q, d) \subseteq S
  <2>1. \A r \in Ins(q, d) : RowOK(r) /\ r.day = d
    BY <1>1 DEF Ins, RowsRight
  <2>2. Counts(Ins(q, d)) \subseteq S
    BY <1>3, <2>1
  <2>3. InTime(q)
    BY DEF RollupInv
  <2>4. pass[q].pc = "inserting" /\ pass[q].day = d => pass[q].snapshot \subseteq S
    BY <1>2, <2>3 DEF InTime
  <2> QED
    BY <2>2, <2>4 DEF Seen
<1> QED
  BY <1>4, <1>5

\* The INSERT of a pass has read the events: at least those the pass saw before.
LEMMA StartInsertKeeps ==
    ASSUME RollupInv, NEW p \in Pod, StartInsert(p)
    PROVE  RollupInv'
<1>1. RollupTyped /\ InTime(p) /\ RowsRight /\ ReadsGrow /\ Replaces /\ today \in Nat
  BY DEF RollupInv, RollupTyped
<1>2. PICK D : D = pass[p].day
  OBVIOUS
<1>3. PICK S : S = {e \in UsageEvent : usage[e].in = "table" /\ usage[e].at = D}
  OBVIOUS
<1>4. /\ pass[p].pc = "insert"
      /\ pass' = [pass EXCEPT ![p].pc = "inserting", ![p].snapshot = S]
      /\ UNCHANGED <<today, account, usage, rollup, counted>>
  BY <1>2, <1>3 DEF StartInsert
<1>5. /\ D \in Int /\ pass[p].base \in {today - 1, today} /\ D \in {pass[p].base - 1, pass[p].base}
      /\ D >= today - 2
  BY <1>1, <1>2, <1>4, PassFields DEF InTime
<1>6. S \subseteq UsageEvent /\ \A e \in S : usage[e].at = D /\ Landed(e)
  BY <1>3 DEF Landed
<1>7. /\ pass' \in [Pod -> Pass] /\ \A q \in Pod \ {p} : pass'[q] = pass[q]
      /\ pass'[p].pc = "inserting" /\ pass'[p].snapshot = S
      /\ pass'[p].base = pass[p].base /\ pass'[p].day = D
      /\ pass'[p].deleted = pass[p].deleted /\ pass'[p].inserted = pass[p].inserted
  BY <1>1, <1>2, <1>4, <1>6 DEF RollupTyped, Pass
<1>8. InTime(p)'
  <2>1. Ins(p, D) = {} /\ Ins(p, D)' = Ins(p, D)
    BY <1>1, <1>2, <1>4, <1>7 DEF InTime, Ins
  <2>2. \A e \in S : Landed(e)' /\ usage'[e].at = D
    BY <1>4, <1>6 DEF Landed
  <2>3. \A r \in pass[p].deleted \cup pass[p].inserted :
          r.day \in {pass[p].base - 1, pass[p].base} /\ r.day <= D
    BY <1>1, <1>2 DEF InTime
  <2> QED
    BY <1>4, <1>5, <1>6, <1>7, <2>1, <2>2, <2>3 DEF InTime
<1>9. ASSUME NEW d \in Int
      PROVE  /\ Comparable(Seen(p, d)', Counts(On(d)))
             /\ \A q \in Pod \ {p} : Comparable(Seen(p, d)', Seen(q, d))
             /\ pass'[p].pc = "inserting" /\ pass'[p].day = d /\ Del(p, d)' # {} =>
                  Counts(On(d)) \subseteq pass'[p].snapshot
             /\ Finished(p, d)' /\ (Del(p, d)' # {} \/ Ins(p, d)' # {}) =>
                  On(d) \subseteq pass'[p].deleted /\ Counts(On(d)) \subseteq Counts(Ins(p, d)')
             /\ \A q \in Pod \ {p} : Ins(p, d)' = {} \/ Ins(q, d) = {}
  <2>1. Ins(p, d)' = Ins(p, d) /\ Del(p, d)' = Del(p, d)
    BY <1>7 DEF Ins, Del
  <2>2. Finished(p, d)' => Finished(p, d)
    BY <1>2, <1>7 DEF Finished
  <2>3. CASE d = D
    <3>1. Seen(p, d)' = S
      BY <1>7, <2>3 DEF Seen
    <3>2. Counts(On(d)) \subseteq S /\ \A q \in Pod : Seen(q, d) \subseteq S
      BY <1>3, <1>5, <2>3, ReadFindsAll
    <3> QED
      BY <1>1, <1>7, <2>1, <2>2, <3>1, <3>2 DEF Comparable, Replaces
  <2>4. CASE d # D
    <3>1. Seen(p, d)' = Counts(Ins(p, d)')
      BY <1>7, <2>4 DEF Seen, Counts
    <3>2. Seen(p, d)' = Seen(p, d)
      BY <1>4, <2>1, <3>1 DEF Seen
    <3> QED
      BY <1>1, <1>7, <2>1, <2>2, <2>4, <3>2 DEF ReadsGrow, Replaces
  <2> QED
    BY <2>3, <2>4
<1> QED
  BY <1>1, <1>4, <1>7, <1>8, <1>9, PassMoves DEF RowsRight

\* The groups of a read: one row for every account read, which counts what the
\* read found of it.
LEMMA GroupRows ==
    ASSUME RollupTyped, NEW p \in Pod, pass[p].snapshot \subseteq UsageEvent
    PROVE  /\ \A r \in Groups(p) :
                /\ r \in Row /\ r.day = pass[p].day /\ r.by = p
                /\ r.of # {} /\ r.of \subseteq pass[p].snapshot
                /\ \A e \in r.of : account[e] = r.account
           /\ \A e \in pass[p].snapshot : \E r \in Groups(p) : e \in r.of /\ r.account = account[e]
           /\ Counts(Groups(p)) = pass[p].snapshot
<1>1. pass[p].day \in Int
  BY PassFields
<1>2. ASSUME NEW r \in Groups(p)
      PROVE  /\ r \in Row /\ r.day = pass[p].day /\ r.by = p
             /\ r.of # {} /\ r.of \subseteq pass[p].snapshot
             /\ \A e \in r.of : account[e] = r.account
  <2>1. PICK f \in pass[p].snapshot :
          r = [day |-> pass[p].day, account |-> account[f],
               of |-> {e \in pass[p].snapshot : account[e] = account[f]}, by |-> p]
    BY <1>2 DEF Groups
  <2>2. /\ r.day = pass[p].day /\ r.by = p /\ r.account = account[f]
        /\ r.of = {e \in pass[p].snapshot : account[e] = account[f]}
    BY <2>1
  <2>3. f \in r.of /\ r.of \subseteq UsageEvent /\ account[f] \in {account[e] : e \in UsageEvent}
    BY <2>2
  <2>4. r \in Row
    BY <1>1, <2>1, <2>2, <2>3 DEF Row
  <2> QED
    BY <2>2, <2>3, <2>4
<1>3. ASSUME NEW f \in pass[p].snapshot
      PROVE  \E r \in Groups(p) : f \in r.of /\ r.account = account[f]
  <2>1. PICK r : r = [day |-> pass[p].day, account |-> account[f],
                      of |-> {e \in pass[p].snapshot : account[e] = account[f]}, by |-> p]
    OBVIOUS
  <2>2. r \in Groups(p)
    BY <2>1 DEF Groups
  <2>3. r.account = account[f] /\ f \in r.of
    BY <2>1
  <2> QED
    BY <2>2, <2>3
<1>4. Counts(Groups(p)) = pass[p].snapshot
  BY <1>2, <1>3 DEF Counts
<1> QED
  BY <1>2, <1>3, <1>4

\* The rows of a pass are inserted: no other pass can have touched their key.
LEMMA EndInsertKeeps ==
    ASSUME RollupInv, NEW p \in Pod, EndInsert(p)
    PROVE  RollupInv'
<1>1. RollupTyped /\ InTime(p) /\ RowsRight /\ ReadsGrow /\ Replaces /\ today \in Nat
  BY DEF RollupInv, RollupTyped
<1>2. PICK D, S, G : D = pass[p].day /\ S = pass[p].snapshot /\ G = Groups(p)
  OBVIOUS
<1>3. /\ pass[p].pc = "inserting" /\ ~KeyBusy(p) /\ ~Duplicate(p)
      /\ pass' = [pass EXCEPT ![p].inserted = pass[p].inserted \cup G, ![p].snapshot = {},
                              ![p].pc = IF D = pass[p].base THEN "purge" ELSE "delete",
                              ![p].day = pass[p].base]
      /\ UNCHANGED <<today, account, usage, rollup, counted>>
  BY <1>1, <1>2 DEF EndInsert, RollupTyped
<1>4. /\ D \in Int /\ pass[p].base \in Int /\ pass[p].base \in {today - 1, today}
      /\ D \in {pass[p].base - 1, pass[p].base}
      /\ Ins(p, D) = {} /\ \A e \in S : e \in UsageEvent /\ usage[e].at = D /\ Landed(e)
      /\ \A r \in pass[p].deleted \cup pass[p].inserted :
           r.day \in {pass[p].base - 1, pass[p].base} /\ r.day <= D
  BY <1>1, <1>2, <1>3, PassFields DEF InTime
<1>5. /\ \A r \in G : /\ r \in Row /\ r.day = D /\ r.by = p /\ r.of # {} /\ r.of \subseteq S
                      /\ \A e \in r.of : account[e] = r.account
      /\ \A e \in S : \E r \in G : e \in r.of /\ r.account = account[e]
      /\ Counts(G) = S
  <2>1. pass[p].snapshot \subseteq UsageEvent
    BY <1>2, <1>4
  <2> QED
    BY <1>1, <1>2, <2>1, GroupRows
<1>6. /\ pass' \in [Pod -> Pass] /\ \A q \in Pod \ {p} : pass'[q] = pass[q]
      /\ pass'[p].pc = IF D = pass[p].base THEN "purge" ELSE "delete"
      /\ pass'[p].snapshot = {} /\ pass'[p].base = pass[p].base /\ pass'[p].day = pass[p].base
      /\ pass'[p].deleted = pass[p].deleted /\ pass'[p].inserted = pass[p].inserted \cup G
  BY <1>1, <1>3, <1>4, <1>5 DEF RollupTyped, Pass
<1>7. InTime(p)'
  <2>1. \A r \in pass'[p].deleted \cup pass'[p].inserted :
          r.day \in {pass[p].base - 1, pass[p].base} /\ r.day <= D
    BY <1>4, <1>5, <1>6
  <2>2. pass'[p].pc = "delete" => D < pass[p].base
    BY <1>4, <1>6
  <2>3. pass'[p].pc = "delete" =>
          /\ {r \in pass'[p].inserted : r.day = pass'[p].day} = {}
          /\ {r \in pass'[p].deleted : r.day = pass'[p].day} = {}
    BY <1>4, <1>6, <2>1, <2>2
  <2>4. pass'[p].pc \in {"purge", "delete"} /\ (pass'[p].pc = "purge" => D = pass[p].base)
    BY <1>6
  <2>5. /\ Ins(p, pass[p].day)' = {r \in pass'[p].inserted : r.day = pass'[p].day}
        /\ Del(p, pass[p].day)' = {r \in pass'[p].deleted : r.day = pass'[p].day}
    BY DEF Ins, Del
  <2> QED
    BY <1>3, <1>4, <1>6, <2>1, <2>3, <2>4, <2>5 DEF InTime
<1>8. \A r \in rollup : RowOK(r)
  BY <1>1 DEF RowsRight
<1>9. ASSUME NEW r, NEW s, NEW e \in r.of, e \in s.of, r \in G, RowOK(s), s.day = D
      PROVE  SameKey(r, s)
  BY <1>5, <1>9 DEF RowOK, SameKey
<1>10. /\ \A r \in pass'[p].inserted : RowOK(r) /\ r.by = p
       /\ OnePass(pass'[p].inserted)
  <2>1. \A r \in pass[p].inserted : RowOK(r) /\ r.by = p /\ r.day # D
    BY <1>1, <1>2, <1>4 DEF RowsRight, Ins
  <2>2. \A r \in G : RowOK(r) /\ r.by = p /\ r.day = D
    BY <1>4, <1>5 DEF RowOK
  <2>3. \A r, s \in G : r # s => ~SameKey(r, s)
    BY <1>2, <1>3 DEF Duplicate
  <2>4. OnePass(pass[p].inserted)
    BY <1>1 DEF RowsRight
  <2> QED
    BY <1>6, <2>1, <2>2, <2>3, <2>4 DEF OnePass
<1>11. \/ On(D) \subseteq pass[p].deleted /\ Counts(On(D)) \subseteq S
       \/ G = {} /\ Del(p, D) = {}
  <2>1. ASSUME NEW s \in On(D), NEW e \in s.of, e \in S
        PROVE  s \in pass[p].deleted
    <3>1. PICK r \in G : e \in r.of
      BY <2>1, <1>5
    <3>2. RowOK(s) /\ s.day = D /\ s \in rollup
      BY <2>1, <1>8 DEF On
    <3>3. SameKey(r, s)
      BY <1>9, <2>1, <3>1, <3>2
    <3> QED
      BY <1>2, <1>3, <3>1, <3>2, <3>3 DEF Duplicate
  <2>2. CASE Counts(On(D)) \subseteq S
    <3>1. ASSUME NEW s \in On(D) PROVE s \in pass[p].deleted
      <4>1. PICK e \in s.of : TRUE
        BY <3>1, <1>8 DEF On, RowOK
      <4>2. e \in S
        BY <2>2, <3>1, <4>1 DEF Counts
      <4> QED
        BY <2>1, <3>1, <4>1, <4>2
    <3> QED
      BY <2>2, <3>1
  <2>3. CASE ~(Counts(On(D)) \subseteq S)
    <3>1. Del(p, D) = {}
      BY <1>1, <1>2, <1>3, <1>4, <2>3 DEF Replaces
    <3>2. Seen(p, D) = S
      BY <1>2, <1>3 DEF Seen
    <3>3. S \subseteq Counts(On(D))
      BY <1>1, <1>4, <2>3, <3>2 DEF ReadsGrow, Comparable
    <3>4. S = {}
      <4> SUFFICES ASSUME NEW e \in S PROVE FALSE
        OBVIOUS
      <4>1. PICK s \in On(D) : e \in s.of
        BY <3>3 DEF Counts
      <4>2. s \in pass[p].deleted /\ s.day = D
        BY <2>1, <4>1 DEF On
      <4> QED
        BY <3>1, <4>2 DEF Del
    <3>5. G = {}
      BY <1>5, <3>4
    <3> QED
      BY <3>1, <3>5
  <2> QED
    BY <2>2, <2>3
<1>12. ASSUME NEW q \in Pod \ {p} PROVE G = {} \/ Ins(q, D) = {}
  <2> SUFFICES ASSUME G # {}, Ins(q, D) # {} PROVE FALSE
    OBVIOUS
  <2>1. InTime(q) /\ \A s \in Ins(q, D) : RowOK(s) /\ s.day = D /\ s \in pass[q].inserted
    BY <1>1 DEF RollupInv, RowsRight, Ins
  <2>2. Seen(q, D) = Counts(Ins(q, D)) /\ Seen(p, D) = S
    BY <1>2, <1>3, <2>1 DEF InTime, Seen
  <2>3. Comparable(S, Counts(Ins(q, D)))
    BY <1>1, <1>4, <2>2 DEF ReadsGrow
  <2>4. S # {} /\ Counts(Ins(q, D)) # {}
    <3>1. PICK s \in Ins(q, D) : TRUE
      OBVIOUS
    <3>2. PICK e \in s.of : TRUE
      BY <2>1, <3>1 DEF RowOK
    <3>3. e \in Counts(Ins(q, D))
      BY <3>1, <3>2 DEF Counts
    <3> QED
      BY <1>5, <3>3
  <2>5. PICK e \in S : e \in Counts(Ins(q, D))
    BY <2>3, <2>4 DEF Comparable
  <2>6. PICK s \in Ins(q, D) : e \in s.of
    BY <2>5 DEF Counts
  <2>7. PICK r \in G : e \in r.of
    BY <1>5
  <2>8. SameKey(r, s)
    BY <1>9, <2>1, <2>6, <2>7
  <2> QED
    BY <1>2, <1>3, <2>1, <2>6, <2>7, <2>8 DEF KeyBusy
<1>13. ASSUME NEW d \in Int
       PROVE  /\ Comparable(Seen(p, d)', Counts(On(d)))
              /\ \A q \in Pod \ {p} : Comparable(Seen(p, d)', Seen(q, d))
              /\ Finished(p, d)' /\ (Del(p, d)' # {} \/ Ins(p, d)' # {}) =>
                   On(d) \subseteq pass'[p].deleted /\ Counts(On(d)) \subseteq Counts(Ins(p, d)')
              /\ \A q \in Pod \ {p} : Ins(p, d)' = {} \/ Ins(q, d) = {}
  <2>1. Del(p, d)' = Del(p, d) /\ Seen(p, d)' = Counts(Ins(p, d)')
    BY <1>6 DEF Del, Seen, Counts
  <2>2. CASE d = D
    <3>1. Ins(p, d)' = G
      BY <1>4, <1>5, <1>6, <2>2 DEF Ins
    <3>2. Seen(p, d)' = S /\ Seen(p, d) = S
      BY <1>2, <1>3, <1>5, <2>1, <2>2, <3>1 DEF Seen
    <3> QED
      BY <1>1, <1>5, <1>6, <1>11, <1>12, <2>1, <2>2, <3>1, <3>2 DEF ReadsGrow
  <2>3. CASE d # D
    <3>1. Ins(p, d)' = Ins(p, d)
      BY <1>5, <1>6, <2>3 DEF Ins
    <3>2. Seen(p, d)' = Seen(p, d)
      BY <1>2, <2>1, <2>3, <3>1 DEF Seen
    <3>3. Finished(p, d) \/ (Del(p, d)' = {} /\ Ins(p, d)' = {})
      BY <1>2, <1>4, <2>1, <2>3, <3>1 DEF Finished, Del, Ins
    <3>4. Finished(p, d) /\ (Del(p, d) # {} \/ Ins(p, d) # {}) =>
            On(d) \subseteq pass[p].deleted /\ Counts(On(d)) \subseteq Counts(Ins(p, d))
      BY <1>1 DEF Replaces
    <3>5. \A q \in Pod \ {p} : Ins(p, d) = {} \/ Ins(q, d) = {}
      BY <1>1 DEF Replaces
    <3>6. /\ Comparable(Seen(p, d), Counts(On(d)))
          /\ \A q \in Pod \ {p} : Comparable(Seen(p, d), Seen(q, d))
      BY <1>1 DEF ReadsGrow
    <3> QED
      BY <1>6, <2>1, <3>1, <3>2, <3>3, <3>4, <3>5, <3>6
  <2> QED
    BY <2>2, <2>3
<1>14. pass'[p].pc # "inserting"
  BY <1>6
<1>15. /\ pass'[p].deleted \subseteq rollup
       /\ \A q \in Pod \ {p} : pass'[p].deleted \cap pass[q].deleted = {}
  BY <1>1, <1>6 DEF RowsRight
<1> QED
  BY <1>3, <1>6, <1>7, <1>10, <1>13, <1>14, <1>15, PassMoves

\* A pass commits: its rows take the place of all rows there are of their day.
LEMMA CommitKeeps ==
    ASSUME RollupInv, NEW p \in Pod, Commit(p)
    PROVE  RollupInv'
<1>1. /\ RollupTyped /\ RowsRight /\ ReadsGrow /\ Replaces /\ \A q \in Pod : InTime(q)
      /\ today \in Nat /\ KeepEvents \in Nat /\ KeepRollups \in Nat /\ KeepRollups > 2
  BY RetentionAssumption DEF RollupInv, RollupTyped
<1>2. PICK Dl, New : Dl = pass[p].deleted /\ New = pass[p].inserted
  OBVIOUS
<1>3. /\ pass[p].pc = "purge" /\ pass' = [pass EXCEPT ![p] = Asleep]
      /\ rollup' = {r \in (rollup \ Dl) \cup New : ~Expired(r)}
      /\ counted' = counted \cup Counts(New)
      /\ UNCHANGED <<today, account>>
  BY <1>2 DEF Commit, Counts
<1>4. /\ Asleep.pc = "asleep" /\ Asleep.deleted = {} /\ Asleep.inserted = {} /\ Asleep \in Pass
  BY DEF Asleep, Pass
<1>5. /\ pass' \in [Pod -> Pass] /\ pass'[p] = Asleep /\ \A q \in Pod \ {p} : pass'[q] = pass[q]
  BY <1>1, <1>3, <1>4 DEF RollupTyped
<1>6. /\ usage' \in [UsageEvent -> [at : Int, in : {"none", "open", "table", "purged"}]]
      /\ \A e \in UsageEvent :
           /\ usage'[e].at = usage[e].at /\ (Landed(e)' <=> Landed(e))
           /\ usage'[e].in = "purged" => usage'[e].at < today - KeepEvents
  <2>1. usage' = [e \in UsageEvent |->
                    IF usage[e].in = "table" /\ usage[e].at < today - KeepEvents
                    THEN [usage[e] EXCEPT !.in = "purged"] ELSE usage[e]]
    BY DEF Commit
  <2>2. ASSUME NEW e \in UsageEvent
        PROVE  /\ usage'[e] \in [at : Int, in : {"none", "open", "table", "purged"}]
               /\ usage'[e].at = usage[e].at /\ (Landed(e)' <=> Landed(e))
               /\ usage'[e].in = "purged" => usage'[e].at < today - KeepEvents
    <3>1. /\ usage[e] \in [at : Int, in : {"none", "open", "table", "purged"}]
          /\ usage[e].in = "purged" => usage[e].at < today - KeepEvents
      BY DEF RollupInv, RollupTyped
    <3>2. CASE usage[e].in = "table" /\ usage[e].at < today - KeepEvents
      <4>1. usage'[e] = [usage[e] EXCEPT !.in = "purged"]
        BY <2>1, <3>2
      <4> QED
        BY <3>1, <3>2, <4>1 DEF Landed
    <3>3. CASE ~(usage[e].in = "table" /\ usage[e].at < today - KeepEvents)
      <4>1. usage'[e] = usage[e]
        BY <2>1, <3>3
      <4> QED
        BY <3>1, <4>1 DEF Landed
    <3> QED
      BY <3>2, <3>3
  <2> QED
    BY <2>1, <2>2
<1>7. \A r : RowOK(r) => RowOK(r)'
  BY <1>3, <1>6 DEF RowOK
<1>8. ASSUME NEW q \in Pod, NEW r \in pass[q].deleted \cup pass[q].inserted
      PROVE  r.day \in Int /\ ~Expired(r)
  <2>1. pass[q].pc # "asleep" /\ InTime(q)
    BY <1>1, <1>8 DEF InTime
  <2>2. /\ pass[q].base \in {today - 1, today} /\ r.day \in {pass[q].base - 1, pass[q].base}
    BY <2>1, <1>8 DEF InTime
  <2> QED
    BY <1>1, <2>2 DEF Expired
<1>9. ASSUME NEW d \in Int
      PROVE  /\ Seen(p, d) = Counts(Ins(p, d))
             /\ Del(p, d) # {} \/ Ins(p, d) # {} =>
                  On(d) \subseteq Dl /\ Counts(On(d)) \subseteq Counts(Ins(p, d))
  BY <1>1, <1>2, <1>3 DEF Seen, Replaces, Finished
<1>10. ASSUME NEW d \in Int, Del(p, d) # {} \/ Ins(p, d) # {}
       PROVE  On(d)' = Ins(p, d)
  <2>1. On(d) \subseteq Dl
    BY <1>9, <1>10
  <2>2. \A r \in Ins(p, d) : r \in New /\ r.day = d /\ ~Expired(r)
    BY <1>2, <1>8 DEF Ins
  <2> QED
    BY <1>2, <1>3, <2>1, <2>2 DEF On, Ins
<1>11. ASSUME NEW d \in Int, Del(p, d) = {}, Ins(p, d) = {}
       PROVE  On(d)' = On(d) \/ On(d)' = {}
  <2>1. On(d)' = {r \in On(d) : ~Expired(r)}
    BY <1>2, <1>3, <1>11 DEF On, Del, Ins
  <2>2. \A r \in On(d) : Expired(r) <=> d < today - KeepRollups
    BY DEF On, Expired
  <2> QED
    BY <2>1, <2>2
<1>12. ASSUME NEW d \in Int, Del(p, d) # {} \/ Ins(p, d) # {}, NEW q \in Pod \ {p}
       PROVE  Del(q, d) = {} /\ (Finished(q, d) => Ins(q, d) = {})
  <2>1. On(d) \subseteq Dl /\ Dl \cap pass[q].deleted = {}
    BY <1>1, <1>2, <1>9, <1>12 DEF RowsRight
  <2>2. Del(q, d) \subseteq On(d) /\ Del(p, d) \subseteq On(d)
    BY <1>1, <1>2 DEF RowsRight, Del, On
  <2>3. Del(q, d) = {}
    BY <2>1, <2>2 DEF Del
  <2>4. ASSUME Finished(q, d), Ins(q, d) # {} PROVE FALSE
    <3>1. On(d) \subseteq pass[q].deleted
      BY <1>1, <2>4 DEF Replaces
    <3>2. Del(p, d) = {}
      BY <2>1, <2>2, <3>1
    <3>3. Ins(p, d) = {}
      BY <1>1, <2>4 DEF Replaces
    <3> QED
      BY <1>12, <3>2, <3>3
  <2> QED
    BY <2>3, <2>4
<1>13. RollupTyped'
  <2>1. rollup' \subseteq Row /\ Counts(New) \subseteq UsageEvent
    <3>1. New \subseteq Row /\ rollup \subseteq Row
      BY <1>1, <1>2, PassFields DEF RollupTyped
    <3> QED
      BY <1>3, <3>1 DEF Row, Counts
  <2>2. counted \subseteq UsageEvent
    BY <1>1 DEF RollupTyped
  <2> QED
    BY <1>1, <1>3, <1>5, <1>6, <2>1, <2>2 DEF RollupTyped, Row, Pass
<1>14. ASSUME NEW q \in Pod PROVE InTime(q)'
  <2>1. CASE q = p
    BY <1>4, <1>5, <2>1 DEF InTime
  <2>2. CASE q # p
    <3>1. pass'[q] = pass[q] /\ InTime(q)
      BY <1>1, <1>5, <2>2
    <3>2. pass[q].pc = "inserting" =>
            \A e \in pass[q].snapshot : e \in UsageEvent /\ usage'[e].at = pass[q].day /\ Landed(e)'
      BY <1>6, <3>1 DEF InTime
    <3> QED
      BY <1>3, <3>1, <3>2 DEF InTime, Ins, Del
  <2> QED
    BY <2>1, <2>2
<1>15. RowsRight'
  <2>1. \A r \in rollup' : r \in rollup \ Dl \/ r \in New
    BY <1>3
  <2>2. \A r \in rollup' : RowOK(r)'
    BY <1>1, <1>2, <1>7, <2>1 DEF RowsRight
  <2>3. OnePass(rollup')
    <3> SUFFICES ASSUME NEW r \in rollup', NEW s \in rollup', r.day = s.day
                 PROVE  r.by = s.by /\ (r # s => ~SameKey(r, s))
      BY DEF OnePass
    <3>1. CASE r \in New /\ s \in New
      BY <1>1, <1>2, <3>1 DEF RowsRight, OnePass
    <3>2. CASE r \in rollup \ Dl /\ s \in rollup \ Dl
      BY <1>1, <3>2 DEF RowsRight, OnePass
    <3>3. ASSUME NEW x \in rollup \ Dl, NEW y \in New, x.day = y.day PROVE FALSE
      <4>1. y.day \in Int /\ y \in Ins(p, y.day) /\ x \in On(y.day)
        BY <1>2, <1>8, <3>3 DEF Ins, On
      <4>2. On(y.day) \subseteq Dl
        BY <1>9, <4>1
      <4> QED
        BY <3>3, <4>1, <4>2
    <3> QED
      BY <2>1, <3>1, <3>2, <3>3
  <2>4. ASSUME NEW q \in Pod
        PROVE  /\ \A r \in pass'[q].inserted : RowOK(r)' /\ r.by = q
               /\ OnePass(pass'[q].inserted)
               /\ pass'[q].deleted \subseteq rollup'
               /\ \A s \in Pod \ {q} : pass'[q].deleted \cap pass'[s].deleted = {}
    <3>1. CASE q = p
      BY <1>4, <1>5, <3>1 DEF OnePass
    <3>2. CASE q # p
      <4>1. /\ pass'[q] = pass[q] /\ pass[q].deleted \subseteq rollup /\ Dl \cap pass[q].deleted = {}
            /\ \A r \in pass[q].inserted : RowOK(r) /\ r.by = q
            /\ OnePass(pass[q].inserted)
        BY <1>1, <1>2, <1>5, <3>2 DEF RowsRight
      <4>2. pass'[q].deleted \subseteq rollup'
        BY <1>3, <1>8, <4>1
      <4>3. \A s \in Pod \ {q} : pass'[q].deleted \cap pass'[s].deleted = {}
        BY <1>1, <1>4, <1>5, <4>1 DEF RowsRight
      <4> QED
        BY <1>7, <4>1, <4>2, <4>3
    <3> QED
      BY <3>1, <3>2
  <2> QED
    BY <2>2, <2>3, <2>4 DEF RowsRight, OnePass
<1>16. ASSUME NEW d \in Int
       PROVE  /\ Ins(p, d)' = {} /\ Del(p, d)' = {} /\ Seen(p, d)' = {}
              /\ \A q \in Pod \ {p} :
                   /\ Ins(q, d)' = Ins(q, d) /\ Del(q, d)' = Del(q, d) /\ Seen(q, d)' = Seen(q, d)
                   /\ Finished(q, d)' = Finished(q, d)
                   /\ Counts(Ins(q, d))' = Counts(Ins(q, d))
              /\ Counts(On(d))' = Counts(On(d)')
  <2>1. Ins(p, d)' = {} /\ Del(p, d)' = {} /\ Seen(p, d)' = {}
    BY <1>4, <1>5 DEF Ins, Del, Seen, Counts
  <2>2. \A q \in Pod \ {p} :
          /\ Ins(q, d)' = Ins(q, d) /\ Del(q, d)' = Del(q, d) /\ Seen(q, d)' = Seen(q, d)
          /\ Finished(q, d)' = Finished(q, d)
          /\ Counts(Ins(q, d))' = Counts(Ins(q, d))
    BY <1>5 DEF Ins, Del, Seen, Counts, Finished
  <2>3. Counts(On(d))' = Counts(On(d)')
    BY DEF Counts
  <2> QED
    BY <2>1, <2>2, <2>3
<1>17. ReadsGrow'
  <2> SUFFICES ASSUME NEW d \in Int, NEW q \in Pod
               PROVE  /\ Comparable(Seen(q, d)', Counts(On(d))')
                      /\ \A s \in Pod : Comparable(Seen(q, d)', Seen(s, d)')
    BY DEF ReadsGrow, Comparable
  <2>1. \A S : Comparable({}, S) /\ Comparable(S, {})
    BY DEF Comparable
  <2>2. CASE q = p
    BY <1>16, <2>1, <2>2
  <2>3. CASE q # p
    <3>1. Counts(On(d)') \in {Counts(On(d)), {}, Seen(p, d)}
      <4>1. Counts({}) = {}
        BY DEF Counts
      <4> QED
        BY <1>9, <1>10, <1>11, <4>1
    <3>2. /\ Comparable(Seen(q, d), Counts(On(d)))
          /\ \A s \in Pod : Comparable(Seen(q, d), Seen(s, d))
      BY <1>1 DEF ReadsGrow
    <3> QED
      BY <1>16, <2>1, <2>3, <3>1, <3>2
  <2> QED
    BY <2>2, <2>3
<1>18. Replaces'
  <2> SUFFICES ASSUME NEW d \in Int, NEW q \in Pod
               PROVE  /\ pass'[q].pc = "inserting" /\ pass'[q].day = d /\ Del(q, d)' # {} =>
                           Counts(On(d))' \subseteq pass'[q].snapshot
                      /\ Finished(q, d)' /\ (Del(q, d)' # {} \/ Ins(q, d)' # {}) =>
                           On(d)' \subseteq pass'[q].deleted
                           /\ Counts(On(d))' \subseteq Counts(Ins(q, d))'
                      /\ \A s \in Pod \ {q} : Ins(q, d)' = {} \/ Ins(s, d)' = {}
    BY DEF Replaces
  <2>1. CASE q = p
    BY <1>16, <2>1
  <2>2. CASE q # p
    <3>1. /\ pass[q].pc = "inserting" /\ pass[q].day = d /\ Del(q, d) # {} =>
               Counts(On(d)) \subseteq pass[q].snapshot
          /\ Finished(q, d) /\ (Del(q, d) # {} \/ Ins(q, d) # {}) =>
               On(d) \subseteq pass[q].deleted /\ Counts(On(d)) \subseteq Counts(Ins(q, d))
          /\ \A s \in Pod \ {q} : Ins(q, d) = {} \/ Ins(s, d) = {}
      BY <1>1 DEF Replaces
    <3>2. \A s \in Pod \ {q} : Ins(q, d)' = {} \/ Ins(s, d)' = {}
      BY <1>16, <2>2, <3>1
    <3>3. pass'[q] = pass[q]
      BY <1>5, <2>2
    <3>4. CASE Del(p, d) # {} \/ Ins(p, d) # {}
      <4>1. Del(q, d) = {} /\ (Finished(q, d) => Ins(q, d) = {})
        BY <1>12, <2>2, <3>4
      <4> QED
        BY <1>16, <2>2, <3>2, <4>1
    <3>5. CASE Del(p, d) = {} /\ Ins(p, d) = {}
      <4>1. On(d)' \subseteq On(d) /\ Counts(On(d)') \subseteq Counts(On(d))
        BY <1>11, <3>5 DEF Counts
      <4> QED
        BY <1>16, <2>2, <3>1, <3>2, <3>3, <4>1
    <3> QED
      BY <3>4, <3>5
  <2> QED
    BY <2>1, <2>2
<1>19. CountedStays' /\ \A e \in counted' : Landed(e)'
  <2> SUFFICES ASSUME NEW e \in counted'
               PROVE  /\ Landed(e)'
                      /\ usage'[e].at >= today' - KeepRollups =>
                           \E r \in rollup' : r.day = usage'[e].at /\ e \in r.of
    BY DEF CountedStays
  <2>1. CASE e \in Counts(New)
    <3>1. PICK r \in New : e \in r.of
      BY <2>1 DEF Counts
    <3>2. RowOK(r) /\ ~Expired(r)
      BY <1>1, <1>2, <1>8, <3>1 DEF RowsRight
    <3>3. e \in UsageEvent /\ usage[e].at = r.day /\ Landed(e)
      BY <3>1, <3>2 DEF RowOK
    <3> QED
      BY <1>3, <1>6, <3>1, <3>2, <3>3
  <2>2. CASE e \in counted
    <3>1. e \in UsageEvent /\ Landed(e) /\ Landed(e)' /\ usage'[e].at = usage[e].at
      BY <1>1, <1>6, <2>2 DEF RollupInv, RollupTyped
    <3>2. ASSUME usage'[e].at >= today' - KeepRollups
          PROVE  \E r \in rollup' : r.day = usage'[e].at /\ e \in r.of
      <4>1. PICK d \in Int : d = usage[e].at
        BY <1>6, <3>1
      <4>2. PICK r \in rollup : r.day = d /\ e \in r.of
        BY <1>3, <2>2, <3>1, <3>2, <4>1 DEF RollupInv, CountedStays
      <4>3. CASE Del(p, d) = {} /\ Ins(p, d) = {}
        <5>1. r \notin Dl
          BY <1>2, <4>2, <4>3 DEF Del
        <5>2. ~Expired(r)
          BY <1>1, <1>3, <3>1, <3>2, <4>1, <4>2 DEF Expired
        <5> QED
          BY <1>3, <3>1, <4>1, <4>2, <5>1, <5>2
      <4>4. CASE Del(p, d) # {} \/ Ins(p, d) # {}
        <5>1. e \in Counts(On(d)) /\ Counts(On(d)) \subseteq Counts(Ins(p, d))
          BY <1>9, <4>2, <4>4 DEF On, Counts
        <5>2. PICK s \in Ins(p, d) : e \in s.of
          BY <5>1 DEF Counts
        <5>3. s \in rollup' /\ s.day = d
          BY <1>10, <4>4, <5>2 DEF On, Ins
        <5> QED
          BY <3>1, <4>1, <5>2, <5>3
      <4> QED
        BY <4>3, <4>4
    <3> QED
      BY <3>1, <3>2
  <2> QED
    BY <1>3, <2>1, <2>2
<1>20. \A e \in UsageEvent : usage'[e].in = "purged" => usage'[e].at < today' - KeepEvents
  BY <1>3, <1>6
<1> QED
  BY <1>13, <1>14, <1>15, <1>17, <1>18, <1>19, <1>20 DEF RollupInv

\* Every step keeps the invariant.
LEMMA RollupStep == RollupInv /\ [RollupNext]_rollupVars => RollupInv'
<1> SUFFICES ASSUME RollupInv, [RollupNext]_rollupVars PROVE RollupInv'
  OBVIOUS
<1>1. /\ RollupTyped /\ today \in Nat
      /\ \A p \in Pod : pass[p].pc # "asleep" => pass[p].base \in {today - 1, today}
  BY DEF RollupInv, RollupTyped, InTime
<1>2. CASE NextDay
  <2>1. today' = today + 1 /\ UNCHANGED <<account, usage, rollup, pass, counted>>
        /\ \A p \in Pod : pass[p].pc # "asleep" => pass[p].base = today
    BY <1>2 DEF NextDay
  <2>2. today' \in Nat /\ today <= today' /\ today = today' - 1
    BY <1>1, <2>1
  <2> QED
    BY <1>1, <2>1, <2>2, WorldMoves DEF RollupTyped, Landed
<1>3. ASSUME NEW e \in UsageEvent, Record(e) PROVE RollupInv'
  <2>1. /\ usage[e].in = "none" /\ usage' = [usage EXCEPT ![e] = [at |-> today, in |-> "open"]]
        /\ UNCHANGED <<today, account, rollup, pass, counted>>
    BY <1>3 DEF Record
  <2>2. /\ usage' \in [UsageEvent -> [at : Int, in : {"none", "open", "table", "purged"}]]
        /\ \A f \in UsageEvent : f # e => usage'[f] = usage[f]
        /\ usage'[e].in = "open"
    BY <1>1, <2>1 DEF RollupTyped
  <2>3. /\ \A f \in UsageEvent : Landed(f) => Landed(f)' /\ usage'[f].at = usage[f].at
        /\ \A f \in UsageEvent : usage'[f].in = "purged" => usage[f].in = "purged"
    BY <2>1, <2>2 DEF Landed
  <2>4. today <= today
    BY <1>1
  <2> QED
    BY <1>1, <2>1, <2>2, <2>3, <2>4, WorldMoves
<1>4. ASSUME NEW e \in UsageEvent, Land(e) PROVE RollupInv'
  <2>1. /\ usage[e].in = "open" /\ usage' = [usage EXCEPT ![e].in = "table"]
        /\ UNCHANGED <<today, account, rollup, pass, counted>>
    BY <1>4 DEF Land
  <2>2. /\ usage' \in [UsageEvent -> [at : Int, in : {"none", "open", "table", "purged"}]]
        /\ \A f \in UsageEvent : f # e => usage'[f] = usage[f]
        /\ usage'[e].in = "table" /\ usage'[e].at = usage[e].at
    BY <1>1, <2>1 DEF RollupTyped
  <2>3. /\ \A f \in UsageEvent : Landed(f) => Landed(f)' /\ usage'[f].at = usage[f].at
        /\ \A f \in UsageEvent : usage'[f].in = "purged" => usage[f].in = "purged"
    BY <2>1, <2>2 DEF Landed
  <2>4. today <= today
    BY <1>1
  <2> QED
    BY <1>1, <2>1, <2>2, <2>3, <2>4, WorldMoves
<1>5. CASE UNCHANGED rollupVars
  <2>1. UNCHANGED <<today, account, usage, rollup, pass, counted>> /\ today <= today
    BY <1>1, <1>5 DEF rollupVars
  <2> QED
    BY <1>1, <2>1, WorldMoves DEF RollupTyped, Landed
<1> QED
  BY <1>2, <1>3, <1>4, <1>5, WakeKeeps, StartDeleteKeeps, EndDeleteKeeps, StartInsertKeeps,
     EndInsertKeeps, CommitKeeps, RollBackKeeps DEF RollupNext

\* However the passes of the pods overlap, fail and repeat, what one of them has
\* committed as counted no later one loses.
THEOREM NothingUncounted == RollupSpec => []CountedStays
<1>1. RollupInv => CountedStays
  BY DEF RollupInv
<1> QED
  BY <1>1, RollupInitial, RollupStep, PTL DEF RollupSpec

\* ... and the rows of a day are of one pass, and count no event twice.
THEOREM NoMixture == RollupSpec => []OnePassPerDay
<1>1. RollupInv => OnePassPerDay
  <2> SUFFICES ASSUME RollupInv, NEW r \in rollup, NEW s \in rollup, r.day = s.day
               PROVE  r.by = s.by /\ (r # s => ~SameKey(r, s) /\ r.of \cap s.of = {})
    BY DEF OnePassPerDay
  <2>1. RowOK(r) /\ RowOK(s) /\ r.by = s.by /\ (r # s => ~SameKey(r, s))
    BY DEF RollupInv, RowsRight, OnePass
  <2>2. ASSUME NEW e \in r.of \cap s.of PROVE SameKey(r, s)
    BY <2>1, <2>2 DEF RowOK, SameKey
  <2> QED
    BY <2>1, <2>2
<1> QED
  BY <1>1, RollupInitial, RollupStep, PTL DEF RollupSpec

(* ------------------------- chains of responses ------------------------- *)

\* There is a row for the response, or a reason why there is none.
Accounted(p) == request[p].way # "whole" \/ p \in lost

\* A response is done when it is stored or there is a reason not to; a streamed one
\* is shown before.  What a request looked up stays named in it, and was not found
\* for such a reason only.
ChainInv ==
    /\ DOMAIN pc = Response /\ DOMAIN request = Response
    /\ DOMAIN found = Response /\ DOMAIN histories = Response
    /\ \A r \in Response :
         /\ pc[r] = "saving late" => request[r].way = "stream"
         /\ pc[r] = "done" => histories[r].stored \/ Accounted(r)
         /\ pc[r] \in {"loading", "not found"} =>
              LET p == request[r].previous
              IN \/ p = NoResponse
                 \/ p \in Response /\ pc[p] \in {"saving late", "done"}
         /\ pc[r] = "loading" /\ ~found[r].stored =>
              request[r].previous # NoResponse /\ Accounted(request[r].previous)
         /\ pc[r] = "not found" =>
              request[r].previous # NoResponse /\ Accounted(request[r].previous)

\* At first nobody has asked.
LEMMA ChainInitial == ResponsesInit => ChainInv
BY DEF ResponsesInit, ChainInv

\* A request goes on; what others rely on stays as it is.
LEMMA RequestMoves ==
    ASSUME ChainInv, NEW r \in Response, NEW label,
           pc' = [pc EXCEPT ![r] = label], UNCHANGED <<request, found>>,
           DOMAIN histories' = Response, \A q \in Response \ {r} : histories'[q] = histories[q],
           lost \subseteq lost', label # "loading",
           pc[r] \in {"saving late", "done"} => label \in {"saving late", "done"},
           label = "saving late" => request[r].way = "stream",
           label = "done" => histories'[r].stored \/ request[r].way # "whole" \/ r \in lost',
           label = "not found" => pc[r] = "loading" /\ ~found[r].stored
    PROVE  ChainInv'
<1>1. \A q \in Response : pc'[q] = IF q = r THEN label ELSE pc[q]
  BY DEF ChainInv
<1>2. DOMAIN pc' = Response
  BY DEF ChainInv
<1>3. \A q : Accounted(q) => Accounted(q)'
  BY DEF Accounted
<1>4. ASSUME NEW q \in Response
      PROVE  /\ pc'[q] = "saving late" => request'[q].way = "stream"
             /\ pc'[q] = "done" => histories'[q].stored \/ Accounted(q)'
             /\ pc'[q] = "loading" /\ ~found'[q].stored =>
                  request'[q].previous # NoResponse /\ Accounted(request[q].previous)'
             /\ pc'[q] = "not found" =>
                  request'[q].previous # NoResponse /\ Accounted(request[q].previous)'
  <2>1. Accounted(request[q].previous) => Accounted(request[q].previous)'
    BY DEF Accounted
  <2>2. CASE q = r
    BY <1>1, <2>1, <2>2 DEF ChainInv, Accounted
  <2>3. CASE q # r
    BY <1>1, <1>3, <2>1, <2>3 DEF ChainInv
  <2> QED
    BY <2>2, <2>3
<1>5. ASSUME NEW q \in Response, pc'[q] \in {"loading", "not found"}, NEW p,
             p = request[q].previous, p # NoResponse
      PROVE  p \in Response /\ pc'[p] \in {"saving late", "done"}
  <2>1. p \in Response /\ pc[p] \in {"saving late", "done"}
    BY <1>1, <1>5 DEF ChainInv
  <2> QED
    BY <1>1, <2>1
<1>6. ASSUME NEW q \in Response, pc'[q] \in {"loading", "not found"}
      PROVE  \/ request'[q].previous = NoResponse
             \/ /\ request'[q].previous \in Response
                /\ pc'[request'[q].previous] \in {"saving late", "done"}
  BY <1>5, <1>6
<1>7. DOMAIN request' = Response /\ DOMAIN found' = Response
  BY DEF ChainInv
<1> QED
  BY <1>2, <1>4, <1>6, <1>7 DEF ChainInv

\* Every step keeps the invariant.
LEMMA ChainStep == ChainInv /\ [ResponsesNext]_responsesVars => ChainInv'
<1> SUFFICES ASSUME ChainInv, [ResponsesNext]_responsesVars PROVE ChainInv'
  OBVIOUS
<1>1. DOMAIN pc = Response /\ DOMAIN request = Response /\ DOMAIN found = Response
      /\ DOMAIN histories = Response
  BY DEF ChainInv
<1>2. ASSUME NEW r \in Response, Ask(r) PROVE ChainInv'
  <2>1. PICK p \in Known \cup {NoResponse}, input \in Inputs(r), way \in Ways(r) :
          /\ request' = [request EXCEPT ![r] = [previous |-> p, input |-> input, way |-> way]]
          /\ found' = [found EXCEPT ![r] = IF p = NoResponse THEN History(<<>>) ELSE histories[p]]
    BY <1>2 DEF Ask
  <2>2. /\ pc[r] = "idle" /\ pc' = [pc EXCEPT ![r] = "loading"]
        /\ UNCHANGED <<histories, lost>>
    BY <1>2 DEF Ask, Goto
  <2>3. /\ \A q \in Response : pc'[q] = IF q = r THEN "loading" ELSE pc[q]
        /\ \A q \in Response : q # r => request'[q] = request[q] /\ found'[q] = found[q]
        /\ request'[r].previous = p
        /\ found'[r] = IF p = NoResponse THEN History(<<>>) ELSE histories[p]
        /\ DOMAIN pc' = Response /\ DOMAIN request' = Response
        /\ DOMAIN found' = Response /\ DOMAIN histories' = Response
    BY <1>1, <2>1, <2>2
  <2>4. p # NoResponse => /\ p \in Response /\ p # r /\ pc[p] \in {"saving late", "done"}
                          /\ histories[p].stored \/ Accounted(p)
    <3> SUFFICES ASSUME p # NoResponse
                 PROVE  /\ p \in Response /\ p # r /\ pc[p] \in {"saving late", "done"}
                        /\ histories[p].stored \/ Accounted(p)
      OBVIOUS
    <3>1. p \in Response /\ pc[p] \in {"saving late", "done"}
      BY <2>1 DEF Known, Shown
    <3> QED
      BY <2>2, <3>1 DEF ChainInv, Accounted
  <2>5. History(<<>>).stored
    BY DEF History
  <2>6. ASSUME NEW q \in Response, q # r
        PROVE  /\ pc'[q] = "saving late" => request'[q].way = "stream"
               /\ pc'[q] = "done" => histories'[q].stored \/ Accounted(q)'
    BY <2>2, <2>3, <2>6 DEF ChainInv, Accounted
  <2>7. ASSUME NEW q \in Response, NEW p0, p0 = request'[q].previous,
               pc'[q] \in {"loading", "not found"}, p0 # NoResponse
        PROVE  /\ p0 \in Response /\ pc'[p0] \in {"saving late", "done"}
               /\ pc'[q] = "not found" \/ ~found'[q].stored => Accounted(p0)'
    <3>1. CASE q = r
      BY <2>2, <2>3, <2>4, <2>7, <3>1 DEF Accounted
    <3>2. CASE q # r
      <4>1. /\ pc[q] = pc'[q] /\ request'[q] = request[q] /\ found'[q] = found[q]
            /\ p0 \in Response /\ pc[p0] \in {"saving late", "done"}
            /\ pc[q] = "not found" \/ ~found[q].stored => Accounted(p0)
        BY <2>3, <2>7, <3>2 DEF ChainInv
      <4>2. p0 # r
        BY <2>2, <4>1
      <4> QED
        BY <2>2, <2>3, <4>1, <4>2 DEF Accounted
    <3> QED
      BY <3>1, <3>2
  <2>8. ASSUME NEW q \in Response,
               pc'[q] = "not found" \/ (pc'[q] = "loading" /\ ~found'[q].stored)
        PROVE  request'[q].previous # NoResponse
    <3>1. CASE q = r
      BY <2>3, <2>5, <2>8, <3>1
    <3>2. CASE q # r
      <4>1. /\ pc[q] = "not found" \/ (pc[q] = "loading" /\ ~found[q].stored)
            /\ request'[q] = request[q]
        BY <2>3, <2>8, <3>2
      <4>2. request[q].previous # NoResponse
        BY <4>1 DEF ChainInv
      <4> QED
        BY <4>1, <4>2
    <3> QED
      BY <3>1, <3>2
  <2>9. ASSUME NEW q \in Response, pc'[q] \in {"loading", "not found"}
        PROVE  \/ request'[q].previous = NoResponse
               \/ /\ request'[q].previous \in Response
                  /\ pc'[request'[q].previous] \in {"saving late", "done"}
    BY <2>7, <2>9
  <2>10. ASSUME NEW q \in Response,
                pc'[q] = "not found" \/ (pc'[q] = "loading" /\ ~found'[q].stored)
         PROVE  \/ request'[request'[q].previous].way # "whole"
                \/ request'[q].previous \in lost'
    <3>1. PICK p0 : p0 = request'[q].previous
      OBVIOUS
    <3>2. Accounted(p0)'
      BY <2>7, <2>8, <2>10, <3>1
    <3> QED
      BY <3>1, <3>2 DEF Accounted
  <2> QED
    BY <2>3, <2>6, <2>8, <2>9, <2>10 DEF ChainInv, Accounted
<1>3. ASSUME NEW r \in Response, Build(r) PROVE ChainInv'
  <2>1. PICK label \in {"refused", "calling"} : pc' = [pc EXCEPT ![r] = label]
    BY <1>3 DEF Build, Goto
  <2>2. pc[r] = "loading" /\ UNCHANGED <<request, found, histories, lost>>
    BY <1>3 DEF Build
  <2> QED
    BY <1>1, <2>1, <2>2, RequestMoves
<1>4. ASSUME NEW r \in Response, NotFound(r) PROVE ChainInv'
  <2>1. /\ pc[r] = "loading" /\ ~found[r].stored /\ pc' = [pc EXCEPT ![r] = "not found"]
        /\ UNCHANGED <<request, found, histories, lost>>
    BY <1>4 DEF NotFound, Goto
  <2> QED
    BY <1>1, <2>1, RequestMoves
<1>5. ASSUME NEW r \in Response, Reply(r) PROVE ChainInv'
  <2>1. PICK label : label = IF request[r].way = "unstored" THEN "done" ELSE Saving(r)
    OBVIOUS
  <2>2. /\ pc[r] = "calling" /\ pc' = [pc EXCEPT ![r] = label]
        /\ UNCHANGED <<request, found, histories, lost>>
    BY <1>5, <2>1 DEF Reply, Goto
  <2>3. /\ label \in {"done", "saving", "saving late"}
        /\ label = "saving late" => request[r].way = "stream"
        /\ label = "done" => request[r].way # "whole"
    BY <2>1 DEF Saving
  <2> QED
    BY <1>1, <2>2, <2>3, RequestMoves
<1>6. ASSUME NEW r \in Response, Fail(r) PROVE ChainInv'
  <2>1. /\ pc[r] = "calling" /\ pc' = [pc EXCEPT ![r] = "failed"]
        /\ UNCHANGED <<request, found, histories, lost>>
    BY <1>6 DEF Fail, Goto
  <2> QED
    BY <1>1, <2>1, RequestMoves
<1>7. ASSUME NEW r \in Response, Save(r) PROVE ChainInv'
  <2>1. /\ pc[r] \in {"saving", "saving late"} /\ pc' = [pc EXCEPT ![r] = "done"]
        /\ UNCHANGED <<request, found>>
    BY <1>7 DEF Save, Goto
  <2>2. PICK grown : grown = Append(talk[r], AssistantTurn(replied[r]))
    OBVIOUS
  <2>3. \/ histories' = [histories EXCEPT ![r] = History(grown)] /\ UNCHANGED lost
        \/ lost' = lost \cup {r} /\ UNCHANGED histories
    BY <1>7, <2>2 DEF Save, Lose
  <2>4. /\ DOMAIN histories' = Response /\ \A q \in Response \ {r} : histories'[q] = histories[q]
        /\ lost \subseteq lost' /\ (histories'[r].stored \/ r \in lost')
    BY <1>1, <2>3 DEF History
  <2> QED
    BY <2>1, <2>4, RequestMoves
<1>8. ASSUME NEW r \in Response, Unsaved(r) PROVE ChainInv'
  <2>1. /\ pc[r] \in {"saving", "saving late"} /\ pc' = [pc EXCEPT ![r] = "done"]
        /\ UNCHANGED <<request, found, histories>> /\ lost' = lost \cup {r}
    BY <1>8 DEF Unsaved, Goto, Lose
  <2> QED
    BY <1>1, <2>1, RequestMoves
<1>9. ASSUME NEW r \in Response, Expire(r) PROVE ChainInv'
  <2>1. /\ histories' = [histories EXCEPT ![r] = NoHistory] /\ lost' = lost \cup {r}
        /\ UNCHANGED <<request, pc, found>>
    BY <1>9 DEF Expire, Lose
  <2>2. \A q : Accounted(q) => request'[q].way # "whole" \/ q \in lost'
    BY <2>1 DEF Accounted
  <2>3. DOMAIN histories' = Response /\ \A q \in Response : q # r => histories'[q] = histories[q]
    BY <1>1, <2>1
  <2>4. r \in lost'
    BY <2>1
  <2> QED
    BY <2>1, <2>2, <2>3, <2>4 DEF ChainInv, Accounted
<1>10. CASE UNCHANGED responsesVars
  BY <1>10 DEF responsesVars, ChainInv, Accounted
<1> QED
  BY <1>2, <1>3, <1>4, <1>5, <1>6, <1>7, <1>8, <1>9, <1>10 DEF ResponsesNext

\* Whoever was shown a whole response can build upon it, however saves fail, rows
\* expire and requests follow each other, unless its row is gone.
THEOREM ChainsLead == ResponsesSpec => []ChainFound
<1>1. ChainInv => ChainFound
  BY DEF ChainInv, ChainFound, Accounted
<1> QED
  BY <1>1, ChainInitial, ChainStep, PTL DEF ResponsesSpec

(* ------------------- the events of a response's stream ----------------- *)

Items == Seq([kind : {"message", "function_call"}, body : Text])

\* Where stream_events is tells the event it has sent last; until something is
\* told, the text is empty.
StreamPlaces ==
    /\ at \in {"created", "in_progress", "part", "delta", "empty", "empty.done"} => text = <<>>
    /\ at = "reading" /\ (~started \/ event.type = "part.added") => text = <<>>
    /\ at = "delta" => delta # <<>>
    /\ delta \in Text /\ started \in BOOLEAN
    /\ at \in {"created", "in_progress"} => ~started
    /\ at \in {"part", "delta"} => started
    /\ \/ at = "created" /\ event.type = "none"
       \/ at = "in_progress" /\ event.type = "created"
       \/ at = "reading" /\ ~started /\ event.type = "in_progress"
       \/ at = "reading" /\ started /\ event.type \in {"part.added", "text.delta"}
       \/ at \in {"part", "empty"} /\ event.type = "item.added"
       \/ at \in {"delta", "empty.done"} /\ event.type = "part.added"
       \/ at = "part.done" /\ event.type = "text.done"
       \/ at = "item.done" /\ event.type = "part.done"
       \/ at = "completed" /\ event.type = "item.done"
       \/ at = "end" /\ event.type \in {"completed", "failed"}

\* Likewise for replay_events and its current item.
ReplayPlaces ==
    /\ output \in Items /\ output # <<>> /\ idx \in 1 .. Len(output) + 1
    /\ \/ at = "created" /\ event.type = "none" /\ idx = 1
       \/ at = "in_progress" /\ event.type = "created" /\ idx = 1
       \/ at = "item" /\ event.type \in {"in_progress", "item.done"}
       \/ at = "end" /\ event.type = "completed"
       \/ /\ idx <= Len(output)
          /\ \/ /\ Current.kind = "message"
                /\ \/ at = "part" /\ event.type = "item.added"
                   \/ at = "delta" /\ event.type = "part.added" /\ Current.body # <<>>
                   \/ at = "text" /\ event.type = "part.added" /\ Current.body = <<>>
                   \/ at = "text" /\ event.type = "text.delta"
                   \/ at = "part.done" /\ event.type = "text.done"
                   \/ at = "item.done" /\ event.type = "part.done"
             \/ /\ Current.kind = "function_call"
                /\ \/ at = "delta" /\ event.type = "item.added"
                   \/ at = "arguments" /\ event.type = "arguments.delta"
                   \/ at = "item.done" /\ event.type = "arguments.done"

EventsInv ==
    \/ source = "stream" /\ StreamPlaces
    \/ source = "replay" /\ ReplayPlaces

LEMMA TextsAreSequences ==
    /\ <<>> \in Text
    /\ \A said \in Text : <<>> \o said = said
    /\ SeqOf(Piece, 1) \subseteq Text
    /\ \A p \in Piece : <<p>> \in Text
<1>1. MaxChunks \in Nat \ {0}
  BY OutputsAssumption
<1>2. \A n \in 0 .. MaxChunks : [1 .. n -> Piece] \subseteq Text
  BY DEF Text, SeqOf
<1>3. <<>> \in [1 .. 0 -> Piece] /\ 0 \in 0 .. MaxChunks /\ 1 \in 0 .. MaxChunks
  BY <1>1
<1>4. \A p \in Piece : <<p>> \in [1 .. 1 -> Piece]
  OBVIOUS
<1>5. SeqOf(Piece, 1) \subseteq Text
  <2> SUFFICES ASSUME NEW n \in 0 .. 1, NEW s \in [1 .. n -> Piece] PROVE s \in Text
    BY DEF SeqOf
  <2>1. n \in 0 .. MaxChunks
    BY <1>1
  <2> QED
    BY <1>2, <2>1
<1>6. \A said \in Text : said \in Seq(Piece)
  <2> SUFFICES ASSUME NEW n \in 0 .. MaxChunks, NEW s \in [1 .. n -> Piece] PROVE s \in Seq(Piece)
    BY DEF Text, SeqOf
  <2>1. n \in Nat
    BY <1>1
  <2> QED
    BY <2>1, SeqDef
<1>7. \A said \in Text : <<>> \o said = said
  BY <1>6, ConcatEmptySeq
<1>8. <<>> \in Text
  BY <1>2, <1>3
<1>9. \A p \in Piece : <<p>> \in Text
  BY <1>2, <1>3, <1>4
<1> QED
  BY <1>5, <1>7, <1>8, <1>9

LEMMA EventsInitial == EventsInit => EventsInv
<1> SUFFICES ASSUME EventsInit PROVE EventsInv
  OBVIOUS
<1>1. event.type = "none" /\ at = "created" /\ idx = 1 /\ text = <<>> /\ delta = <<>> /\ started = FALSE
  BY DEF EventsInit, Event
<1>2. CASE source = "stream"
  BY <1>1, <1>2, TextsAreSequences DEF EventsInv, StreamPlaces
<1>3. CASE source = "replay" /\ output \in Outputs
  <2>1. output \in Items /\ output # <<>>
    BY <1>3, OutputsAssumption DEF Items
  <2>2. 1 \in 1 .. Len(output) + 1
    BY <2>1 DEF Items
  <2> QED
    BY <1>1, <1>3, <2>1, <2>2 DEF EventsInv, ReplayPlaces
<1> QED
  BY <1>2, <1>3 DEF EventsInit

LEMMA ProtocolBegins == EventsInit => Protocol!Init
<1> SUFFICES ASSUME EventsInit PROVE Protocol!Init
  OBVIOUS
<1>1. event = Event("none", 0, <<>>) /\ event.type = "none" /\ seq = 0 /\ idx = 1
  BY DEF EventsInit, Event
<1>2. Phase = "silent" /\ OpenItem = "none"
  BY <1>1 DEF Phase, OpenItem, Between
<1>4. PartStage = "none"
  BY <1>1 DEF PartStage
<1>5. Heard = <<>>
  <2>1. event.type \in Between \cup {"item.added", "part.added"}
    BY <1>1 DEF Between
  <2> QED
    BY <2>1 DEF Heard
<1>3. Closed = <<>>
  <2>1. SubSeq(output, 1, 0) = <<>>
    BY SubSeqEmpty
  <2> QED
    BY <1>1, <2>1 DEF Closed
<1> QED
  BY <1>1, <1>2, <1>3, <1>4, <1>5 DEF Protocol!Init, Protocol!NoEvent, Protocol!Event, Event

\* The state of the protocol after each type of event of a generated stream.
StreamShows(type, ph, it, pa, h, cl) ==
    source = "stream" /\ event.type = type =>
        Phase = ph /\ OpenItem = it /\ PartStage = pa /\ Heard = h /\ Closed = cl

StreamView ==
    /\ StreamShows("none", "silent", "none", "none", <<>>, <<>>)
    /\ StreamShows("created", "created", "none", "none", <<>>, <<>>)
    /\ StreamShows("in_progress", "open", "none", "none", <<>>, <<>>)
    /\ StreamShows("item.added", "open", "message", "none", <<>>, <<>>)
    /\ StreamShows("part.added", "open", "message", "open", <<>>, <<>>)
    /\ StreamShows("text.delta", "open", "message", "open", text, <<>>)
    /\ StreamShows("text.done", "open", "message", "told", text, <<>>)
    /\ StreamShows("part.done", "open", "message", "closed", text, <<>>)
    /\ StreamShows("item.done", "open", "none", "none", <<>>, <<Message(text)>>)
    /\ StreamShows("completed", "completed", "none", "none", <<>>, <<Message(text)>>)
    /\ StreamShows("failed", "failed", "none", "none", <<>>, <<>>)

LEMMA StreamViewHolds == StreamView
BY DEF StreamView, StreamShows, Phase, OpenItem, PartStage, Heard, Closed, Between

LEMMA StreamViewAfter == StreamView'
BY StreamViewHolds, PTL

LEMMA StreamPlacesKept ==
    ASSUME source = "stream", StreamPlaces, Created \/ InProgress \/ StreamStep
    PROVE  source' = "stream" /\ StreamPlaces'
<1>1. CASE Created
  BY <1>1 DEF Created, Yield, Event, StreamPlaces
<1>2. CASE InProgress
  BY <1>2 DEF InProgress, Yield, Event, StreamPlaces
<1>3. CASE FirstChunk
  BY <1>3, TextsAreSequences DEF FirstChunk, ItemAdded, Yield, Event, StreamPlaces
<1>4. CASE FirstPart
  BY <1>4 DEF FirstPart, PartAdded, Yield, Event, StreamPlaces
<1>5. CASE FirstDelta
  BY <1>5, TextsAreSequences DEF FirstDelta, Told, Yield, Event, StreamPlaces
<1>6. CASE LaterChunk
  BY <1>6 DEF LaterChunk, Told, Yield, Event, StreamPlaces
<1>7. CASE ChunksEnd
  BY <1>7 DEF ChunksEnd, ItemAdded, Yield, Event, StreamPlaces
<1>8. CASE EmptyItem
  BY <1>8 DEF EmptyItem, PartAdded, Yield, Event, StreamPlaces
<1>9. CASE Closing
  BY <1>9 DEF Closing, Yield, Event, StreamPlaces
<1>10. CASE Completed
  BY <1>10 DEF Completed, Yield, Event, StreamPlaces
<1>11. CASE ProviderFails
  BY <1>11 DEF ProviderFails, Event, StreamPlaces
<1> QED
  BY <1>1, <1>2, <1>3, <1>4, <1>5, <1>6, <1>7, <1>8, <1>9, <1>10, <1>11 DEF StreamStep

LEMMA StreamFollowsProtocol ==
    ASSUME source = "stream", StreamPlaces, Created \/ InProgress \/ StreamStep
    PROVE  [Protocol!Next]_(Protocol!protocolVars)
<1> USE DEF Yield, Event, Protocol!Emit, Protocol!Event
<1>0. StreamView /\ StreamView' /\ source' = "stream"
  BY StreamViewHolds, StreamViewAfter, StreamPlacesKept
<1>l. Len(<<>>) = 0 /\ Len(<<Message(text)>>) = 1
  OBVIOUS
<1>1. CASE Created
  <2>1. event.type = "none" /\ event'.type = "created"
    BY <1>1 DEF Created, StreamPlaces
  <2>2. Protocol!Created
    BY <1>0, <1>1, <1>l, <2>1 DEF Created, StreamView, StreamShows, Protocol!Created
  <2> QED
    BY <2>2 DEF Protocol!Next
<1>2. CASE InProgress
  <2>1. event.type = "created" /\ event'.type = "in_progress"
    BY <1>2 DEF InProgress, StreamPlaces
  <2>2. Protocol!InProgress
    BY <1>0, <1>2, <1>l, <2>1 DEF InProgress, StreamView, StreamShows, Protocol!InProgress
  <2> QED
    BY <2>2 DEF Protocol!Next
<1>3. CASE FirstChunk
  <2>1. event.type = "in_progress" /\ event'.type = "item.added"
    BY <1>3 DEF FirstChunk, ItemAdded, StreamPlaces
  <2>2. Protocol!ItemAdded
    BY <1>0, <1>3, <1>l, <2>1 DEF FirstChunk, ItemAdded, StreamView, StreamShows, Protocol!ItemAdded
  <2> QED
    BY <2>2 DEF Protocol!Next
<1>4. CASE FirstPart
  <2>1. event.type = "item.added" /\ event'.type = "part.added"
    BY <1>4 DEF FirstPart, PartAdded, StreamPlaces
  <2>2. Protocol!PartAdded
    BY <1>0, <1>4, <1>l, <2>1 DEF FirstPart, PartAdded, StreamView, StreamShows, Protocol!PartAdded
  <2> QED
    BY <2>2 DEF Protocol!Next
<1>5. CASE FirstDelta
  <2>1. event.type = "part.added" /\ event'.type = "text.delta"
    BY <1>5 DEF FirstDelta, Told, StreamPlaces
  <2>2. text = <<>> /\ text' = text \o delta /\ delta \in Text \ {<<>>}
    BY <1>5 DEF FirstDelta, Told, StreamPlaces
  <2>3. Protocol!TextDelta
    BY <1>0, <1>5, <1>l, <2>1, <2>2 DEF FirstDelta, Told, StreamView, StreamShows, Protocol!TextDelta
  <2> QED
    BY <2>3 DEF Protocol!Next
<1>6. CASE LaterChunk
  <2>1. event.type \in {"part.added", "text.delta"} /\ event'.type = "text.delta"
    BY <1>6 DEF LaterChunk, Told, StreamPlaces
  <2>2. OpenItem = "message" /\ PartStage = "open" /\ Heard = text /\ Phase = "open" /\ Closed = <<>>
    BY <1>0, <1>6, <2>1 DEF LaterChunk, StreamView, StreamShows, StreamPlaces
  <2>3. PICK p \in Piece : Told(<<p>>)
    BY <1>6 DEF LaterChunk
  <2>4. <<p>> \in Text \ {<<>>}
    BY TextsAreSequences
  <2>5. Protocol!TextDelta
    BY <1>0, <1>l, <2>1, <2>2, <2>3, <2>4 DEF Told, StreamView, StreamShows, Protocol!TextDelta
  <2> QED
    BY <2>5 DEF Protocol!Next
<1>7. CASE ChunksEnd /\ started
  <2>1. event.type \in {"part.added", "text.delta"} /\ event'.type = "text.done"
    BY <1>7 DEF ChunksEnd, StreamPlaces
  <2>2. OpenItem = "message" /\ PartStage = "open" /\ Heard = text /\ Phase = "open" /\ Closed = <<>>
    BY <1>0, <1>7, <2>1 DEF ChunksEnd, StreamView, StreamShows, StreamPlaces
  <2>3. Protocol!TextDone
    BY <1>0, <1>7, <1>l, <2>1, <2>2 DEF ChunksEnd, StreamView, StreamShows, Protocol!TextDone
  <2> QED
    BY <2>3 DEF Protocol!Next
<1>8. CASE ChunksEnd /\ ~started
  <2>1. event.type = "in_progress" /\ event'.type = "item.added"
    BY <1>8 DEF ChunksEnd, ItemAdded, StreamPlaces
  <2>2. Protocol!ItemAdded
    BY <1>0, <1>8, <1>l, <2>1 DEF ChunksEnd, ItemAdded, StreamView, StreamShows, Protocol!ItemAdded
  <2> QED
    BY <2>2 DEF Protocol!Next
<1>9. CASE EmptyItem /\ at = "empty"
  <2>1. event.type = "item.added" /\ event'.type = "part.added"
    BY <1>9 DEF EmptyItem, PartAdded, StreamPlaces
  <2>2. Protocol!PartAdded
    BY <1>0, <1>9, <1>l, <2>1 DEF EmptyItem, PartAdded, StreamView, StreamShows, Protocol!PartAdded
  <2> QED
    BY <2>2 DEF Protocol!Next
<1>10. CASE EmptyItem /\ at = "empty.done"
  <2>1. event.type = "part.added" /\ event'.type = "text.done" /\ text = <<>>
    BY <1>10 DEF EmptyItem, StreamPlaces
  <2>2. Protocol!TextDone
    BY <1>0, <1>10, <1>l, <2>1 DEF EmptyItem, StreamView, StreamShows, Protocol!TextDone
  <2> QED
    BY <2>2 DEF Protocol!Next
<1>11. CASE Closing /\ at = "part.done"
  <2>1. event.type = "text.done" /\ event'.type = "part.done"
    BY <1>11 DEF Closing, StreamPlaces
  <2>2. Protocol!PartDone
    BY <1>0, <1>11, <1>l, <2>1 DEF Closing, StreamView, StreamShows, Protocol!PartDone
  <2> QED
    BY <2>2 DEF Protocol!Next
<1>12. CASE Closing /\ at = "item.done"
  <2>1. event.type = "part.done" /\ event'.type = "item.done"
    BY <1>12 DEF Closing, StreamPlaces
  <2>2. Append(<<>>, Message(text)) = <<Message(text)>>
    OBVIOUS
  <2>3. Protocol!ItemDone
    BY <1>0, <1>12, <1>l, <2>1, <2>2 DEF Closing, StreamView, StreamShows, Protocol!ItemDone, Message
  <2> QED
    BY <2>3 DEF Protocol!Next
<1>13. CASE Completed
  <2>1. event.type = "item.done" /\ event'.type = "completed"
    BY <1>13 DEF Completed, StreamPlaces
  <2>2. <<Message(text)>> # <<>>
    OBVIOUS
  <2>3. Protocol!Completed
    BY <1>0, <1>13, <1>l, <2>1, <2>2 DEF Completed, StreamView, StreamShows, Protocol!Completed
  <2> QED
    BY <2>3 DEF Protocol!Next
<1>14. CASE ProviderFails
  <2>1. event.type \in {"in_progress", "part.added", "text.delta"} /\ event'.type = "failed"
    BY <1>14 DEF ProviderFails, StreamPlaces
  <2>2. Phase = "open" /\ Closed = <<>>
    BY <1>0, <2>1 DEF StreamView, StreamShows
  <2>3. Protocol!Failed
    BY <1>0, <1>14, <2>1, <2>2 DEF ProviderFails, StreamView, StreamShows, Protocol!Failed
  <2> QED
    BY <2>3 DEF Protocol!Next
<1> QED
  BY <1>1, <1>2, <1>3, <1>4, <1>5, <1>6, <1>7, <1>8, <1>9, <1>10, <1>11, <1>12, <1>13, <1>14
     DEF StreamStep, EmptyItem, Closing

\* The same for a stream that tells a complete response; its closed items are
\* those before the current one.
ReplayShows(type, ph, it, pa, h) ==
    source = "replay" /\ event.type = type =>
        Phase = ph /\ OpenItem = it /\ PartStage = pa /\ Heard = h

ReplayView ==
    /\ ReplayShows("none", "silent", "none", "none", <<>>)
    /\ ReplayShows("created", "created", "none", "none", <<>>)
    /\ ReplayShows("in_progress", "open", "none", "none", <<>>)
    /\ ReplayShows("item.added", "open", Current.kind, "none", <<>>)
    /\ ReplayShows("part.added", "open", Current.kind, "open", <<>>)
    /\ ReplayShows("text.delta", "open", Current.kind, "open", Current.body)
    /\ ReplayShows("text.done", "open", Current.kind, "told", Current.body)
    /\ ReplayShows("part.done", "open", Current.kind, "closed", Current.body)
    /\ ReplayShows("arguments.delta", "open", Current.kind, "open", Current.body)
    /\ ReplayShows("arguments.done", "open", Current.kind, "closed", Current.body)
    /\ ReplayShows("item.done", "open", "none", "none", <<>>)
    /\ ReplayShows("completed", "completed", "none", "none", <<>>)
    /\ source = "replay" => Closed = SubSeq(output, 1, idx - 1)

LEMMA ReplayViewHolds == ReplayView
BY DEF ReplayView, ReplayShows, Phase, OpenItem, PartStage, Heard, Closed, Between

LEMMA ReplayViewAfter == ReplayView'
BY ReplayViewHolds, PTL

\* What closing the current item does to the items that are closed.
LEMMA ClosedItems ==
    ASSUME NEW o \in Items, NEW i \in 1 .. Len(o) + 1
    PROVE  /\ Len(SubSeq(o, 1, i - 1)) = i - 1
           /\ i <= Len(o) => SubSeq(o, 1, i) = Append(SubSeq(o, 1, i - 1), o[i])
           /\ i > Len(o) => SubSeq(o, 1, i - 1) = o
           /\ i <= Len(o) => /\ o[i] = [kind |-> o[i].kind, body |-> o[i].body]
                             /\ o[i].body \in Text
<1>1. o \in Seq([kind : {"message", "function_call"}, body : Text]) /\ Len(o) \in Nat
  BY DEF Items
<1>2. Len(SubSeq(o, 1, i - 1)) = i - 1
  BY <1>1, SubSeqProperties
<1>3. i <= Len(o) => SubSeq(o, 1, i) = Append(SubSeq(o, 1, i - 1), o[i])
  BY <1>1, SubSeqRecursiveSecond
<1>4. i > Len(o) => SubSeq(o, 1, i - 1) = o
  BY <1>1, SubSeqFull
<1>5. i <= Len(o) => o[i] \in [kind : {"message", "function_call"}, body : Text]
  <2> SUFFICES ASSUME i <= Len(o)
               PROVE  o[i] \in [kind : {"message", "function_call"}, body : Text]
    OBVIOUS
  <2>1. i \in 1 .. Len(o)
    BY <1>1
  <2> QED
    BY <1>1, <2>1, ElementOfSeq
<1> QED
  BY <1>2, <1>3, <1>4, <1>5

LEMMA ReplayPlacesKept ==
    ASSUME source = "replay", ReplayPlaces, Created \/ InProgress \/ ReplayStep
    PROVE  source' = "replay" /\ ReplayPlaces'
<1> USE DEF Yield, Event, Tell
<1>0. Len(output) \in Nat /\ DOMAIN output = 1 .. Len(output)
  BY DEF ReplayPlaces, Items
<1>1. CASE Created
  BY <1>0, <1>1 DEF Created, ReplayPlaces
<1>2. CASE InProgress
  BY <1>0, <1>2 DEF InProgress, ReplayPlaces
<1>3. CASE ReplayStep /\ ReplayMessage
  BY <1>0, <1>3 DEF ReplayStep, ReplayMessage, ReplayPlaces, Current
<1>4. CASE ReplayStep /\ ReplayCall
  BY <1>0, <1>4 DEF ReplayStep, ReplayCall, ReplayPlaces, Current
<1>5. CASE ReplayStep /\ ReplayItemDone
  BY <1>0, <1>5 DEF ReplayStep, ReplayItemDone, ReplayPlaces, Current
<1>6. CASE ReplayStep /\ ReplayCompleted
  BY <1>0, <1>6 DEF ReplayStep, ReplayCompleted, ReplayPlaces, Current
<1> QED
  BY <1>1, <1>2, <1>3, <1>4, <1>5, <1>6 DEF ReplayStep

LEMMA ReplayFollowsProtocol ==
    ASSUME source = "replay", ReplayPlaces, Created \/ InProgress \/ ReplayStep
    PROVE  [Protocol!Next]_(Protocol!protocolVars)
<1> USE DEF Yield, Event, Tell, Protocol!Emit, Protocol!Event
<1>0. /\ ReplayView /\ ReplayView' /\ source' = "replay"
      /\ output \in Items /\ output # <<>> /\ idx \in 1 .. Len(output) + 1
  BY ReplayViewHolds, ReplayViewAfter, ReplayPlacesKept DEF ReplayPlaces
<1>d. Len(output) \in Nat /\ DOMAIN output = 1 .. Len(output)
  BY <1>0 DEF Items
<1>l. /\ Closed = SubSeq(output, 1, idx - 1) /\ Len(Closed) = idx - 1
      /\ Closed' = SubSeq(output', 1, idx' - 1)
  BY <1>0, ClosedItems DEF ReplayView
<1>k. output' = output /\ idx' = idx => Closed' = Closed
  BY <1>l
<1>1. CASE Created
  <2>1. event.type = "none" /\ event'.type = "created" /\ idx = 1 /\ Closed' = Closed
    BY <1>1, <1>k DEF Created, ReplayPlaces
  <2>2. Protocol!Created
    BY <1>0, <1>1, <1>l, <2>1 DEF Created, ReplayView, ReplayShows, Protocol!Created
  <2> QED
    BY <2>2 DEF Protocol!Next
<1>2. CASE InProgress
  <2>1. event.type = "created" /\ event'.type = "in_progress" /\ idx = 1 /\ Closed' = Closed
    BY <1>2, <1>k DEF InProgress, ReplayPlaces
  <2>2. Protocol!InProgress
    BY <1>0, <1>2, <1>l, <2>1 DEF InProgress, ReplayView, ReplayShows, Protocol!InProgress
  <2> QED
    BY <2>2 DEF Protocol!Next
<1>3. CASE ReplayStep /\ ReplayMessage
  <2>1. /\ Closed' = Closed /\ Current.kind = "message" /\ Current' = Current
        /\ Current.body \in Text
    <3>1. /\ output' = output /\ idx' = idx /\ Current.kind = "message"
          /\ idx \in 1 .. Len(output) /\ idx <= Len(output)
      BY <1>3, <1>d DEF ReplayStep, ReplayMessage
    <3>2. Current.body \in Text
      BY <1>0, <3>1, ClosedItems DEF Current
    <3> QED
      BY <1>k, <3>1, <3>2 DEF Current
  <2> USE DEF ReplayStep, ReplayMessage, ReplayView, ReplayShows
  <2>2. CASE at = "item"
    <3>1. event.type \in {"in_progress", "item.done"} /\ event'.type = "item.added"
      BY <1>3, <2>2 DEF ReplayPlaces
    <3>2. Phase = "open" /\ OpenItem = "none"
      BY <1>0, <3>1
    <3>3. Protocol!ItemAdded
      BY <1>0, <1>3, <1>l, <2>1, <2>2, <3>1, <3>2 DEF Protocol!ItemAdded
    <3> QED
      BY <3>3 DEF Protocol!Next
  <2>3. CASE at = "part"
    <3>1. event.type = "item.added" /\ event'.type = "part.added"
      BY <1>3, <2>3 DEF ReplayPlaces
    <3>2. Protocol!PartAdded
      BY <1>0, <1>3, <1>l, <2>1, <2>3, <3>1 DEF Protocol!PartAdded
    <3> QED
      BY <3>2 DEF Protocol!Next
  <2>4. CASE at = "delta"
    <3>1. event.type = "part.added" /\ event'.type = "text.delta" /\ Current.body # <<>>
      BY <1>3, <2>1, <2>4 DEF ReplayPlaces
    <3>2. <<>> \o Current.body = Current.body
      BY <2>1, TextsAreSequences
    <3>3. Protocol!TextDelta
      BY <1>0, <1>3, <1>l, <2>1, <2>4, <3>1, <3>2 DEF Protocol!TextDelta
    <3> QED
      BY <3>3 DEF Protocol!Next
  <2>5. CASE at = "text"
    <3>1. /\ \/ event.type = "text.delta"
             \/ event.type = "part.added" /\ Current.body = <<>>
          /\ event'.type = "text.done"
      BY <1>3, <2>1, <2>5 DEF ReplayPlaces
    <3>2. PartStage = "open" /\ OpenItem = "message" /\ Heard = Current.body /\ Phase = "open"
      BY <1>0, <2>1, <3>1
    <3>3. Protocol!TextDone
      BY <1>0, <1>3, <1>l, <2>1, <2>5, <3>1, <3>2 DEF Protocol!TextDone
    <3> QED
      BY <3>3 DEF Protocol!Next
  <2>6. CASE at = "part.done"
    <3>1. event.type = "text.done" /\ event'.type = "part.done"
      BY <1>3, <2>6 DEF ReplayPlaces
    <3>2. Protocol!PartDone
      BY <1>0, <1>3, <1>l, <2>1, <2>6, <3>1 DEF Protocol!PartDone
    <3> QED
      BY <3>2 DEF Protocol!Next
  <2> QED
    BY <1>3, <2>2, <2>3, <2>4, <2>5, <2>6
<1>4. CASE ReplayStep /\ ReplayCall
  <2>1. /\ Closed' = Closed /\ Current.kind = "function_call" /\ Current' = Current
        /\ Current.body \in Text
    <3>1. /\ output' = output /\ idx' = idx /\ Current.kind = "function_call"
          /\ idx \in 1 .. Len(output) /\ idx <= Len(output)
      BY <1>4, <1>d DEF ReplayStep, ReplayCall
    <3>2. Current.body \in Text
      BY <1>0, <3>1, ClosedItems DEF Current
    <3> QED
      BY <1>k, <3>1, <3>2 DEF Current
  <2> USE DEF ReplayStep, ReplayCall, ReplayView, ReplayShows
  <2>2. CASE at = "item"
    <3>1. event.type \in {"in_progress", "item.done"} /\ event'.type = "item.added"
      BY <1>4, <2>2 DEF ReplayPlaces
    <3>2. Phase = "open" /\ OpenItem = "none"
      BY <1>0, <3>1
    <3>3. Protocol!ItemAdded
      BY <1>0, <1>4, <1>l, <2>1, <2>2, <3>1, <3>2 DEF Protocol!ItemAdded
    <3> QED
      BY <3>3 DEF Protocol!Next
  <2>3. CASE at = "delta"
    <3>1. event.type = "item.added" /\ event'.type = "arguments.delta"
      BY <1>4, <2>1, <2>3 DEF ReplayPlaces
    <3>2. Protocol!ArgumentsDelta
      BY <1>0, <1>4, <1>l, <2>1, <2>3, <3>1 DEF Protocol!ArgumentsDelta
    <3> QED
      BY <3>2 DEF Protocol!Next
  <2>4. CASE at = "arguments"
    <3>1. event.type = "arguments.delta" /\ event'.type = "arguments.done"
      BY <1>4, <2>4 DEF ReplayPlaces
    <3>2. Protocol!ArgumentsDone
      BY <1>0, <1>4, <1>l, <2>1, <2>4, <3>1 DEF Protocol!ArgumentsDone
    <3> QED
      BY <3>2 DEF Protocol!Next
  <2> QED
    BY <1>4, <2>2, <2>3, <2>4
<1>5. CASE ReplayStep /\ ReplayItemDone
  <2>1. /\ idx <= Len(output) /\ output' = output /\ idx' = idx + 1
        /\ event.type \in {"part.done", "arguments.done"} /\ event'.type = "item.done"
    BY <1>0, <1>5, <1>d DEF ReplayStep, ReplayItemDone, ReplayPlaces
  <2>2. /\ OpenItem = Current.kind /\ PartStage = "closed" /\ Heard = Current.body /\ Phase = "open"
        /\ OpenItem # "none"
    BY <1>0, <1>5, <2>1 DEF ReplayView, ReplayShows, ReplayStep, ReplayItemDone, ReplayPlaces
  <2>3. Closed' = Append(Closed, [kind |-> Current.kind, body |-> Current.body])
    <3>1. Closed' = SubSeq(output, 1, idx)
      BY <1>0, <1>l, <2>1
    <3>2. SubSeq(output, 1, idx) = Append(SubSeq(output, 1, idx - 1), output[idx])
      BY <1>0, <2>1, ClosedItems
    <3>3. output[idx] = [kind |-> output[idx].kind, body |-> output[idx].body]
      BY <1>0, <2>1, ClosedItems
    <3> QED
      BY <1>l, <3>1, <3>2, <3>3 DEF Current
  <2>4. Phase' = "open" /\ OpenItem' = "none" /\ PartStage' = "none" /\ Heard' = <<>>
    BY <1>0, <2>1 DEF ReplayView, ReplayShows
  <2>5. Protocol!ItemDone
    BY <1>l, <1>5, <2>2, <2>3, <2>4 DEF ReplayStep, ReplayItemDone, Protocol!ItemDone
  <2> QED
    BY <2>5 DEF Protocol!Next
<1>6. CASE ReplayStep /\ ReplayCompleted
  <2>1. /\ event.type \in {"in_progress", "item.done"} /\ event'.type = "completed"
        /\ idx > Len(output) /\ Closed' = Closed
    BY <1>0, <1>6, <1>k, <1>d DEF ReplayStep, ReplayCompleted, ReplayPlaces
  <2>2. Closed = output
    BY <1>0, <1>l, <2>1, ClosedItems
  <2>3. Phase = "open" /\ OpenItem = "none" /\ PartStage = "none" /\ Heard = <<>>
    BY <1>0, <2>1 DEF ReplayView, ReplayShows
  <2>4. Phase' = "completed" /\ OpenItem' = "none" /\ PartStage' = "none" /\ Heard' = <<>>
    BY <1>0, <2>1 DEF ReplayView, ReplayShows
  <2>5. Protocol!Completed
    BY <1>0, <1>6, <1>l, <2>1, <2>2, <2>3, <2>4 DEF ReplayStep, ReplayCompleted, Protocol!Completed
  <2> QED
    BY <2>5 DEF Protocol!Next
<1> QED
  BY <1>1, <1>2, <1>3, <1>4, <1>5, <1>6 DEF ReplayStep

\* Whichever generator writes it, the stream of events of a response is one
\* that the protocol allows.
THEOREM StreamsFollowProtocol == EventsSpec => ImplementsProtocol
<1>1. EventsInit => EventsInv /\ Protocol!Init
  BY EventsInitial, ProtocolBegins
<1>2. EventsInv /\ [EventsNext]_eventsVars => EventsInv' /\ [Protocol!Next]_(Protocol!protocolVars)
  <2> SUFFICES ASSUME EventsInv, [EventsNext]_eventsVars
               PROVE  EventsInv' /\ [Protocol!Next]_(Protocol!protocolVars)
    OBVIOUS
  <2>1. CASE UNCHANGED eventsVars
    <3>1. EventsInv'
      BY <2>1 DEF eventsVars, EventsInv, StreamPlaces, ReplayPlaces, Current
    <3>2. UNCHANGED Protocol!protocolVars
      BY <2>1 DEF eventsVars, Protocol!protocolVars, Phase, OpenItem, PartStage, Heard, Closed,
                  Between, Current
    <3> QED
      BY <3>1, <3>2
  <2>2. CASE EventsNext /\ source = "stream"
    <3>1. StreamPlaces /\ (Created \/ InProgress \/ StreamStep)
      BY <2>2 DEF EventsInv, EventsNext
    <3> QED
      BY <2>2, <3>1, StreamPlacesKept, StreamFollowsProtocol DEF EventsInv
  <2>3. CASE EventsNext /\ source = "replay"
    <3>1. ReplayPlaces /\ (Created \/ InProgress \/ ReplayStep)
      BY <2>3 DEF EventsInv, EventsNext
    <3> QED
      BY <2>3, <3>1, ReplayPlacesKept, ReplayFollowsProtocol DEF EventsInv
  <2> QED
    BY <2>1, <2>2, <2>3 DEF EventsInv
<1> QED
  BY <1>1, <1>2, PTL DEF EventsSpec, ImplementsProtocol, Protocol!Spec

(* ------------------------- refusals of a provider ---------------------- *)

\* The largest and the smallest of two numbers.
LEMMA OfTwo ==
    ASSUME NEW x \in Int, NEW y \in Int
    PROVE  /\ Max({x, y}) \in {x, y} /\ Max({x, y}) >= x /\ Max({x, y}) >= y
           /\ Min({x, y}) \in {x, y} /\ Min({x, y}) <= x /\ Min({x, y}) <= y
<1>1. \E m \in {x, y} : \A k \in {x, y} : m >= k
  OBVIOUS
<1>2. \E m \in {x, y} : \A k \in {x, y} : m =< k
  OBVIOUS
<1>3. Max({x, y}) \in {x, y} /\ \A k \in {x, y} : Max({x, y}) >= k
  BY <1>1, Zenon DEF Max
<1>4. Min({x, y}) \in {x, y} /\ \A k \in {x, y} : Min({x, y}) =< k
  BY <1>2, Zenon DEF Min
<1> QED
  BY <1>3, <1>4

\* A list of numbers has a smallest one.
LEMMA SmallestOfList ==
    ASSUME NEW n \in Nat \ {0}, NEW f \in [1 .. n -> Int]
    PROVE  \E i \in 1 .. n : \A j \in 1 .. n : f[i] <= f[j]
<1> DEFINE P(k) == \A g \in [1 .. k -> Int] : \E i \in 1 .. k : \A j \in 1 .. k : g[i] <= g[j]
           T == {k \in Nat : k # 0 => P(k)}
<1>1. 0 \in T
  OBVIOUS
<1>2. ASSUME NEW k \in Nat, k \in T PROVE k + 1 \in T
  <2> SUFFICES ASSUME NEW g \in [1 .. k + 1 -> Int]
               PROVE  \E i \in 1 .. k + 1 : \A j \in 1 .. k + 1 : g[i] <= g[j]
    <3>1. P(k + 1)
      OBVIOUS
    <3> HIDE DEF P
    <3> QED
      BY <3>1
  <2>1. CASE k = 0
    <3>1. 1 \in 1 .. k + 1 /\ g[1] \in Int /\ \A j \in 1 .. k + 1 : j = 1
      BY <2>1
    <3>2. \A j \in 1 .. k + 1 : g[1] <= g[j]
      <4> TAKE j \in 1 .. k + 1
      <4>1. g[j] = g[1]
        BY <3>1
      <4> QED
        BY <3>1, <4>1
    <3> QED
      BY <3>1, <3>2
  <2>2. CASE k # 0
    <3>1. PICK h : h = [j \in 1 .. k |-> g[j]]
      OBVIOUS
    <3>2. h \in [1 .. k -> Int] /\ \A j \in 1 .. k : h[j] = g[j]
      BY <3>1
    <3>3. PICK i \in 1 .. k : \A j \in 1 .. k : h[i] <= h[j]
      BY <1>2, <2>2, <3>2
    <3>4. \A j \in 1 .. k : g[i] <= g[j]
      BY <3>2, <3>3
    <3>5. g[i] \in Int /\ g[k + 1] \in Int /\ i \in 1 .. k + 1 /\ k + 1 \in 1 .. k + 1
      BY <2>2
    <3>6. \A j \in 1 .. k : g[j] \in Int
      OBVIOUS
    <3>7. \A j \in 1 .. k + 1 : j \in 1 .. k \/ j = k + 1
      OBVIOUS
    <3>8. CASE g[i] <= g[k + 1]
      BY <3>4, <3>5, <3>7, <3>8
    <3>9. CASE g[k + 1] < g[i]
      <4>1. ASSUME NEW j \in 1 .. k PROVE g[k + 1] <= g[j]
        <5>1. g[i] <= g[j] /\ g[j] \in Int
          BY <3>4, <3>6
        <5> QED
          BY <3>5, <3>9, <5>1
      <4>2. g[k + 1] <= g[k + 1]
        BY <3>5
      <4>3. \A j \in 1 .. k + 1 : g[k + 1] <= g[j]
        BY <3>7, <4>1, <4>2
      <4> QED
        BY <3>5, <4>3
    <3> QED
      BY <3>5, <3>8, <3>9
  <2> QED
    BY <2>1, <2>2
<1>3. Nat \subseteq T
  <2> HIDE DEF T
  <2> QED
    BY <1>1, <1>2, SetInduction
<1> QED
  BY <1>3

Buckets == Seq([left : Int, reset : Nat])

\* The tightest bucket is one of the buckets.
LEMMA TightestIsOne ==
    ASSUME NEW buckets \in Buckets, buckets # <<>>
    PROVE  Tightest(buckets) \in [left : Int, reset : Nat]
<1>1. PICK n \in Nat \ {0} : n = Len(buckets) /\ DOMAIN buckets = 1 .. n
  BY DEF Buckets
<1>2. \A i \in 1 .. n : buckets[i] \in [left : Int, reset : Nat]
  <2> SUFFICES ASSUME NEW i \in 1 .. n PROVE buckets[i] \in [left : Int, reset : Nat]
    OBVIOUS
  <2> QED
    BY <1>1, ElementOfSeq DEF Buckets
<1>3. PICK f : f = [i \in 1 .. n |-> buckets[i].left]
  OBVIOUS
<1>4. f \in [1 .. n -> Int] /\ \A i \in 1 .. n : f[i] = buckets[i].left
  BY <1>2, <1>3
<1>5. PICK i \in 1 .. n : \A j \in 1 .. n : f[i] <= f[j]
  BY <1>4, SmallestOfList
<1>6. PICK lefts : lefts = {buckets[j].left : j \in DOMAIN buckets}
  OBVIOUS
<1>7. buckets[i].left \in lefts /\ \A k \in lefts : buckets[i].left =< k
  BY <1>1, <1>4, <1>5, <1>6
<1>8. Min(lefts) \in lefts
  BY <1>7, Zenon DEF Min
<1>9. PICK those : those = {j \in DOMAIN buckets : buckets[j].left = Min(lefts)}
  OBVIOUS
<1>10. those # {} /\ those \subseteq Nat
  <2>1. \E j \in DOMAIN buckets : buckets[j].left = Min(lefts)
    BY <1>6, <1>8
  <2>2. DOMAIN buckets \subseteq Nat
    BY <1>1
  <2> QED
    BY <1>9, <2>1, <2>2
<1>11. \E k \in those : \A m \in those : k =< m
  BY <1>10, LeastElement
<1>12. Min(those) \in those
  BY <1>11, Zenon DEF Min
<1>13. Tightest(buckets) = buckets[Min(those)]
  BY <1>6, <1>9 DEF Tightest
<1> QED
  BY <1>1, <1>2, <1>9, <1>12, <1>13

\* A set with one number or none.
OneOrNone(S) == S = {} \/ \E w \in Int : S = {w}

\* A hint is one number or none, and negative only if Retry-After is.
LEMMA HintsTyped ==
    ASSUME NEW resp \in HttpResponses, NEW kind
    PROVE  /\ OneOrNone(RetryAfter(resp, kind))
           /\ (\A n \in resp.retryAfter : n >= 0) => \A n \in RetryAfter(resp, kind) : n >= 0
<1>1. /\ OneOrNone(resp.retryAfter)
      /\ OneOrNone(resp.retryDelay) /\ \A n \in resp.retryDelay : n >= 0
      /\ resp.requests \in Buckets /\ resp.tokens \in Buckets
  BY ResponsesAssumption DEF Buckets, OneOrNone, Optional
<1>2. ASSUME NEW buckets \in Buckets
      PROVE  BucketWaits(buckets) = {} \/ \E w \in Nat : BucketWaits(buckets) = {w}
  <2>1. CASE buckets = <<>>
    BY <2>1 DEF BucketWaits
  <2>2. CASE buckets # <<>>
    <3>1. Tightest(buckets).reset \in Nat /\ DefaultWait \in Nat
      BY <2>2, TightestIsOne, WaitsAssumption
    <3> QED
      BY <3>1 DEF BucketWaits
  <2> QED
    BY <2>1, <2>2
<1>3. PICK waits : waits = BucketWaits(resp.requests) \cup BucketWaits(resp.tokens)
  OBVIOUS
<1>4. waits = {} \/ \E x, y \in Nat : waits = {x, y}
  BY <1>1, <1>2, <1>3
<1>5. waits # {} => Max(waits) \in Nat
  BY <1>4, OfTwo
<1>6. OneOrNone(ExhaustedFor(resp)) /\ \A n \in ExhaustedFor(resp) : n >= 0
  BY <1>3, <1>5 DEF ExhaustedFor, None, OneOrNone
<1> QED
  BY <1>1, <1>6 DEF RetryAfter, None, OneOrNone

\* A refusal parks the provider for at least what it asks for.
LEMMA WaitsAreEnough ==
    ASSUME NEW resp \in HttpResponses, NEW nth \in Nat \ {0}
    PROVE  LET kind == Classify(resp.status, resp.wording)
               wait == Quarantine(kind, resp.status, RetryAfter(resp, kind), nth)
           IN  /\ OneOrNone(wait)
               /\ Asks(resp, kind, nth) \in Int
               /\ Asks(resp, kind, nth) > 0 => \E w \in wait : w >= Asks(resp, kind, nth)
<1>1. PICK kind : kind = Classify(resp.status, resp.wording)
  OBVIOUS
<1>2. PICK hint : hint = RetryAfter(resp, kind)
  OBVIOUS
<1>a. /\ OneOrNone(hint)
      /\ (\A n \in resp.retryAfter : n >= 0) => \A n \in hint : n >= 0
  BY <1>2, HintsTyped
<1>3. ASSUME NEW d \in Nat \ {0}
      PROVE  /\ \E w \in Int : HintOr(hint, d) = {w}
             /\ (\A n \in hint : n >= 0) => \A w \in HintOr(hint, d) : w >= 1
  <2>1. CASE hint \subseteq {0}
    BY <2>1 DEF HintOr
  <2>2. CASE ~(hint \subseteq {0})
    <3>1. PICK h \in Int : hint = {h} /\ h # 0
      BY <1>a, <2>2 DEF OneOrNone
    <3> QED
      BY <3>1 DEF HintOr
  <2> QED
    BY <2>1, <2>2
<1>4. PICK wait : wait = QuarantineFor(kind, resp.status, hint)
  OBVIOUS
<1>5. /\ OneOrNone(wait)
      /\ kind \in {"rate_limited", "quota_exhausted"} =>
           /\ \E w \in Int : wait = {w}
           /\ (\A n \in resp.retryAfter : n >= 0) => \A w \in wait : w >= 1
      /\ kind = "auth" => \E w \in wait : w >= 1
  <2>1. CASE kind = "rate_limited"
    <3>1. wait = HintOr(hint, DefaultWait)
      BY <1>4, <2>1 DEF QuarantineFor
    <3> QED
      BY <1>a, <1>3, <2>1, <3>1, WaitsAssumption DEF OneOrNone
  <2>2. CASE kind = "quota_exhausted"
    <3>1. PICK d \in Nat \ {0} : wait = HintOr(hint, d)
      BY <1>4, <2>2, WaitsAssumption DEF QuarantineFor
    <3> QED
      BY <1>a, <1>3, <2>2, <3>1 DEF OneOrNone
  <2>3. CASE kind = "auth"
    <3>1. wait = {AuthWait}
      BY <1>4, <2>3 DEF QuarantineFor
    <3> QED
      BY <2>3, <3>1, WaitsAssumption DEF OneOrNone
  <2>4. CASE kind \notin {"rate_limited", "quota_exhausted", "auth"}
    BY <1>4, <2>4 DEF QuarantineFor, None, OneOrNone
  <2> QED
    BY <2>1, <2>2, <2>3, <2>4
<1>6. PICK e \in Int : e = DefaultWait * 2 ^ (nth - 1)
  <2>1. PICK p \in Int : p = 2 ^ (nth - 1)
    OBVIOUS
  <2> QED
    BY <2>1, WaitsAssumption
<1>7. Min({EscalationMax, e}) \in Int /\ Escalated(nth) = Min({EscalationMax, e})
  <2>1. EscalationMax \in Int
    BY WaitsAssumption
  <2>2. Min({EscalationMax, e}) \in Int
    BY <2>1, OfTwo
  <2> QED
    BY <1>6, <2>2 DEF Escalated
<1>8. CASE kind = "rate_limited" /\ nth > 1
  <2>0. PICK m \in Int : m = Escalated(nth)
    BY <1>7
  <2>1. Asks(resp, kind, nth) = m
    BY <1>6, <1>7, <1>8, <2>0 DEF Asks
  <2>2. PICK w \in Int : wait = {w}
    BY <1>5, <1>8
  <2>3. Max({w, m}) \in Int /\ Max({w, m}) >= m
    BY OfTwo
  <2>4. Quarantine(kind, resp.status, hint, nth) = {Max({w, m})}
    <3>1. wait \cup {m} = {w, m}
      BY <2>2
    <3> QED
      BY <1>4, <1>8, <2>0, <3>1 DEF Quarantine
  <2> QED
    BY <1>1, <1>2, <2>1, <2>3, <2>4 DEF OneOrNone
<1>9. CASE ~ (kind = "rate_limited" /\ nth > 1)
  <2>1. Quarantine(kind, resp.status, hint, nth) = wait
    BY <1>4, <1>9 DEF Quarantine
  <2>2. Asks(resp, kind, nth) \in {0, 1}
    BY <1>9 DEF Asks
  <2>3. Asks(resp, kind, nth) = 1 =>
          \/ kind = "auth"
          \/ kind \in {"rate_limited", "quota_exhausted"} /\ \A n \in resp.retryAfter : n >= 0
    BY <1>9 DEF Asks
  <2>4. Asks(resp, kind, nth) = 1 => \E w \in wait : w >= 1
    BY <1>5, <2>3
  <2> QED
    BY <1>1, <1>2, <1>5, <2>1, <2>2, <2>4
<1> QED
  BY <1>8, <1>9

\* The silence that was asked for is over, or the provider is parked for its rest.
SilenceKept ==
    /\ time \in Nat /\ parked \in Int /\ quiet \in Int
    /\ streak \in Nat /\ refused = streak
    /\ quiet <= parked \/ quiet <= time

LEMMA SilenceStep == SilenceKept /\ [RefusalsNext]_refusalsVars => SilenceKept'
<1> SUFFICES ASSUME SilenceKept, [RefusalsNext]_refusalsVars PROVE SilenceKept'
  OBVIOUS
<1>1. CASE Elapse
  BY <1>1 DEF Elapse, SilenceKept
<1>2. CASE \E c \in Calls : Start(c)
  BY <1>2 DEF Start, SilenceKept
<1>3. ASSUME NEW c \in Calls, NEW resp \in HttpResponses, Succeed(c, resp) PROVE SilenceKept'
  BY <1>3 DEF Succeed, SilenceKept
<1>6. CASE ClearedElsewhere
  BY <1>6 DEF ClearedElsewhere, SilenceKept
<1>7. CASE StartAgain
  BY <1>7 DEF StartAgain, SilenceKept
<1>4. ASSUME NEW c \in Calls, NEW resp \in HttpResponses, NEW landed \in BOOLEAN,
             Refuse(c, resp, landed)
      PROVE  SilenceKept'
  <2>1. PICK kind : kind = Classify(resp.status, resp.wording)
    OBVIOUS
  <2>2. PICK nth \in Nat \ {0} : nth = streak + 1
    BY DEF SilenceKept
  <2>3. PICK wait : wait = Quarantine(kind, resp.status, RetryAfter(resp, kind), nth)
    OBVIOUS
  <2>4. /\ OneOrNone(wait) /\ Asks(resp, kind, nth) \in Int
        /\ Asks(resp, kind, nth) > 0 => \E w \in wait : w >= Asks(resp, kind, nth)
    BY <2>1, <2>3, WaitsAreEnough
  <2>5. /\ streak' = (IF kind = "rate_limited" THEN streak + 1 ELSE streak)
        /\ parked' = (IF landed THEN Max({parked} \cup {time + w : w \in wait}) ELSE parked)
        /\ refused' = (IF kind = "rate_limited" THEN refused + 1 ELSE refused)
        /\ quiet' = (IF landed THEN Max({quiet, time + Asks(resp, kind, refused')}) ELSE quiet)
        /\ time' = time
    BY <1>4, <2>1, <2>2, <2>3 DEF Refuse
  <2>6. Asks(resp, kind, refused') = Asks(resp, kind, nth)
    <3>1. CASE kind = "rate_limited"
      BY <2>2, <2>5, <3>1 DEF SilenceKept
    <3>2. CASE kind # "rate_limited"
      BY <3>2 DEF Asks
    <3> QED
      BY <3>1, <3>2
  <2>7. PICK asked \in Int : asked = Asks(resp, kind, nth)
    BY <2>4
  <2>8. quiet' = (IF landed THEN Max({quiet, time + asked}) ELSE quiet)
    BY <2>5, <2>6, <2>7
  <2>9. Max({quiet, time + asked}) \in {quiet, time + asked}
    <3>1. quiet \in Int /\ time + asked \in Int
      BY DEF SilenceKept
    <3>2. PICK x \in Int : x = time + asked
      BY <3>1
    <3>3. Max({quiet, x}) \in {quiet, x}
      BY <3>1, OfTwo
    <3> QED
      BY <3>2, <3>3
  <2>10. /\ parked' \in Int /\ parked' >= parked
         /\ landed => \A w \in wait : parked' >= time + w
    <3>1. CASE wait = {}
      <4>1. parked \in Int /\ Max({parked, parked}) \in {parked}
        BY OfTwo DEF SilenceKept
      <4>2. {parked} \cup {time + w : w \in wait} = {parked, parked}
        BY <3>1
      <4>3. parked' = parked
        BY <2>5, <4>1, <4>2
      <4> QED
        BY <3>1, <4>1, <4>3
    <3>2. CASE wait # {}
      <4>1. PICK w \in Int : wait = {w}
        BY <2>4, <3>2 DEF OneOrNone
      <4>2. PICK y \in Int : y = time + w
        BY DEF SilenceKept
      <4>3. {parked} \cup {time + v : v \in wait} = {parked, y}
        BY <4>1, <4>2
      <4>4. parked \in Int
        BY DEF SilenceKept
      <4>5. /\ Max({parked, y}) \in {parked, y}
            /\ Max({parked, y}) >= parked /\ Max({parked, y}) >= y
        BY <4>4, OfTwo
      <4>6. parked' = (IF landed THEN Max({parked, y}) ELSE parked)
        BY <2>5, <4>3
      <4> QED
        BY <4>1, <4>2, <4>4, <4>5, <4>6
    <3> QED
      BY <3>1, <3>2
  <2>11. quiet' \in Int /\ (quiet' = quiet \/ (landed /\ quiet' = time + asked))
    <3>1. CASE landed
      BY <2>8, <2>9, <3>1 DEF SilenceKept
    <3>2. CASE ~landed
      BY <2>8, <3>2 DEF SilenceKept
    <3> QED
      BY <3>1, <3>2
  <2>12. quiet' <= parked' \/ quiet' <= time
    <3>1. CASE quiet' = quiet
      BY <2>10, <3>1 DEF SilenceKept
    <3>2. CASE landed /\ quiet' = time + asked /\ asked > 0
      <4>1. PICK w \in wait : w >= asked
        BY <2>4, <2>7, <3>2
      <4>2. w \in Int /\ parked' >= time + w
        BY <2>4, <2>10, <3>2 DEF OneOrNone
      <4> QED
        BY <2>10, <3>2, <4>1, <4>2 DEF SilenceKept
    <3>3. CASE quiet' = time + asked /\ ~(asked > 0)
      BY <3>3 DEF SilenceKept
    <3> QED
      BY <2>11, <3>1, <3>2, <3>3
  <2>13. streak' \in Nat /\ refused' = streak'
    BY <2>5 DEF SilenceKept
  <2> QED
    BY <2>5, <2>10, <2>11, <2>12, <2>13 DEF SilenceKept
<1>5. CASE UNCHANGED refusalsVars
  BY <1>5 DEF refusalsVars, SilenceKept
<1> QED
  BY <1>1, <1>2, <1>3, <1>4, <1>5, <1>6, <1>7 DEF RefusalsNext, ReceiveResponse

\* After a refusal that is recorded the provider is left alone: for some time
\* unless its Retry-After is negative, and longer for every further 429 in a
\* row, whatever the hints; only a success or an edit of the provider ends that,
\* a restart does not.
THEOREM RefusalsAreHeard == RefusalsSpec => LeftAlone
<1>1. RefusalsInit => SilenceKept
  BY DEF RefusalsInit, SilenceKept
<1>2. SilenceKept /\ [RefusalsNext]_refusalsVars => [under' \ under # {} => time >= quiet]_refusalsVars
  <2> SUFFICES ASSUME SilenceKept, RefusalsNext, under' \ under # {}
               PROVE  time >= quiet
    BY DEF refusalsVars
  <2>1. PICK c \in Calls : Start(c)
    BY DEF RefusalsNext, ReceiveResponse, Succeed, Refuse, Elapse, ClearedElsewhere, StartAgain
  <2> QED
    BY <2>1 DEF Start, SilenceKept
<1> QED
  BY <1>1, <1>2, SilenceStep, PTL DEF RefusalsSpec, LeftAlone

(* ------------------------------ routing -------------------------------- *)

\* What the rows of the user's providers are like.
ProviderTyped(p) ==
    /\ p.rpd \in Nat /\ p.today \in Nat /\ p.rpm \in Nat /\ p.minute \in Nat
    /\ p.tpd \in Nat /\ p.tokens \in Nat /\ p.failures \in Nat /\ p.inFlight \in Nat
    /\ p.weight \in Int
    /\ p.latency = Absent \/ p.latency.type = "number"
    /\ p.ema = Absent \/ p.ema.type = "number"

LEMMA FleetTyped ==
    ASSUME NEW providers \in Fleets
    PROVE  /\ providers \in Seq(ToSet(providers))
           /\ \A i \in DOMAIN providers : ProviderTyped(providers[i])
           /\ \A i, j \in DOMAIN providers : providers[i].name = providers[j].name => i = j
<1>1. \A i \in DOMAIN providers : providers[i] \in ToSet(providers)
  BY DEF ToSet
<1> QED
  BY <1>1, FleetsAssumption DEF ProviderTyped

\* Every field is of its type, or unknown.
LEMMA FieldTyped ==
    ASSUME NEW p, ProviderTyped(p), NEW f \in DOMAIN FieldType, FieldType[f] = "number"
    PROVE  Field(p, f) = Absent \/ Field(p, f).type = "number"
<1>1. f \in {"weight", "last_latency_ms", "latency_ema_ms", "requests_today",
             "requests_this_minute", "rpd_remaining", "rpm_remaining", "total_failures"}
  BY DEF FieldType
<1>2. \A n : Num(n).type = "number"
  BY DEF Num, Val
<1> QED
  BY <1>1, <1>2 DEF Field, ProviderTyped

\* A clause the parser accepts raises nothing.
LEMMA RightClauseSafe ==
    ASSUME NEW p, ProviderTyped(p), NEW section, NEW c, RightClause(section, c)
    PROVE  ~Raises(c, p)
<1> SUFFICES ASSUME Raises(c, p) PROVE FALSE
  OBVIOUS
<1>1. PICK type : type = FieldType[c.field]
  OBVIOUS
<1>2. c.field \in DOMAIN FieldType /\ c.op \in OpsOf(type) /\ RightValue(type, c.op, c.value)
  BY <1>1 DEF RightClause
<1>3. type \in {"number", "string_array", "string", "bool"}
  BY <1>1, <1>2 DEF FieldType
<1>4. c.op \in {"<", "<=", ">", ">="}
  BY DEF Raises
<1>5. type = "number"
  BY <1>2, <1>3, <1>4 DEF OpsOf
<1>6. c.value.type = "number"
  BY <1>2, <1>4, <1>5 DEF RightValue
<1>7. Field(p, c.field) = Absent \/ Field(p, c.field).type = "number"
  BY <1>1, <1>2, <1>5, FieldTyped
<1> QED
  BY <1>6, <1>7 DEF Raises

\* A definition the parser accepts can be evaluated for every provider.
LEMMA ParsedSafe ==
    ASSUME NEW p, ProviderTyped(p), NEW d, Parses(d)
    PROVE  ~EvaluationRaises(d, p)
BY RightClauseSafe DEF Parses, EvaluationRaises

\* The built-in definitions parse.
LEMMA BuiltinParses == \A l \in DOMAIN Builtin : Parses(Builtin[l])
<1>1. \A tag, n : RightClause("prefer", PreferTag(tag, n)) /\ RightClause("require", RequireTag(tag))
  BY DEF RightClause, PreferTag, RequireTag, FieldType, OpsOf, RightValue, RightWeight, Str, Num, Val, Absent
<1>2. \A ms, n : RightClause("prefer", Faster(ms, n))
  BY DEF RightClause, Faster, FieldType, OpsOf, RightValue, RightWeight, Str, Num, Val, Absent
<1>3. RightClause("prefer", [field |-> "rpd_remaining", op |-> ">", value |-> Num(10), weight |-> Num(60)])
  BY DEF RightClause, FieldType, OpsOf, RightValue, RightWeight, Str, Num, Val, Absent
<1>4. /\ Parses(Define(<<>>, <<>>))
      /\ \A c : RightClause("require", c) => Parses(Define(<<c>>, <<>>))
      /\ \A b, c : RightClause("prefer", b) /\ RightClause("prefer", c) => Parses(Define(<<>>, <<b, c>>))
      /\ \A a, b, c : /\ RightClause("require", a) /\ RightClause("prefer", b) /\ RightClause("prefer", c)
                     => Parses(Define(<<a>>, <<b, c>>))
  BY DEF Parses, Define
<1>5. DOMAIN Builtin = {"auto", "fastest", "cheapest", "best_quality", "coding", "reasoning",
                        "vision", "long_context"}
  BY DEF Builtin
<1>6. Parses(Builtin["auto"])
  <2>1. Builtin["auto"] = Define(<<>>, <<>>)
    BY DEF Builtin
  <2> QED
    BY <2>1, <1>4
<1>7. Parses(Builtin["fastest"])
  <2>1. Builtin["fastest"] = Define(<<>>, <<PreferTag("fast", 100), Faster(1000, 60)>>)
    BY DEF Builtin
  <2> QED
    BY <2>1, <1>1, <1>2, <1>4
<1>8. Parses(Builtin["cheapest"])
  <2>1. Builtin["cheapest"] = Define(<<>>, <<PreferTag("cheap", 100),
              [field |-> "rpd_remaining", op |-> ">", value |-> Num(10), weight |-> Num(60)]>>)
    BY DEF Builtin
  <2> QED
    BY <2>1, <1>1, <1>3, <1>4
<1>9. Parses(Builtin["best_quality"])
  <2>1. Builtin["best_quality"] = Define(<<>>, <<PreferTag("quality", 100), PreferTag("reasoning", 80)>>)
    BY DEF Builtin
  <2> QED
    BY <2>1, <1>1, <1>4
<1>10. Parses(Builtin["coding"])
  <2>1. Builtin["coding"] = Define(<<RequireTag("coding")>>, <<PreferTag("reasoning", 100), Faster(2000, 40)>>)
    BY DEF Builtin
  <2> QED
    BY <2>1, <1>1, <1>2, <1>4
<1>11. Parses(Builtin["reasoning"])
  <2>1. Builtin["reasoning"] = Define(<<>>, <<PreferTag("reasoning", 100), PreferTag("quality", 60)>>)
    BY DEF Builtin
  <2> QED
    BY <2>1, <1>1, <1>4
<1>12. Parses(Builtin["vision"])
  <2>1. Builtin["vision"] = Define(<<RequireTag("vision")>>, <<>>)
    BY DEF Builtin
  <2> QED
    BY <2>1, <1>1, <1>4
<1>13. Parses(Builtin["long_context"])
  <2>1. Builtin["long_context"] = Define(<<RequireTag("long_context")>>, <<>>)
    BY DEF Builtin
  <2> QED
    BY <2>1, <1>1, <1>4
<1> QED
  BY <1>5, <1>6, <1>7, <1>8, <1>9, <1>10, <1>11, <1>12, <1>13

\* f is the recursive function of Preferred up to n.
Sums(prefer, p, f, n) ==
    f = [i \in 0 .. n |->
           IF i = 0 THEN 0
           ELSE IF Matches(prefer[i], p) THEN f[i - 1] + prefer[i].weight.datum ELSE f[i - 1]]

\* There is a function that sums up the first n weights, for every n.
LEMMA SumsExists ==
    ASSUME NEW prefer, NEW p PROVE \A n \in Nat : \E f : Sums(prefer, p, f, n)
<1> DEFINE T == {n \in Nat : \E f : Sums(prefer, p, f, n)}
<1>1. 0 \in T
  <2>1. Sums(prefer, p, [i \in 0..0 |-> 0], 0)
    BY DEF Sums
  <2> QED
    BY <2>1
<1>2. ASSUME NEW n \in Nat, n \in T PROVE n + 1 \in T
  <2>1. PICK f : Sums(prefer, p, f, n)
    BY <1>2
  <2> DEFINE further(h, i) ==
               IF Matches(prefer[i], p) THEN h[i - 1] + prefer[i].weight.datum ELSE h[i - 1]
             g == [i \in 0..(n + 1) |-> IF i <= n THEN f[i] ELSE further(f, i)]
  <2>2. \A i \in 0..(n + 1) : g[i] = IF i = 0 THEN 0 ELSE further(g, i)
    <3> TAKE i \in 0..(n + 1)
    <3>1. CASE i = 0
      BY <3>1, <2>1 DEF Sums
    <3>2. CASE i # 0 /\ i <= n
      <4>1. i - 1 \in 0..n /\ i \in 0..n
        BY <3>2
      <4>2. f[i] = further(f, i)
        BY <2>1, <3>2, <4>1 DEF Sums
      <4>3. g[i] = f[i] /\ g[i - 1] = f[i - 1]
        BY <3>2, <4>1
      <4> QED
        BY <3>2, <4>2, <4>3
    <3>3. CASE i = n + 1
      <4>1. g[i] = further(f, i) /\ g[i - 1] = f[i - 1]
        BY <3>3
      <4> QED
        BY <3>3, <4>1
    <3> QED
      BY <3>1, <3>2, <3>3
  <2>3. Sums(prefer, p, g, n + 1)
    BY <2>2 DEF Sums
  <2> QED
    BY <2>3
<1> HIDE DEF T
<1>3. Nat \subseteq T
  BY <1>1, <1>2, SetInduction
<1> QED
  BY <1>3 DEF T

\* The bonus of a definition is a number.
LEMMA BonusTyped ==
    ASSUME NEW p, NEW d \in Definitions PROVE Bonus(d, p) \in Int
<1> DEFINE q == d.prefer
           f == Preferred(q, p)
           Whole == {n \in Nat : n <= Len(q) => f[n] \in Int}
<1>1. Len(q) \in Nat /\ \A i \in 1..Len(q) : q[i].weight.datum \in Int
  <2>1. CASE d \in Drafts /\ Parses(d)
    <3>1. /\ q \in Seq(ToSet(q))
          /\ \A c \in ToSet(q) : c.weight.type = "number" => c.weight.datum \in Int
      BY <2>1, DraftsAssumption
    <3>2. Len(q) \in Nat /\ DOMAIN q = 1..Len(q) /\ \A i \in 1..Len(q) : q[i] \in ToSet(q)
      BY <3>1, LenProperties DEF ToSet
    <3>3. \A i \in DOMAIN q : q[i].weight.type = "number"
      BY <2>1 DEF Parses, RightClause, RightWeight
    <3> QED
      BY <3>1, <3>2, <3>3
  <2>2. CASE \E l \in DOMAIN Builtin : d = Builtin[l]
    <3>1. \A tag, n : PreferTag(tag, n).weight.datum = n
      BY DEF PreferTag, Num, Val
    <3>2. \A ms, n : Faster(ms, n).weight.datum = n
      BY DEF Faster, Num, Val
    <3>3. PICK l \in DOMAIN Builtin : q = Builtin[l].prefer
      BY <2>2
    <3>4. l \in {"auto", "fastest", "cheapest", "best_quality", "coding", "reasoning",
                 "vision", "long_context"}
      BY <3>3 DEF Builtin
    <3>5. \/ q = <<>>
          \/ q = <<PreferTag("fast", 100), Faster(1000, 60)>>
          \/ q = <<PreferTag("cheap", 100),
                   [field |-> "rpd_remaining", op |-> ">", value |-> Num(10), weight |-> Num(60)]>>
          \/ q = <<PreferTag("quality", 100), PreferTag("reasoning", 80)>>
          \/ q = <<PreferTag("reasoning", 100), Faster(2000, 40)>>
          \/ q = <<PreferTag("reasoning", 100), PreferTag("quality", 60)>>
      BY <3>3, <3>4 DEF Builtin, Define
    <3>6. CASE q = <<>>
      BY <3>6
    <3>7. ASSUME NEW b, NEW c, q = <<b, c>>, b.weight.datum \in Int, c.weight.datum \in Int
          PROVE  Len(q) \in Nat /\ \A i \in 1..Len(q) : q[i].weight.datum \in Int
      BY <3>7
    <3> QED
      BY <3>1, <3>2, <3>5, <3>6, <3>7 DEF Num, Val
  <2> QED
    BY <2>1, <2>2 DEF Definitions
<1>2. \A i \in 0..Len(q) :
         f[i] = IF i = 0 THEN 0
                ELSE IF Matches(q[i], p) THEN f[i - 1] + q[i].weight.datum ELSE f[i - 1]
  <2>1. \E h : Sums(q, p, h, Len(q))
    BY <1>1, SumsExists
  <2>2. f = CHOOSE h : Sums(q, p, h, Len(q))
    BY DEF Preferred, Sums
  <2>3. Sums(q, p, f, Len(q))
    BY <2>1, <2>2
  <2> HIDE DEF f
  <2> QED
    BY <2>3 DEF Sums
<1> HIDE DEF f
<1>3. 0 \in Whole
  BY <1>1, <1>2
<1>4. ASSUME NEW n \in Nat, n \in Whole PROVE n + 1 \in Whole
  <2> SUFFICES ASSUME n + 1 <= Len(q) PROVE f[n + 1] \in Int
    OBVIOUS
  <2>1. n + 1 \in 0..Len(q) /\ n + 1 \in 1..Len(q) /\ f[n] \in Int /\ (n + 1) - 1 = n
    BY <1>1, <1>4
  <2> QED
    BY <1>1, <1>2, <2>1
<1>5. Len(q) \in Whole
  <2> HIDE DEF Whole, q
  <2> QED
    BY <1>1, <1>3, <1>4, SetInduction
<1> QED
  BY <1>1, <1>5 DEF f, Bonus

\* What is left of a quota, and what a failure costs, are numbers.
LEMMA RemainingTyped ==
    ASSUME NEW scale \in Int, NEW used \in Nat, NEW limit \in Nat
    PROVE  Remaining(scale, used, limit) \in Int
<1>1. CASE limit = 0
  BY <1>1 DEF Remaining
<1>2. CASE limit # 0
  <2>1. PICK n : n = scale - ((scale * used) \div limit)
    OBVIOUS
  <2>2. scale * used \in Int
    OBVIOUS
  <2>3. n \in Int
    BY <1>2, <2>1, <2>2
  <2>4. Remaining(scale, used, limit) = Max({0, n})
    BY <1>2, <2>1 DEF Remaining
  <2>5. Max({0, n}) \in {0, n}
    BY <2>3, OfTwo
  <2> QED
    BY <2>3, <2>4, <2>5
<1> QED
  BY <1>1, <1>2

\* The parts of a provider's worth are numbers.
LEMMA PartsTyped ==
    ASSUME NEW d \in Definitions, NEW p, ProviderTyped(p)
    PROVE  /\ Remaining(30, p.today, p.rpd) \in Int /\ Remaining(40, p.tokens, p.tpd) \in Int
           /\ LatencyBonus(Latency(p)) \in Int /\ p.weight \in Int
           /\ Min({p.failures, 20}) \in Int /\ p.inFlight \in Int /\ Bonus(d, p) \in Int
<1>1. Remaining(30, p.today, p.rpd) \in Int /\ Remaining(40, p.tokens, p.tpd) \in Int
  <2>1. PICK a, b, c, n : a = p.today /\ b = p.rpd /\ c = p.tokens /\ n = p.tpd
    OBVIOUS
  <2>2. a \in Nat /\ b \in Nat /\ c \in Nat /\ n \in Nat
    BY <2>1 DEF ProviderTyped
  <2>3. Remaining(30, a, b) \in Int /\ Remaining(40, c, n) \in Int
    BY <2>2, RemainingTyped
  <2> QED
    BY <2>1, <2>3
<1>2. LatencyBonus(Latency(p)) \in Int
  BY DEF LatencyBonus
<1>3. p.failures \in Int /\ p.weight \in Int /\ p.inFlight \in Int
  BY DEF ProviderTyped
<1>4. Min({p.failures, 20}) \in Int
  <2>1. PICK n : n = p.failures
    OBVIOUS
  <2>2. n \in Int /\ 20 \in Int
    BY <1>3, <2>1
  <2>3. Min({n, 20}) \in {n, 20}
    BY <2>2, OfTwo
  <2> QED
    BY <2>1, <2>2, <2>3
<1> QED
  BY <1>1, <1>2, <1>3, <1>4, BonusTyped

\* So is the worth.
LEMMA WorthTyped ==
    ASSUME NEW d \in Definitions, NEW p, ProviderTyped(p)
    PROVE  Worth(d, p) \in Int
BY PartsTyped DEF Worth, Baseline

\* Who outdoes another one is worth more.
LEMMA OutdoesWorth ==
    ASSUME NEW i, NEW j, ProviderTyped(fleet[i]), ProviderTyped(fleet[j]),
           route.definition \in Definitions, Outdoes(i, j)
    PROVE  Worth(route.definition, fleet[i]) > Worth(route.definition, fleet[j])
<1> DEFINE part(p) ==
      <<Remaining(30, p.today, p.rpd), Remaining(40, p.tokens, p.tpd),
        LatencyBonus(Latency(p)), p.weight, - Min({p.failures, 20}),
        - p.inFlight, Bonus(route.definition, p)>>
           Sum(p) == \E a, b, c, d, e, f, g \in Int :
                        /\ part(p) = <<a, b, c, d, -e, -f, g>>
                        /\ Worth(route.definition, p) = d + a + b + c - 2 * e + g - 10 * f
<1>1. ASSUME NEW p, ProviderTyped(p)
      PROVE  Sum(p)
  <2>1. PICK a, b, c, d, e, f, g :
           /\ a = Remaining(30, p.today, p.rpd) /\ b = Remaining(40, p.tokens, p.tpd)
           /\ c = LatencyBonus(Latency(p)) /\ d = p.weight /\ e = Min({p.failures, 20})
           /\ f = p.inFlight /\ g = Bonus(route.definition, p)
    OBVIOUS
  <2>2. a \in Int /\ b \in Int /\ c \in Int /\ d \in Int /\ e \in Int /\ f \in Int /\ g \in Int
    BY <1>1, <2>1, PartsTyped
  <2>3. part(p) = <<a, b, c, d, -e, -f, g>>
    BY <2>1
  <2>4. Worth(route.definition, p) = d + a + b + c - 2 * e + g - 10 * f
    BY <2>1, <2>2 DEF Worth, Baseline
  <2> QED
    BY <2>2, <2>3, <2>4
<1>2. Sum(fleet[i]) /\ Sum(fleet[j])
  <2> HIDE DEF part
  <2>1. \A p : ProviderTyped(p) => Sum(p)
    BY <1>1
  <2> HIDE DEF Sum
  <2> QED
    BY <2>1
<1>3. PICK a, b, c, d, e, f, g \in Int :
         /\ part(fleet[i]) = <<a, b, c, d, -e, -f, g>>
         /\ Worth(route.definition, fleet[i]) = d + a + b + c - 2 * e + g - 10 * f
  BY <1>2
<1>4. PICK k, l, m, n, o, q, r \in Int :
         /\ part(fleet[j]) = <<k, l, m, n, -o, -q, r>>
         /\ Worth(route.definition, fleet[j]) = n + k + l + m - 2 * o + r - 10 * q
  BY <1>2
<1>5. Merits(i) = part(fleet[i]) /\ Merits(j) = part(fleet[j])
  BY DEF Merits
<1> HIDE DEF part
<1>6. Merits(i) = <<a, b, c, d, -e, -f, g>> /\ Merits(j) = <<k, l, m, n, -o, -q, r>>
  BY <1>3, <1>4, <1>5
<1>7. \A x \in 1..7 : Merits(i)[x] >= Merits(j)[x]
  BY <1>6 DEF Outdoes
<1>8. a >= k /\ b >= l /\ c >= m /\ d >= n /\ -e >= -o /\ -f >= -q /\ g >= r
  <2>1. Merits(i)[1] >= Merits(j)[1] /\ Merits(i)[2] >= Merits(j)[2] /\ Merits(i)[3] >= Merits(j)[3]
        /\ Merits(i)[4] >= Merits(j)[4] /\ Merits(i)[5] >= Merits(j)[5]
        /\ Merits(i)[6] >= Merits(j)[6] /\ Merits(i)[7] >= Merits(j)[7]
    BY <1>7
  <2> QED
    BY <1>6, <2>1
<1>9. ~(a = k /\ b = l /\ c = m /\ d = n /\ e = o /\ f = q /\ g = r)
  BY <1>6 DEF Outdoes
<1> QED
  BY <1>3, <1>4, <1>8, <1>9

\* The order of the list.
InOrder == \A k, l \in DOMAIN route.chain : k < l => Before(route.chain[k], route.chain[l])

RoutingTyped ==
    /\ fleet \in Fleets /\ ask \in ChatRequests
    /\ ToSet(custom) \subseteq Definitions
    /\ route = Route(route.pc, route.lane, route.definition, route.model, route.chain, route.parked)
    /\ route.definition \in Definitions
    /\ route.chain \in Seq(DOMAIN fleet)

\* Only definitions that parse are stored and looked up; what _rank has found
\* stands until the capabilities are filtered.
RoutingInv ==
    /\ RoutingTyped
    /\ route.pc # "type error"
    /\ route.pc = "unknown strategy" => ~NamesLane /\ ask.strategy # "auto"
    /\ route.model \notin DOMAIN Lane \cup Foreign
    /\ route.pc = "ranked" =>
          /\ route.parked = ParkedOnes
          /\ ToSet(route.chain) = {i \in Considered : Admits(route.definition, fleet[i])}
          /\ InOrder
    /\ route.pc = "routed" => ToSet(route.chain) = {i \in DOMAIN fleet : CanServe(i)} /\ InOrder
    /\ route.pc = "no tools" =>
          \A i \in Usable : fleet[i].registered /\ fleet[i].tools => fleet[i].healthy /\ ~TokensSpent(fleet[i])

\* Every definition in force parses.
LEMMA DefinitionsParse == \A d \in Definitions : Parses(d)
BY BuiltinParses DEF Definitions

\* No name of a virtual model is the missing name, and every lane of one has a
\* built-in definition.
LEMMA LanesBuiltin ==
    /\ NoName \notin DOMAIN Lane
    /\ \A model \in DOMAIN Lane : Lane[model] \in DOMAIN Builtin
    /\ \A prompt : AutoLane(prompt) \in DOMAIN Builtin
<1>1. DOMAIN Builtin = {"auto", "fastest", "cheapest", "best_quality", "coding", "reasoning",
                        "vision", "long_context"}
  BY DEF Builtin
<1>2. \A prompt : AutoLane(prompt) \in {"vision", "long_context", "coding", "reasoning", "fastest"}
  BY DEF AutoLane
<1>3. NoName \notin DOMAIN Lane
  BY DEF Lane, NoName
<1>4. \A model \in DOMAIN Lane : Lane[model] \in DOMAIN Builtin
  BY <1>1 DEF Lane
<1> QED
  BY <1>1, <1>2, <1>3, <1>4

\* At first there is no strategy of one's own and no list.
LEMMA RoutingInitial == RoutingInit => RoutingInv
<1> SUFFICES ASSUME RoutingInit PROVE RoutingInv
  OBVIOUS
<1>1. Define(<<>>, <<>>) \in Definitions
  <2>1. "auto" \in DOMAIN Builtin /\ Builtin["auto"] = Define(<<>>, <<>>)
    BY DEF Builtin
  <2> QED
    BY <2>1 DEF Definitions
<1>2. ToSet(custom) = {}
  BY DEF RoutingInit, ToSet
<1>3. route = Route("new", NoName, Define(<<>>, <<>>), NoName, <<>>, {})
  BY DEF RoutingInit, Unrouted
<1>4. /\ route.pc = "new" /\ route.definition = Define(<<>>, <<>>) /\ route.model = NoName
      /\ route.chain = <<>> /\ route.lane = NoName /\ route.parked = {}
  BY <1>3 DEF Route
<1>5. <<>> \in Seq(DOMAIN fleet)
  BY EmptySeq
<1>6. RoutingTyped
  BY <1>1, <1>2, <1>3, <1>4, <1>5 DEF RoutingTyped, RoutingInit
<1> QED
  BY <1>4, <1>6, LanesBuiltin, ForeignAssumption DEF RoutingInv

\* The order and who can serve depend on the definition, not on the list.
LEMMA OrderStays ==
    ASSUME fleet' = fleet, ask' = ask, route'.definition = route.definition
    PROVE  /\ ParkedOnes' = ParkedOnes /\ Considered' = Considered /\ Usable' = Usable
           /\ \A i, j : Before(i, j)' <=> Before(i, j)
           /\ \A i : CanServe(i)' <=> CanServe(i)
<1>1. Usable' = Usable
  BY DEF Usable
<1>2. ParkedOnes' = ParkedOnes
  BY <1>1 DEF ParkedOnes
<1>3. Considered' = Considered
  BY <1>1, <1>2 DEF Considered
<1>4. \A i : CanServe(i)' <=> CanServe(i)
  BY <1>3 DEF CanServe
<1>5. \A i : Score(i)' = Score(i)
  BY DEF Score
<1>6. \A i, j : Before(i, j)' <=> Before(i, j)
  BY <1>5 DEF Before
<1> QED
  BY <1>1, <1>2, <1>3, <1>4, <1>6

\* An edit of the strategies leaves the request alone.
LEMMA EditKeeps ==
    ASSUME RoutingInv, UNCHANGED <<fleet, ask, route>>, ToSet(custom') \subseteq Definitions
    PROVE  RoutingInv'
<1>1. RoutingTyped'
  BY DEF RoutingInv, RoutingTyped
<1>2. /\ ParkedOnes' = ParkedOnes /\ Considered' = Considered /\ Usable' = Usable
      /\ \A i : CanServe(i)' <=> CanServe(i)
  BY OrderStays
<1>3. InOrder => InOrder'
  BY OrderStays DEF InOrder
<1>4. NamesLane' = NamesLane
  BY DEF NamesLane
<1>5. /\ route'.pc = "ranked" =>
            /\ route'.parked = ParkedOnes'
            /\ ToSet(route'.chain) = {i \in Considered' : Admits(route'.definition, fleet'[i])}
            /\ InOrder'
      /\ route'.pc = "no tools" =>
            \A i \in Usable' : fleet'[i].registered /\ fleet'[i].tools => fleet'[i].healthy /\ ~TokensSpent(fleet'[i])
  BY <1>2, <1>3 DEF RoutingInv
<1>6. route'.pc = "routed" => ToSet(route'.chain) = {i \in DOMAIN fleet' : CanServe(i)'} /\ InOrder'
  BY <1>2, <1>3 DEF RoutingInv
<1> QED
  BY <1>1, <1>4, <1>5, <1>6 DEF RoutingInv

\* A lane that is not found is neither a virtual model's nor an automatic one.
LEMMA ResolveKeeps ==
    ASSUME RoutingInv, ResolveStrategy PROVE RoutingInv'
<1> DEFINE lane == IF AskedLane = "auto" THEN AutoLane(ask.prompt) ELSE AskedLane
           model == IF NamesLane THEN NoName ELSE ask.model
           stored == {d \in ToSet(custom) : lane = "custom"} \cup {Builtin[l] : l \in DOMAIN Builtin \cap {lane}}
<1>1. fleet' = fleet /\ ask' = ask /\ custom' = custom
  BY DEF ResolveStrategy
<1>2. stored \subseteq Definitions
  BY DEF RoutingInv, RoutingTyped, Definitions
<1>3. model \notin DOMAIN Lane \cup Foreign /\ NoName \notin DOMAIN Lane \cup Foreign
  BY LanesBuiltin, ForeignAssumption DEF NamesLane
<1>4. <<>> \in Seq(DOMAIN fleet)
  BY EmptySeq
<1>5. ASSUME NEW where, NEW there, NEW d \in Definitions, NEW name,
             name \notin DOMAIN Lane \cup Foreign,
             where = "resolved" \/ (where = "unknown strategy" /\ ~NamesLane /\ ask.strategy # "auto"),
             route' = Route(where, there, d, name, <<>>, {})
      PROVE  RoutingInv'
  <2>1. /\ route'.pc = where /\ route'.definition = d /\ route'.model = name
        /\ route'.chain = <<>> /\ route'.lane = there /\ route'.parked = {}
    BY <1>5 DEF Route
  <2>2. RoutingTyped'
    BY <1>1, <1>4, <1>5, <2>1 DEF RoutingInv, RoutingTyped
  <2> QED
    BY <1>1, <1>5, <2>1, <2>2 DEF RoutingInv, NamesLane
<1>6. CASE stored # {}
  <2>1. (CHOOSE d \in stored : TRUE) \in Definitions
    BY <1>2, <1>6
  <2>2. route' = Route("resolved", lane, CHOOSE d \in stored : TRUE, model, <<>>, {})
    BY <1>6 DEF ResolveStrategy
  <2> HIDE DEF lane, model, stored
  <2> QED
    BY <1>3, <1>5, <2>1, <2>2
<1>7. CASE stored = {}
  <2>1. lane \notin DOMAIN Builtin
    BY <1>7
  <2>2. ~NamesLane /\ ask.strategy # "auto"
    BY <2>1, LanesBuiltin DEF NamesLane, AskedLane, Builtin
  <2>3. route' = [Unrouted EXCEPT !.pc = "unknown strategy", !.lane = lane]
    BY <1>7 DEF ResolveStrategy
  <2>4. route' = Route("unknown strategy", lane, Define(<<>>, <<>>), NoName, <<>>, {})
    BY <2>3 DEF Unrouted, Route
  <2>5. Define(<<>>, <<>>) \in Definitions
    <3>1. "auto" \in DOMAIN Builtin /\ Builtin["auto"] = Define(<<>>, <<>>)
      BY DEF Builtin
    <3> QED
      BY <3>1 DEF Definitions
  <2> HIDE DEF lane
  <2> QED
    BY <1>3, <1>5, <2>2, <2>4, <2>5
<1> QED
  BY <1>6, <1>7

\* What _rank finds is who is considered and admitted, in order.
LEMMA RankKeeps ==
    ASSUME RoutingInv, RankProviders PROVE RoutingInv'
<1> DEFINE admitted == {i \in Considered : Admits(route.definition, fleet[i])}
<1>1. fleet' = fleet /\ ask' = ask /\ custom' = custom /\ route.pc = "resolved"
  BY DEF RankProviders
<1>2. \A i \in Considered : ~EvaluationRaises(route.definition, fleet[i])
  <2>1. \A i \in Considered : ProviderTyped(fleet[i])
    BY FleetTyped DEF RoutingInv, RoutingTyped, Considered, Usable
  <2> QED
    BY <2>1, ParsedSafe, DefinitionsParse DEF RoutingInv, RoutingTyped
<1>3. PICK chain \in Rankings(admitted) :
        route' = IF admitted # {}
                 THEN [route EXCEPT !.pc = "ranked", !.parked = ParkedOnes, !.chain = chain]
                 ELSE IF ParkedOnes # {} THEN [route EXCEPT !.pc = "try later", !.parked = ParkedOnes]
                 ELSE [route EXCEPT !.pc = "no provider"]
  BY <1>2 DEF RankProviders
<1>4. /\ chain \in Seq(DOMAIN fleet)
      /\ ToSet(chain) = admitted
      /\ \A k, l \in DOMAIN chain : k < l => Before(chain[k], chain[l])
  <2>1. /\ chain \in [1 .. Cardinality(admitted) -> admitted]
        /\ ToSet(chain) = admitted
        /\ \A k, l \in DOMAIN chain : k < l => Before(chain[k], chain[l])
    BY DEF Rankings
  <2>2. Cardinality(admitted) \in Nat
    <3>1. PICK n \in Nat : DOMAIN fleet = 1 .. n
      <4>1. PICK S : fleet \in Seq(S)
        BY FleetTyped DEF RoutingInv, RoutingTyped
      <4> QED
        BY <4>1, LenProperties
    <3>2. IsFiniteSet(1 .. n)
      BY <3>1, FS_Interval
    <3>3. admitted \subseteq 1 .. n
      BY <3>1 DEF Considered, Usable
    <3> QED
      BY <3>2, <3>3, FS_Subset, FS_CardinalityType
  <2>3. chain \in Seq(admitted)
    BY <2>1, <2>2
  <2>4. admitted \subseteq DOMAIN fleet
    BY DEF Considered, Usable
  <2> HIDE DEF admitted
  <2>5. chain \in Seq(DOMAIN fleet)
    BY <2>1, <2>2, <2>4
  <2> QED
    BY <2>1, <2>5
<1> HIDE DEF admitted
<1>5. ASSUME NEW where \in {"ranked", "try later", "no provider"}, NEW list \in Seq(DOMAIN fleet), NEW asleep,
             route' = Route(where, route.lane, route.definition, route.model, list, asleep),
             where = "ranked" => list = chain /\ asleep = ParkedOnes
      PROVE  RoutingInv'
  <2>1. /\ route'.pc = where /\ route'.definition = route.definition /\ route'.model = route.model
        /\ route'.chain = list /\ route'.lane = route.lane /\ route'.parked = asleep
    BY <1>5 DEF Route
  <2>2. RoutingTyped'
    BY <1>1, <1>5, <2>1 DEF RoutingInv, RoutingTyped
  <2>3. /\ ParkedOnes' = ParkedOnes /\ Considered' = Considered
        /\ \A i, j : Before(i, j)' <=> Before(i, j)
    BY <1>1, <2>1, OrderStays
  <2>4. where = "ranked" => InOrder'
    BY <1>4, <1>5, <2>1, <2>3 DEF InOrder
  <2>5. where = "ranked" => ToSet(route'.chain) = {i \in Considered' : Admits(route'.definition, fleet'[i])}
    BY <1>1, <1>4, <1>5, <2>1, <2>3 DEF admitted
  <2> QED
    BY <1>5, <2>1, <2>2, <2>3, <2>4, <2>5 DEF RoutingInv
<1>6. /\ route = Route(route.pc, route.lane, route.definition, route.model, route.chain, route.parked)
      /\ route.chain \in Seq(DOMAIN fleet)
  BY DEF RoutingInv, RoutingTyped
<1>7. PICK p, a, b, c, d, e : route = Route(p, a, b, c, d, e)
  BY <1>6
<1>8. a = route.lane /\ b = route.definition /\ c = route.model /\ d = route.chain /\ e = route.parked
  BY <1>7 DEF Route
<1>9. CASE admitted # {}
  <2>1. route' = Route("ranked", a, b, c, chain, ParkedOnes)
    BY <1>3, <1>7, <1>9 DEF Route
  <2> QED
    BY <1>4, <1>5, <1>8, <2>1
<1>10. CASE admitted = {} /\ ParkedOnes # {}
  <2>1. route' = Route("try later", a, b, c, d, ParkedOnes)
    BY <1>3, <1>7, <1>10 DEF Route
  <2> QED
    BY <1>5, <1>6, <1>8, <2>1
<1>11. CASE admitted = {} /\ ParkedOnes = {}
  <2>1. route' = Route("no provider", a, b, c, d, e)
    BY <1>3, <1>7, <1>11 DEF Route
  <2> QED
    BY <1>5, <1>6, <1>8, <2>1
<1> QED
  BY <1>9, <1>10, <1>11

\* The filter keeps the order and leaves who can serve.
LEMMA FilterKeeps ==
    ASSUME RoutingInv, FilterCapabilities PROVE RoutingInv'
<1> DEFINE HasVision == {i \in DOMAIN fleet : ask.prompt.image => fleet[i].vision}
           HasTools == {i \in DOMAIN fleet : ask.tools => fleet[i].tools}
           T == DOMAIN fleet
<1>1. fleet' = fleet /\ ask' = ask /\ custom' = custom /\ route.pc = "ranked"
  BY DEF FilterCapabilities
<1>2. PICK seeing : seeing = Only(route.chain, HasVision)
  OBVIOUS
<1>3. PICK able : able = Only(seeing, HasTools)
  OBVIOUS
<1>4. route' = [route EXCEPT !.chain = able,
                  !.pc = IF able # <<>> THEN "routed"
                         ELSE IF seeing = <<>> THEN "no vision"
                         ELSE IF \E i \in route.parked : fleet[i].registered /\ fleet[i].tools
                         THEN "try later" ELSE "no tools"]
  BY <1>2, <1>3 DEF FilterCapabilities
<1>5. /\ route = Route(route.pc, route.lane, route.definition, route.model, route.chain, route.parked)
      /\ route.chain \in Seq(T)
      /\ route.parked = ParkedOnes
      /\ ToSet(route.chain) = {i \in Considered : Admits(route.definition, fleet[i])}
      /\ InOrder
  BY <1>1 DEF RoutingInv, RoutingTyped
<1> HIDE DEF HasVision, HasTools, T
<1>6. /\ seeing \in Seq(T)
      /\ \A j \in DOMAIN seeing : seeing[j] \in HasVision
      /\ \A i \in DOMAIN route.chain :
            route.chain[i] \in HasVision => \E j \in DOMAIN seeing : seeing[j] = route.chain[i]
      /\ \A j \in DOMAIN seeing : \E i \in DOMAIN route.chain : route.chain[i] = seeing[j]
      /\ \A j, k \in DOMAIN seeing :
            j < k => \E i, l \in DOMAIN route.chain :
                        i < l /\ route.chain[i] = seeing[j] /\ route.chain[l] = seeing[k]
  <2>1. PICK list : list = route.chain
    OBVIOUS
  <2>2. list \in Seq(T) /\ seeing = Only(list, HasVision)
    BY <1>2, <1>5, <2>1
  <2>3. /\ seeing \in Seq(T)
        /\ \A j \in DOMAIN seeing : seeing[j] \in HasVision
        /\ \A i \in DOMAIN list :
              list[i] \in HasVision => \E j \in DOMAIN seeing : seeing[j] = list[i]
        /\ \A j \in DOMAIN seeing : \E i \in DOMAIN list : list[i] = seeing[j]
        /\ \A j, k \in DOMAIN seeing :
              j < k => \E i, l \in DOMAIN list :
                          i < l /\ list[i] = seeing[j] /\ list[l] = seeing[k]
    BY <2>2, OnlySelects
  <2> QED
    BY <2>1, <2>3
<1>7. /\ able \in Seq(T)
      /\ \A j \in DOMAIN able : able[j] \in HasTools
      /\ \A i \in DOMAIN seeing :
            seeing[i] \in HasTools => \E j \in DOMAIN able : able[j] = seeing[i]
      /\ \A j \in DOMAIN able : \E i \in DOMAIN seeing : seeing[i] = able[j]
      /\ \A j, k \in DOMAIN able :
            j < k => \E i, l \in DOMAIN seeing : i < l /\ seeing[i] = able[j] /\ seeing[l] = able[k]
  BY <1>3, <1>6, OnlySelects
<1>8. ASSUME NEW j \in DOMAIN able, NEW k \in DOMAIN able, j < k PROVE Before(able[j], able[k])
  <2>1. PICK i, l \in DOMAIN seeing : i < l /\ seeing[i] = able[j] /\ seeing[l] = able[k]
    BY <1>7, <1>8
  <2>2. PICK m, n \in DOMAIN route.chain : m < n /\ route.chain[m] = seeing[i] /\ route.chain[n] = seeing[l]
    BY <1>6, <2>1
  <2>3. Before(route.chain[m], route.chain[n])
    BY <1>5, <2>2 DEF InOrder
  <2> QED
    BY <2>1, <2>2, <2>3
<1>9. ToSet(able) = {i \in T : CanServe(i)}
  <2>1. ASSUME NEW j \in DOMAIN able PROVE able[j] \in T /\ CanServe(able[j])
    <3>1. PICK i \in DOMAIN seeing : seeing[i] = able[j]
      BY <1>7
    <3>2. PICK m \in DOMAIN route.chain : route.chain[m] = seeing[i]
      BY <1>6
    <3>3. able[j] \in ToSet(route.chain) /\ able[j] \in HasVision /\ able[j] \in HasTools
      BY <1>6, <1>7, <3>1, <3>2 DEF ToSet
    <3> QED
      BY <1>5, <3>3 DEF CanServe, HasVision, HasTools, T
  <2>2. ASSUME NEW x \in T, CanServe(x) PROVE \E j \in DOMAIN able : able[j] = x
    <3>1. x \in HasVision /\ x \in HasTools /\ x \in ToSet(route.chain)
      BY <1>5, <2>2 DEF CanServe, HasVision, HasTools, T
    <3>2. PICK m \in DOMAIN route.chain : route.chain[m] = x
      BY <3>1 DEF ToSet
    <3>3. PICK i \in DOMAIN seeing : seeing[i] = x
      BY <1>6, <3>1, <3>2
    <3> QED
      BY <1>7, <3>1, <3>3
  <2> QED
    BY <2>1, <2>2 DEF ToSet
<1>10. PICK where : where = IF able # <<>> THEN "routed"
                            ELSE IF seeing = <<>> THEN "no vision"
                            ELSE IF \E i \in route.parked : fleet[i].registered /\ fleet[i].tools
                            THEN "try later" ELSE "no tools"
  OBVIOUS
<1>11. PICK p, a, b, c, d, e : route = Route(p, a, b, c, d, e)
  BY <1>5
<1>12. a = route.lane /\ b = route.definition /\ c = route.model /\ d = route.chain /\ e = route.parked
  BY <1>11 DEF Route
<1>13. route' = Route(where, a, b, c, able, e)
  BY <1>4, <1>10, <1>11 DEF Route
<1>14. /\ route'.pc = where /\ route'.definition = route.definition /\ route'.model = route.model
       /\ route'.chain = able /\ route'.lane = route.lane /\ route'.parked = route.parked
  BY <1>12, <1>13 DEF Route
<1>15. RoutingTyped'
  BY <1>1, <1>7, <1>12, <1>13, <1>14 DEF RoutingInv, RoutingTyped, T
<1>16. /\ Usable' = Usable
       /\ \A i, j : Before(i, j)' <=> Before(i, j)
       /\ \A i : CanServe(i)' <=> CanServe(i)
  BY <1>1, <1>14, OrderStays
<1>17. InOrder'
  BY <1>8, <1>14, <1>16 DEF InOrder
<1>18. ToSet(route'.chain) = {i \in DOMAIN fleet' : CanServe(i)'}
  BY <1>1, <1>9, <1>14, <1>16 DEF T
<1>19. where = "no tools" =>
         \A i \in Usable' : fleet'[i].registered /\ fleet'[i].tools => fleet'[i].healthy /\ ~TokensSpent(fleet'[i])
  BY <1>1, <1>5, <1>10, <1>16 DEF ParkedOnes
<1>20. where \in {"routed", "no vision", "try later", "no tools"}
  BY <1>10
<1> QED
  BY <1>1, <1>14, <1>15, <1>17, <1>18, <1>19, <1>20 DEF RoutingInv

\* Every step keeps the invariant.
LEMMA RoutingStep == RoutingInv /\ [RoutingNext]_routingVars => RoutingInv'
<1> SUFFICES ASSUME RoutingInv, [RoutingNext]_routingVars PROVE RoutingInv'
  OBVIOUS
<1>1. ASSUME NEW d \in Drafts, SaveDefinition(d) PROVE RoutingInv'
  <2>1. ToSet(custom') = {d}
    BY <1>1 DEF SaveDefinition, ToSet
  <2>2. d \in Definitions
    BY <1>1 DEF SaveDefinition, Definitions
  <2> QED
    BY <1>1, <2>1, <2>2, EditKeeps DEF SaveDefinition
<1>2. CASE RemoveStrategy
  <2>1. ToSet(custom') = {}
    BY <1>2 DEF RemoveStrategy, ToSet
  <2> QED
    BY <1>2, <2>1, EditKeeps DEF RemoveStrategy
<1>3. CASE ResolveStrategy
  BY <1>3, ResolveKeeps
<1>4. CASE RankProviders
  BY <1>4, RankKeeps
<1>5. CASE FilterCapabilities
  BY <1>5, FilterKeeps
<1>6. CASE UNCHANGED routingVars
  <2>1. UNCHANGED <<fleet, ask, route>> /\ custom' = custom
    BY <1>6 DEF routingVars
  <2>2. ToSet(custom') \subseteq Definitions
    BY <2>1 DEF RoutingInv, RoutingTyped
  <2> QED
    BY <2>1, <2>2, EditKeeps
<1> QED
  BY <1>1, <1>2, <1>3, <1>4, <1>5, <1>6 DEF RoutingNext

\* In an order by scores nobody comes before one that outdoes it, but for the
\* preferred provider, which comes first if nothing outweighs its bonus.
LEMMA OrderRight ==
    ASSUME RoutingInv, InOrder, NEW k \in DOMAIN route.chain
    PROVE  /\ PreferenceOutweighs => (fleet[route.chain[k]].name = ask.preferred => k = 1)
           /\ \A l \in 1 .. k - 1 :
                Outdoes(route.chain[k], route.chain[l]) => fleet[route.chain[l]].name = ask.preferred
<1> DEFINE chain == route.chain
           worth(i) == Worth(route.definition, fleet[i])
<1>1. /\ fleet \in Fleets /\ route.definition \in Definitions /\ chain \in Seq(DOMAIN fleet)
      /\ \A i \in DOMAIN fleet : ProviderTyped(fleet[i])
      /\ \A i, j \in DOMAIN fleet : fleet[i].name = fleet[j].name => i = j
  BY FleetTyped DEF RoutingInv, RoutingTyped
<1>2. PICK n \in Nat : DOMAIN fleet = 1 .. n
  <2>1. PICK S : fleet \in Seq(S)
    BY <1>1, FleetTyped
  <2> QED
    BY <2>1, LenProperties
<1>3. /\ Len(chain) \in Nat /\ DOMAIN chain = 1 .. Len(chain)
      /\ \A m \in DOMAIN chain : chain[m] \in DOMAIN fleet
  BY <1>1, LenProperties, ElementOfSeq
<1>4. \A i \in DOMAIN fleet : worth(i) \in Int
  BY <1>1, WorthTyped
<1>5. \A i : Score(i) = worth(i) + IF fleet[i].name = ask.preferred THEN 2000 ELSE 0
  BY DEF Score
<1>6. ASSUME NEW l \in 1 .. k - 1
      PROVE  /\ chain[l] \in DOMAIN fleet /\ chain[k] \in DOMAIN fleet
             /\ chain[l] # chain[k]
             /\ Score(chain[l]) >= Score(chain[k])
  <2>1. l \in DOMAIN chain /\ l < k
    BY <1>3, <1>6
  <2>2. PICK i, j \in DOMAIN fleet : i = chain[l] /\ j = chain[k]
    BY <1>3, <2>1
  <2>3. Before(i, j)
    BY <2>1, <2>2 DEF InOrder
  <2>4. Score(i) \in Int /\ Score(j) \in Int
    BY <1>4, <1>5
  <2>5. i # j /\ Score(i) >= Score(j)
    BY <1>2, <2>3, <2>4 DEF Before
  <2> QED
    BY <2>2, <2>5
<1>7. ASSUME PreferenceOutweighs, fleet[chain[k]].name = ask.preferred, k # 1 PROVE FALSE
  <2>1. 1 \in 1 .. k - 1
    BY <1>3, <1>7
  <2>2. PICK i, j \in DOMAIN fleet : i = chain[1] /\ j = chain[k] /\ i # j /\ Score(i) >= Score(j)
    BY <1>6, <2>1
  <2>3. fleet[i].name # ask.preferred
    BY <1>1, <1>7, <2>2
  <2>4. worth(i) < worth(j) + 2000
    BY <1>1, <1>7, <2>2 DEF PreferenceOutweighs
  <2>5. Score(i) = worth(i) /\ Score(j) = worth(j) + 2000
    BY <1>4, <1>5, <1>7, <2>2, <2>3
  <2> QED
    BY <1>4, <2>2, <2>4, <2>5
<1>8. ASSUME NEW l \in 1 .. k - 1, Outdoes(chain[k], chain[l])
      PROVE  fleet[chain[l]].name = ask.preferred
  <2>1. PICK i, j \in DOMAIN fleet : i = chain[l] /\ j = chain[k] /\ Score(i) >= Score(j)
    BY <1>6
  <2>2. worth(j) > worth(i)
    BY <1>1, <1>8, <2>1, OutdoesWorth
  <2>3. SUFFICES ASSUME fleet[i].name # ask.preferred PROVE FALSE
    BY <2>1
  <2>4. Score(i) = worth(i) /\ Score(j) >= worth(j)
    BY <1>4, <1>5, <2>3
  <2>5. worth(i) \in Int /\ worth(j) \in Int
    BY <1>4
  <2> HIDE DEF worth
  <2>6. Score(j) >= worth(j) /\ Score(j) \in Int
    BY <1>5, <2>4, <2>5
  <2> QED
    BY <2>1, <2>2, <2>4, <2>5, <2>6
<1> QED
  BY <1>7, <1>8

\* The invariant says all that the run checks.
LEMMA RoutingInvRight == PreferenceOutweighs /\ RoutingInv => RoutedRight
<1> SUFFICES ASSUME PreferenceOutweighs, RoutingInv PROVE RoutedRight
  OBVIOUS
<1>1. ASSUME route.pc = "routed", NEW k \in DOMAIN route.chain
      PROVE  LET i == route.chain[k]
             IN /\ fleet[i].name = ask.preferred => k = 1
                /\ \A l \in 1 .. k - 1 :
                     Outdoes(i, route.chain[l]) => fleet[route.chain[l]].name = ask.preferred
  BY <1>1, OrderRight DEF RoutingInv
<1> QED
  BY <1>1 DEF RoutedRight, RoutingInv

\* Whatever the weights are: evaluating a definition that was stored or built in
\* never fails, virtual models have their lanes, everybody who can serve is asked
\* and nobody else, in the order of the scores, and "no tools" is never said
\* while somebody who can call tools is merely parked.
THEOREM RoutesByScore == RoutingSpec => []RoutingInv
BY RoutingInitial, RoutingStep, PTL DEF RoutingSpec

\* If nothing outweighs the bonus of the preferred provider, it comes first, and
\* nobody comes after one that it outdoes.
THEOREM RoutesRight ==
    ASSUME PreferenceOutweighs PROVE RoutingSpec => []RoutedRight
<1>1. RoutingInv => RoutedRight
  BY RoutingInvRight
<1> QED
  BY <1>1, RoutesByScore, PTL
====
